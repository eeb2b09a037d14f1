---------------------------- MODULE PeerElProofs ----------------------------
(***************************************************************************)
(* Properties of module PeerEl for every setting of its timers, with and   *)
(* without a proxy and a worker thread.  The second part is about the      *)
(* keepalive: under which timers, and after how many losses, the           *)
(* conference still counts us as a member.  The third is about the flags   *)
(* between the loop and the worker: no wake-up is lost.                    *)
(***************************************************************************)
EXTENDS PeerEl, SequenceTheorems, TLAPS

-----------------------------------------------------------------------------
(* Lists of operations *)

\* An address an operation carries is one the directory gave.
Ops == {o \in OpNames \X (Addrs \union {0}) :
          o[1] \in {"emit", "apply"} => o[2] \in Addrs}

\* The lists of operations that calls put in front are lists of operations.
LEMMA Lists ==
  /\ <<>> \in Seq(Ops)
  /\ SendSdes \in Seq(Ops)
  /\ SendHandshake \in Seq(Ops)
  /\ <<Op("keepalive", 0), Op("stale", 0)>> \in Seq(Ops)
  /\ <<Op("callback", 0), Op("unlock", 0), Op("reply", 0)>> \in Seq(Ops)
  /\ \A n \in OpNames, a \in Addrs : <<Op(n, a)>> \in Seq(Ops)
  /\ \A n \in OpNames \ {"emit", "apply"} : <<Op(n, 0)>> \in Seq(Ops)
<1>1. \A n \in OpNames, a \in Addrs : Op(n, a) \in Ops
  BY DEF Ops, Op
<1>2. \A n \in OpNames \ {"emit", "apply"} : Op(n, 0) \in Ops
  BY DEF Ops, Op
<1>3. /\ Op("build", 0) \in Ops /\ Op("open", 0) \in Ops
      /\ Op("keepalive", 0) \in Ops /\ Op("stale", 0) \in Ops
      /\ Op("callback", 0) \in Ops /\ Op("unlock", 0) \in Ops /\ Op("reply", 0) \in Ops
  BY <1>2 DEF OpNames
<1> QED
  BY <1>1, <1>2, <1>3 DEF SendSdes, SendHandshake

\* So are those a directory job comes down to.
LEMMA JobLists ==
  ASSUME NEW j
  PROVE  JobOps(j) \in Seq(Ops)
<1> DEFINE a == IF j \in {"LOGIN", "LOGIN_LIST"} THEN <<Op("login", 0)>> ELSE <<>>
           b == IF j \in {"LIST", "LOGIN_LIST"} /\ ListInterval > 0
                THEN <<Op("list", 0)>> ELSE <<>>
<1>1. a \in Seq(Ops) /\ b \in Seq(Ops)
  BY Lists DEF OpNames
<1>2. JobOps(j) = SendSdes \o a \o b \o SendSdes
  BY DEF JobOps
<1> HIDE DEF a, b
<1>3. SendSdes \o a \in Seq(Ops)
  BY <1>1, Lists, ConcatProperties
<1>4. SendSdes \o a \o b \in Seq(Ops)
  BY <1>1, <1>3, ConcatProperties
<1>5. SendSdes \o a \o b \o SendSdes \in Seq(Ops)
  BY <1>4, Lists, ConcatProperties
<1> QED
  BY <1>2, <1>5

(* A thread goes on: its list keeps its type, and the other thread's is as *)
(* it was. *)
LEMMA Continues ==
  ASSUME todo \in [Threads -> Seq(Ops)], NEW t \in Threads, todo[t] # <<>>,
         NEW ops \in Seq(Ops), Continue(t, ops)
  PROVE  /\ todo' \in [Threads -> Seq(Ops)]
         /\ todo'[t] = ops \o Tail(todo[t])
         /\ \A u \in Threads : u # t => todo'[u] = todo[u]
<1>1. Tail(todo[t]) \in Seq(Ops)
  BY HeadTailProperties
<1>2. ops \o Tail(todo[t]) \in Seq(Ops)
  BY <1>1, ConcatProperties
<1> QED
  BY <1>2 DEF Continue

\* An operation with an address has one.
LEMMA Args ==
  ASSUME todo \in [Threads -> Seq(Ops)], NEW t \in Threads
  PROVE  At(t, "emit") \/ At(t, "apply") => Arg(t) \in Addrs
<1>1. todo[t] # <<>> => Head(todo[t]) \in Ops
  BY HeadTailProperties
<1> QED
  BY <1>1 DEF At, Arg, Ops

(* With those addresses, lists of operations have the type TypeOK gives. *)
LEMMA ListTypes ==
  \A l \in Seq(Ops) : l \in Seq(OpNames \X Nat)
<1>1. SUFFICES ASSUME NEW l \in Seq(Ops)
               PROVE  l \in Seq(OpNames \X Nat)
  OBVIOUS
<1>2. Len(l) \in Nat /\ l \in [1..Len(l) -> Ops]
  BY LenProperties
<1>3. Ops \subseteq OpNames \X Nat
  <2>1. Addrs \union {0} \subseteq Nat
    BY PeerElAssumption
  <2>2. Ops \subseteq OpNames \X (Addrs \union {0})
    BY DEF Ops
  <2> QED
    BY <2>1, <2>2
<1>4. l \in [1..Len(l) -> OpNames \X Nat]
  BY <1>2, <1>3
<1> QED
  BY <1>2, <1>4

-----------------------------------------------------------------------------
(* The inductive invariant *)

ListInv == todo \in [Threads -> Seq(Ops)]

\* The loop is out of its list when it writes, or waits for the worker.
PhaseInv == phase \in {"write", "join", "closed"} => todo["main"] = <<>>

\* What is left of el_proxy_poll and of what follows it.
Polling == {<<Op("callback", 0), Op("unlock", 0), Op("reply", 0)>>,
            <<Op("unlock", 0), Op("reply", 0)>>}

\* proxy.mu is held between two operations by el_proxy_poll only.
MutexInv ==
  /\ proxyMu # "worker"
  /\ proxyMu = "main" => proxy /\ phase = "run" /\ todo["main"] \in Polling

Inv == TypeOK /\ ListInv /\ PhaseInv /\ TalkerNeedsLink /\ MutexInv

\* While the loop holds the mutex of the proxy it is in the callback or leaves it.
LEMMA PollingHeads ==
  ASSUME Inv, proxyMu = "main", NEW n, At("main", n)
  PROVE  n \in {"callback", "unlock"}
  BY DEF Inv, MutexInv, Polling, At, Op

(* What happens to the connection to the proxy keeps its types. *)
LEMMA ConnTypes ==
  ASSUME TypeOK
  PROVE  /\ Ensured \/ NotEnsured \/ MarkDisconnected \/ UNCHANGED <<px, backIn>> =>
              px' \in BOOLEAN /\ backIn' \in 0..RECONNECT_SEC
         /\ NotEnsured => faults' \in 0..MaxFaults
<1>1. /\ RECONNECT_SEC \in Nat \ {0} /\ px \in BOOLEAN /\ backIn \in 0..RECONNECT_SEC
      /\ proxy \in BOOLEAN
  BY PeerElAssumption DEF TypeOK
<1>2. faults \in 0..MaxFaults /\ MaxFaults \in Nat
  BY PeerElAssumption DEF TypeOK
<1>3. NotEnsured => faults' = faults \/ (faults < MaxFaults /\ faults' = faults + 1)
  BY DEF NotEnsured
<1>4. NotEnsured => faults' \in 0..MaxFaults
  BY <1>2, <1>3
<1>5. Ensured => px' = proxy /\ backIn' = 0
  BY DEF Ensured
<1>6. NotEnsured => px' = px /\ backIn' \in {backIn, RECONNECT_SEC}
  BY DEF NotEnsured
<1>7. MarkDisconnected => px' = FALSE /\ backIn' = RECONNECT_SEC
  BY DEF MarkDisconnected
<1>8. 0 \in 0..RECONNECT_SEC /\ RECONNECT_SEC \in 0..RECONNECT_SEC
  BY <1>1
<1> QED
  BY <1>1, <1>4, <1>5, <1>6, <1>7, <1>8, Zenon

(* An operation of thread t that both threads may have. *)
LEMMA DirectoryFrame ==
  ASSUME NEW t \in Threads, Directory(t)
  PROVE  /\ UNCHANGED <<proxy, on, phase, asleep, exited, job, busy, stop, proxyMu,
                        linked, talker, explicit, pending, rtcpAge, rtpAge, loginIn,
                        listIn, ticked, opTime, held, pcmOut, toUs, cut, confAddr,
                        member, opened, confAge, dropped>>
         /\ \E n \in {"build", "emit", "open", "login", "list", "apply"} : At(t, n)
<1> USE DEF link, clocks, network, conn, conf
<1>1. CASE Build(t)
  BY <1>1 DEF Build
<1>2. CASE Emit(t)
  BY <1>2 DEF Emit
<1>3. CASE FirewallOpen(t)
  BY <1>3 DEF FirewallOpen
<1>4. CASE Login(t) \/ Found(t)
  BY <1>4 DEF Login, Found, Ensured, NotEnsured
<1>5. CASE NotFound(t)
  BY <1>5 DEF NotFound, Ensured, NotEnsured
<1>6. CASE Apply(t)
  BY <1>6 DEF Apply
<1> QED
  BY <1>1, <1>2, <1>3, <1>4, <1>5, <1>6 DEF Directory

\* A directory operation keeps the types of all it touches.
LEMMA DirectoryTypes ==
  ASSUME TypeOK, ListInv, NEW t \in Threads, Directory(t)
  PROVE  /\ ListInv' /\ \A u \in Threads : u # t => todo'[u] = todo[u]
         /\ addr' \in Addrs \union {0} /\ sdesAge' \in 0..EL_SDES_INTERVAL
         /\ toConf' \subseteq Datagrams /\ faults' \in 0..MaxFaults
         /\ px' \in BOOLEAN /\ backIn' \in 0..RECONNECT_SEC
<1> USE DEF link, clocks, network, conn, conf
<1>1. todo[t] # <<>>
  BY DirectoryFrame DEF At
<1>2. /\ addr \in Addrs \union {0} /\ sdesAge \in 0..EL_SDES_INTERVAL
      /\ toConf \subseteq Datagrams /\ faults \in 0..MaxFaults /\ confAddr \in Addrs
      /\ 0 \in 0..EL_SDES_INTERVAL /\ MaxFaults \in Nat
  BY PeerElAssumption DEF TypeOK
<1>3. PICK ops \in Seq(Ops) : Continue(t, ops)
  <2>1. /\ <<>> \in Seq(Ops) /\ SendHandshake \in Seq(Ops)
        /\ \A a \in Addrs : <<Op("emit", a)>> \in Seq(Ops) /\ <<Op("apply", a)>> \in Seq(Ops)
    BY Lists DEF OpNames
  <2>2. CASE Build(t)
    BY <1>2, <2>1, <2>2 DEF Build
  <2>3. CASE Emit(t) \/ FirewallOpen(t) \/ Login(t) \/ NotFound(t)
    BY <2>1, <2>3 DEF Emit, FirewallOpen, Login, NotFound
  <2>4. CASE Found(t)
    BY <1>2, <2>1, <2>4 DEF Found
  <2>5. CASE Apply(t)
    BY <2>1, <2>5 DEF Apply
  <2> QED
    BY <2>2, <2>3, <2>4, <2>5 DEF Directory
<1>4. ListInv' /\ \A u \in Threads : u # t => todo'[u] = todo[u]
  BY <1>1, <1>3, Continues DEF ListInv
<1>5. addr' \in Addrs \union {0} /\ sdesAge' \in 0..EL_SDES_INTERVAL
  <2>1. CASE Build(t)
    BY <1>2, <2>1 DEF Build
  <2>2. CASE Apply(t)
    <3>1. Arg(t) \in Addrs
      BY <2>2, Args DEF Apply, ListInv
    <3> QED
      BY <1>2, <2>2, <3>1 DEF Apply
  <2>3. CASE Emit(t) \/ FirewallOpen(t) \/ Login(t) \/ Found(t) \/ NotFound(t)
    BY <1>2, <2>3 DEF Emit, FirewallOpen, Login, Found, NotFound
  <2> QED
    BY <2>1, <2>2, <2>3 DEF Directory
<1>6. toConf' \subseteq Datagrams
  <2>1. CASE Emit(t)
    <3>1. <<"SDES", Arg(t)>> \in Datagrams
      BY <2>1, Args DEF Emit, ListInv, Datagrams
    <3> QED
      BY <1>2, <2>1, <3>1 DEF Emit, SendUdpRtcp
  <2>2. CASE FirewallOpen(t)
    <3>1. addr # 0 => <<"OPEN", addr>> \in Datagrams
      BY <1>2 DEF Datagrams
    <3> QED
      BY <1>2, <2>2, <3>1 DEF FirewallOpen, SendUdpRtcp
  <2>3. CASE Build(t) \/ Login(t) \/ Found(t) \/ NotFound(t) \/ Apply(t)
    BY <1>2, <2>3 DEF Build, Login, Found, NotFound, Apply
  <2> QED
    BY <2>1, <2>2, <2>3 DEF Directory
<1>7. faults' \in 0..MaxFaults
  <2>1. CASE NotFound(t) \/ Login(t)
    <3>1. CASE NotEnsured
      BY <3>1, ConnTypes
    <3>2. CASE ~NotEnsured
      BY <1>2, <2>1, <3>2 DEF NotFound, Login
    <3> QED
      BY <3>1, <3>2
  <2>2. CASE Build(t) \/ Emit(t) \/ FirewallOpen(t) \/ Found(t) \/ Apply(t)
    BY <1>2, <2>2 DEF Build, Emit, FirewallOpen, Found, Apply
  <2> QED
    BY <2>1, <2>2 DEF Directory
<1>8. px' \in BOOLEAN /\ backIn' \in 0..RECONNECT_SEC
  <2>1. CASE Build(t) \/ Apply(t)
    BY <2>1, ConnTypes DEF Build, Apply
  <2>2. CASE Emit(t) \/ FirewallOpen(t)
    BY <2>2, ConnTypes DEF Emit, FirewallOpen, SendUdpRtcp
  <2>3. CASE Login(t) \/ Found(t) \/ NotFound(t)
    BY <2>3, ConnTypes DEF Login, Found, NotFound
  <2> QED
    BY <2>1, <2>2, <2>3 DEF Directory
<1> QED
  BY <1>4, <1>5, <1>6, <1>7, <1>8

\* Directory operations of either thread.
LEMMA DirectoryStep ==
  ASSUME Inv, NEW t \in Threads, Directory(t)
  PROVE  Inv'
<1> USE DEF Inv
<1>1. /\ ListInv' /\ \A u \in Threads : u # t => todo'[u] = todo[u]
      /\ addr' \in Addrs \union {0} /\ sdesAge' \in 0..EL_SDES_INTERVAL
      /\ toConf' \subseteq Datagrams /\ faults' \in 0..MaxFaults
      /\ px' \in BOOLEAN /\ backIn' \in 0..RECONNECT_SEC
  BY DirectoryTypes
<1>2. /\ UNCHANGED <<proxy, on, phase, asleep, exited, job, busy, stop, proxyMu,
                     linked, talker, explicit, pending, rtcpAge, rtpAge, loginIn,
                     listIn, ticked, opTime, held, pcmOut, toUs, cut, confAddr,
                     member, opened, confAge, dropped>>
      /\ \E n \in {"build", "emit", "open", "login", "list", "apply"} : At(t, n)
  BY DirectoryFrame
<1>3. TypeOK'
  <2>1. todo' \in [Threads -> Seq(OpNames \X Nat)]
    BY <1>1, ListTypes DEF ListInv
  <2>2. /\ proxy' \in BOOLEAN /\ on' \in BOOLEAN /\ asleep' \in BOOLEAN
        /\ phase' \in {"start", "run", "write", "join", "closed"}
        /\ exited' \in BOOLEAN /\ job' \in Jobs /\ busy' \in BOOLEAN
        /\ stop' \in BOOLEAN /\ proxyMu' \in Threads \union {"none"}
        /\ linked' \in BOOLEAN /\ talker' \in {"host", "user"}
        /\ explicit' \in BOOLEAN /\ pending' \in BOOLEAN
    BY <1>2 DEF TypeOK
  <2>3. /\ rtcpAge' \in 0..EL_PEER_STALE_SEC /\ rtpAge' \in 0..STICKY
        /\ loginIn' \in Nat /\ listIn' \in Nat /\ ticked' \in BOOLEAN
        /\ pcmOut' \in 0..RTP_FRAMES /\ opTime' \in [Threads -> 0..DirTime]
        /\ held' \in 0..MaxHeld /\ cut' \in BOOLEAN
        /\ toUs' \subseteq {"RTP", "OPEN", "HOST", "USER"}
        /\ confAddr' \in Addrs /\ member' \in BOOLEAN /\ opened' \in BOOLEAN
        /\ confAge' \in 0..CONF_TIMEOUT /\ dropped' \in BOOLEAN
    BY <1>2 DEF TypeOK
  <2> QED
    BY <1>1, <2>1, <2>2, <2>3, Zenon DEF TypeOK
<1>4. TalkerNeedsLink'
  BY <1>2 DEF TalkerNeedsLink
<1>5. CASE t = "main"
  <2>1. proxyMu # "main"
    BY <1>2, <1>5, PollingHeads
  <2>2. todo["main"] # <<>>
    BY <1>2, <1>5 DEF At
  <2> QED
    BY <1>1, <1>2, <1>3, <1>4, <2>1, <2>2 DEF PhaseInv, MutexInv
<1>6. CASE t # "main"
  <2>1. todo'["main"] = todo["main"]
    BY <1>1, <1>6 DEF Threads
  <2> QED
    BY <1>1, <1>2, <1>3, <1>4, <2>1 DEF PhaseInv, MutexInv
<1> QED
  BY <1>5, <1>6

-----------------------------------------------------------------------------
(* The worker *)

\* The worker takes a job or reports it done.
LEMMA WorkerStep ==
  ASSUME Inv, WorkerTop \/ WorkerDone
  PROVE  Inv'
<1> USE DEF Inv, Threads, link, clocks, network, conn, conf
<1>1. /\ UNCHANGED <<proxy, on, phase, stop, proxyMu, addr, linked, talker, explicit,
                     pending, sdesAge, rtcpAge, rtpAge, loginIn, listIn, ticked, held, pcmOut,
                     toConf, toUs, px, backIn, cut, confAddr, member, opened, confAge,
                     dropped, faults>>
      /\ ListInv' /\ todo'["main"] = todo["main"]
      /\ asleep' \in BOOLEAN /\ exited' \in BOOLEAN /\ busy' \in BOOLEAN
      /\ job' \in Jobs
      /\ opTime' \in [Threads -> 0..DirTime]
  <2>1. CASE WorkerTop
    <3>1. todo' = todo \/ todo' = [todo EXCEPT !["worker"] = JobOps(job) \o <<Op("done", 0)>>]
      BY <2>1 DEF WorkerTop
    <3>2. JobOps(job) \o <<Op("done", 0)>> \in Seq(Ops)
      <4>1. JobOps(job) \in Seq(Ops)
        BY JobLists
      <4>2. <<Op("done", 0)>> \in Seq(Ops)
        BY Lists DEF OpNames
      <4> QED
        BY <4>1, <4>2, ConcatProperties
    <3>3. ListInv' /\ todo'["main"] = todo["main"]
      BY <3>1, <3>2 DEF ListInv
    <3>4. asleep' \in BOOLEAN /\ exited' \in BOOLEAN /\ busy' \in BOOLEAN
      BY <2>1 DEF WorkerTop, TypeOK
    <3>5. job' \in Jobs
      BY <2>1 DEF WorkerTop, TypeOK, Jobs
    <3> QED
      BY <2>1, <3>3, <3>4, <3>5 DEF WorkerTop, TypeOK
  <2>2. CASE WorkerDone
    <3>1. todo["worker"] # <<>> /\ Continue("worker", <<>>)
      BY <2>2 DEF WorkerDone, At
    <3>2. ListInv' /\ todo'["main"] = todo["main"]
      BY <3>1, Lists, Continues DEF ListInv
    <3>3. busy' \in BOOLEAN
      BY <2>2 DEF WorkerDone
    <3>4. opTime' \in [Threads -> 0..DirTime]
      BY <2>2, PeerElAssumption DEF WorkerDone, TypeOK
    <3> QED
      BY <2>2, <3>2, <3>3, <3>4 DEF WorkerDone, TypeOK
  <2> QED
    BY <2>1, <2>2
<1>2. TypeOK'
  <2>1. todo' \in [Threads -> Seq(OpNames \X Nat)]
    BY <1>1, ListTypes DEF ListInv
  <2> QED
    BY <1>1, <2>1 DEF TypeOK
<1>3. TalkerNeedsLink' /\ PhaseInv' /\ MutexInv'
  BY <1>1 DEF TalkerNeedsLink, PhaseInv, MutexInv
<1> QED
  BY <1>1, <1>2, <1>3

-----------------------------------------------------------------------------
(* The main loop *)

(* Steps that only move on in the loop's list. *)
LEMMA LoopTypes ==
  ASSUME ListInv, NEW ops \in Seq(Ops), todo["main"] # <<>>, Continue("main", ops)
  PROVE  /\ ListInv' /\ todo' \in [Threads -> Seq(OpNames \X Nat)]
         /\ todo'["main"] = ops \o Tail(todo["main"])
<1>1. ListInv' /\ todo'["main"] = ops \o Tail(todo["main"])
  BY Continues DEF ListInv, Threads
<1> QED
  BY <1>1, ListTypes DEF ListInv

(* Opening ends, or the loop keeps the link up or gives it up. *)
LEMMA LoopStep ==
  ASSUME Inv, ThreadStart \/ Keepalive \/ Stale
  PROVE  Inv'
<1> USE DEF Inv, link, clocks, network, conn, conf
<1>1. \E n \in {"thread", "keepalive", "stale"} : At("main", n)
  BY DEF ThreadStart, Keepalive, Stale
<1>2. todo["main"] # <<>> /\ proxyMu # "main" /\ phase \notin {"write", "join", "closed"}
  BY <1>1, PollingHeads DEF At, PhaseInv
<1>3. PICK ops \in Seq(Ops) : Continue("main", ops)
  BY Lists DEF ThreadStart, Keepalive, Stale
<1>4. ListInv' /\ todo' \in [Threads -> Seq(OpNames \X Nat)]
  BY <1>2, <1>3, LoopTypes
<1>5. CASE ThreadStart
  <2>1. /\ phase' = "run" /\ on' \in BOOLEAN /\ exited' \in BOOLEAN
        /\ UNCHANGED <<proxy, asleep, job, busy, stop, proxyMu, link, clocks, pcmOut,
                       network, conf, faults>>
    <3>1. on' \in BOOLEAN
      BY <1>5, PeerElAssumption DEF ThreadStart
    <3> QED
      BY <1>5, <3>1 DEF ThreadStart
  <2>2. TypeOK'
    BY <1>4, <2>1 DEF TypeOK
  <2>3. TalkerNeedsLink'
    BY <1>2, <2>1 DEF TalkerNeedsLink
  <2>4. PhaseInv' /\ MutexInv'
    BY <1>2, <2>1 DEF PhaseInv, MutexInv
  <2> QED
    BY <1>4, <2>2, <2>3, <2>4
<1>6. CASE Keepalive
  <2>1. UNCHANGED <<proxy, on, phase, asleep, exited, job, busy, stop, proxyMu, link,
                    clocks, pcmOut, network, conf, faults>>
    BY <1>6 DEF Keepalive
  <2>2. TypeOK'
    BY <1>4, <2>1, SMTT(30) DEF TypeOK
  <2>3. TalkerNeedsLink' /\ PhaseInv' /\ MutexInv'
    BY <1>2, <2>1 DEF TalkerNeedsLink, PhaseInv, MutexInv
  <2> QED
    BY <1>4, <2>2, <2>3
<1>7. CASE Stale
  <2>1. /\ UNCHANGED <<proxy, on, phase, asleep, exited, job, busy, stop, proxyMu, addr,
                       pending, clocks, pcmOut, network, conf, faults>>
        /\ \/ linked' = FALSE /\ explicit' = FALSE /\ talker' = "host"
           \/ UNCHANGED <<linked, explicit, talker>>
    BY <1>7 DEF Stale
  <2>2. linked' \in BOOLEAN /\ explicit' \in BOOLEAN /\ talker' \in {"host", "user"}
    BY <2>1 DEF TypeOK
  <2>3. TypeOK'
    BY <1>4, <2>1, <2>2 DEF TypeOK
  <2>4. TalkerNeedsLink'
    BY <2>1 DEF TalkerNeedsLink
  <2>5. PhaseInv' /\ MutexInv'
    BY <1>2, <2>1 DEF PhaseInv, MutexInv
  <2> QED
    BY <1>4, <2>3, <2>4, <2>5
<1> QED
  BY <1>5, <1>6, <1>7

(* A packet is handled, with proxy.mu held if there is a proxy. *)
LEMMA HandleStep ==
  ASSUME Inv, HandleRtcp \/ HandleRtp
  PROVE  Inv'
<1> USE DEF Inv, link, clocks, network, conn, conf
<1>1. At("main", "callback") /\ todo["main"] # <<>> /\ phase \notin {"write", "join", "closed"}
  BY DEF HandleRtcp, HandleRtp, At, PhaseInv
<1>2. PICK ops \in {<<>>, SendSdes} : Continue("main", ops) /\ (proxy => ops = <<>>)
  <2>1. CASE HandleRtcp
    BY <2>1 DEF HandleRtcp, Reply
  <2>2. CASE HandleRtp
    BY <2>2 DEF HandleRtp
  <2> QED
    BY <2>1, <2>2
<1>3. /\ ListInv' /\ todo' \in [Threads -> Seq(OpNames \X Nat)]
      /\ todo'["main"] = ops \o Tail(todo["main"])
  BY <1>1, <1>2, Lists, LoopTypes
<1>4. /\ UNCHANGED <<proxy, on, phase, asleep, exited, job, busy, stop, proxyMu, addr,
                     sdesAge, loginIn, listIn, ticked, opTime, held, pcmOut, toConf,
                     conn, conf, faults>>
      /\ toUs' \subseteq toUs
      /\ pending' \in BOOLEAN
      /\ rtpAge' \in {0, rtpAge} /\ rtcpAge' \in {0, rtcpAge}
  <2>1. CASE HandleRtcp
    <3>1. pending' \in BOOLEAN
      BY <2>1 DEF HandleRtcp, Reply, TypeOK
    <3> QED
      BY <2>1, <3>1 DEF HandleRtcp
  <2>2. CASE HandleRtp
    BY <2>2 DEF HandleRtp, TypeOK
  <2> QED
    BY <2>1, <2>2
<1>5. \/ UNCHANGED <<linked, talker, explicit>>
      \/ linked' = TRUE /\ talker' \in {"host", "user"} /\ explicit' \in BOOLEAN
  <2>1. CASE HandleRtcp
    <3>1. PICK m \in toUs \ {"RTP"} :
            \/ UNCHANGED <<linked, talker, explicit>>
            \/ /\ ApplyRemoteSdes(IF m = "HOST" THEN "host" ELSE "user", m = "USER")
               /\ linked' = TRUE
      BY <2>1 DEF HandleRtcp
    <3>2. CASE ApplyRemoteSdes(IF m = "HOST" THEN "host" ELSE "user", m = "USER")
               /\ linked' = TRUE
      <4>1. talker' \in {"host", "user"}
        BY <3>2 DEF ApplyRemoteSdes, TypeOK
      <4>2. explicit' \in BOOLEAN
        BY <3>2 DEF ApplyRemoteSdes, TypeOK
      <4> QED
        BY <3>2, <4>1, <4>2
    <3> QED
      BY <3>1, <3>2
  <2>2. CASE HandleRtp
    BY <2>2 DEF HandleRtp, TypeOK
  <2> QED
    BY <2>1, <2>2
<1>6. TypeOK'
  <2>1. linked' \in BOOLEAN /\ talker' \in {"host", "user"} /\ explicit' \in BOOLEAN
    BY <1>5 DEF TypeOK
  <2>2. rtpAge' \in 0..STICKY /\ rtcpAge' \in 0..EL_PEER_STALE_SEC
    BY <1>4, PeerElAssumption DEF TypeOK
  <2>3. toUs' \subseteq {"RTP", "OPEN", "HOST", "USER"}
    BY <1>4 DEF TypeOK
  <2>4. /\ proxy' \in BOOLEAN /\ on' \in BOOLEAN
        /\ phase' \in {"start", "run", "write", "join", "closed"}
        /\ asleep' \in BOOLEAN /\ exited' \in BOOLEAN /\ job' \in Jobs
        /\ busy' \in BOOLEAN /\ stop' \in BOOLEAN
        /\ proxyMu' \in Threads \union {"none"}
        /\ addr' \in Addrs \union {0} /\ pending' \in BOOLEAN
    BY <1>4 DEF TypeOK
  <2>5. /\ sdesAge' \in 0..EL_SDES_INTERVAL /\ loginIn' \in Nat /\ listIn' \in Nat
        /\ ticked' \in BOOLEAN /\ opTime' \in [Threads -> 0..DirTime]
        /\ held' \in 0..MaxHeld
    BY <1>4 DEF TypeOK
  <2>6. /\ px' \in BOOLEAN /\ backIn' \in 0..RECONNECT_SEC /\ cut' \in BOOLEAN
        /\ pcmOut' \in 0..RTP_FRAMES /\ toConf' \subseteq Datagrams
        /\ confAddr' \in Addrs /\ member' \in BOOLEAN /\ opened' \in BOOLEAN
        /\ confAge' \in 0..CONF_TIMEOUT /\ dropped' \in BOOLEAN
        /\ faults' \in 0..MaxFaults
    BY <1>4 DEF TypeOK
  <2> QED
    BY <1>3, <2>1, <2>2, <2>3, <2>4, <2>5, <2>6 DEF TypeOK
<1>7. TalkerNeedsLink'
  BY <1>4, <1>5 DEF TalkerNeedsLink
<1>8. PhaseInv'
  BY <1>1, <1>4 DEF PhaseInv
<1>9. MutexInv'
  <2>1. SUFFICES ASSUME proxyMu = "main"
                 PROVE  todo'["main"] \in Polling
    BY <1>4 DEF MutexInv
  <2>2. proxy /\ todo["main"] \in Polling
    BY <2>1 DEF MutexInv
  <2>3. todo["main"] = <<Op("callback", 0), Op("unlock", 0), Op("reply", 0)>>
    BY <1>1, <2>2 DEF Polling, At, Op
  <2>4. Tail(todo["main"]) = <<Op("unlock", 0), Op("reply", 0)>>
    BY <2>3
  <2>5. todo'["main"] = <<>> \o <<Op("unlock", 0), Op("reply", 0)>>
    BY <1>2, <1>3, <2>2, <2>4
  <2>6. todo'["main"] = <<Op("unlock", 0), Op("reply", 0)>>
    BY <2>5
  <2> QED
    BY <2>6 DEF Polling
<1> QED
  BY <1>3, <1>6, <1>7, <1>8, <1>9

(* proxy.mu is released, and the SDES that waited for it sent. *)
LEMMA ReplyStep ==
  ASSUME Inv, Unlock \/ DeferredReply
  PROVE  Inv'
<1> USE DEF Inv, link, clocks, network, conn, conf
<1>1. At("main", "unlock") \/ At("main", "reply")
  BY DEF Unlock, DeferredReply
<1>2. todo["main"] # <<>> /\ phase \notin {"write", "join", "closed"}
  BY <1>1 DEF At, PhaseInv
<1>3. PICK ops \in Seq(Ops) : Continue("main", ops)
  BY Lists DEF Unlock, DeferredReply
<1>4. ListInv' /\ todo' \in [Threads -> Seq(OpNames \X Nat)]
  BY <1>2, <1>3, LoopTypes
<1>5. /\ UNCHANGED <<proxy, on, phase, asleep, exited, job, busy, stop, addr, linked,
                     talker, explicit, clocks, pcmOut, network, conf, faults>>
      /\ pending' \in BOOLEAN
      /\ proxyMu' # "main"
      /\ proxyMu' \in {"none", proxyMu}
  <2>1. CASE Unlock
    BY <2>1 DEF Unlock, TypeOK
  <2>2. CASE DeferredReply
    <3>1. proxyMu # "main"
      BY <2>2, PollingHeads DEF DeferredReply
    <3> QED
      BY <2>2, <3>1 DEF DeferredReply
  <2> QED
    BY <2>1, <2>2
<1>6. TypeOK'
  BY <1>4, <1>5, SMTT(30) DEF TypeOK
<1>7. TalkerNeedsLink' /\ PhaseInv'
  BY <1>2, <1>5 DEF TalkerNeedsLink, PhaseInv
<1>8. MutexInv'
  BY <1>5 DEF MutexInv
<1> QED
  BY <1>4, <1>6, <1>7, <1>8

(* The idle loop begins something; it holds no mutex. *)
LEMMA IdleHoldsNothing ==
  ASSUME Inv, Idle
  PROVE  proxyMu = "none"
<1>1. proxyMu # "main"
  BY DEF Inv, MutexInv, Polling, Idle
<1> QED
  BY <1>1 DEF Inv, MutexInv, TypeOK, Threads

\* peer_el_tick.
LEMMA TickStep ==
  ASSUME Inv, Tick
  PROVE  Inv'
<1> USE DEF Inv, link, clocks, network, conn, conf
<1>1. /\ Idle /\ ticked' = TRUE
      /\ opTime' = [opTime EXCEPT !["main"] = 0]
      /\ loginIn' \in {LoginInterval, loginIn} /\ listIn' \in {ListInterval, listIn}
      /\ (job' = DueJob /\ asleep' = FALSE) \/ UNCHANGED <<job, asleep>>
      /\ UNCHANGED <<proxy, on, phase, exited, busy, stop, proxyMu, link, sdesAge,
                     rtcpAge, rtpAge, held, pcmOut, toConf, toUs, cut, conf>>
      /\ (Ensured /\ UNCHANGED faults) \/ NotEnsured
  BY DEF Tick, Ensured, NotEnsured
<1>2. PICK ops \in {JobOps(DueJob), <<>>} :
        todo' = [todo EXCEPT !["main"] = ops \o <<Op("keepalive", 0), Op("stale", 0)>>]
  BY DEF Tick
<1>3. ops \o <<Op("keepalive", 0), Op("stale", 0)>> \in Seq(Ops)
  <2>1. ops \in Seq(Ops)
    BY <1>2, Lists, JobLists
  <2> QED
    BY <2>1, Lists, ConcatProperties
<1>4. ListInv' /\ todo' \in [Threads -> Seq(OpNames \X Nat)]
  <2>1. ListInv'
    BY <1>2, <1>3 DEF ListInv
  <2> QED
    BY <2>1, ListTypes DEF ListInv
<1>5. TypeOK'
  <2>1. opTime' \in [Threads -> 0..DirTime]
    <3>1. 0 \in 0..DirTime /\ opTime \in [Threads -> 0..DirTime]
      BY PeerElAssumption DEF TypeOK
    <3> QED
      BY <1>1, <3>1
  <2>2. loginIn' \in Nat /\ listIn' \in Nat
    BY <1>1, PeerElAssumption DEF TypeOK
  <2>3. job' \in Jobs
    BY <1>1 DEF DueJob, Jobs, TypeOK
  <2>4. asleep' \in BOOLEAN /\ ticked' \in BOOLEAN
    BY <1>1 DEF TypeOK
  <2>5. /\ proxy' \in BOOLEAN /\ on' \in BOOLEAN /\ exited' \in BOOLEAN
        /\ phase' \in {"start", "run", "write", "join", "closed"}
        /\ busy' \in BOOLEAN /\ stop' \in BOOLEAN
        /\ proxyMu' \in Threads \union {"none"}
        /\ addr' \in Addrs \union {0} /\ linked' \in BOOLEAN
        /\ talker' \in {"host", "user"} /\ explicit' \in BOOLEAN
        /\ pending' \in BOOLEAN
    BY <1>1 DEF TypeOK, link
  <2>6. /\ sdesAge' \in 0..EL_SDES_INTERVAL /\ rtcpAge' \in 0..EL_PEER_STALE_SEC
        /\ rtpAge' \in 0..STICKY /\ pcmOut' \in 0..RTP_FRAMES
        /\ toConf' \subseteq Datagrams
        /\ toUs' \subseteq {"RTP", "OPEN", "HOST", "USER"}
        /\ confAddr' \in Addrs /\ member' \in BOOLEAN /\ opened' \in BOOLEAN
        /\ confAge' \in 0..CONF_TIMEOUT /\ dropped' \in BOOLEAN
        /\ held' \in 0..MaxHeld /\ cut' \in BOOLEAN
    BY <1>1 DEF TypeOK, conf
  <2>7. px' \in BOOLEAN /\ backIn' \in 0..RECONNECT_SEC /\ faults' \in 0..MaxFaults
    BY <1>1, ConnTypes DEF TypeOK
  <2> QED
    BY <1>4, <2>1, <2>2, <2>3, <2>4, <2>5, <2>6, <2>7, Zenon DEF TypeOK
<1>6. TalkerNeedsLink'
  BY <1>1 DEF TalkerNeedsLink
<1>7. PhaseInv' /\ MutexInv'
  BY <1>1, IdleHoldsNothing DEF PhaseInv, MutexInv, Idle
<1> QED
  BY <1>4, <1>5, <1>6, <1>7

\* peer_el_poll up to its first callback.
LEMMA PollStep ==
  ASSUME Inv, Poll
  PROVE  Inv'
<1> USE DEF Inv, link, clocks, network, conn, conf
<1>1. /\ Idle
      /\ UNCHANGED <<proxy, on, phase, asleep, exited, job, busy, stop, link,
                     clocks, pcmOut, network, conf, faults>>
  BY DEF Poll
<1>2. PICK ops \in Seq(Ops) :
        /\ todo' = [todo EXCEPT !["main"] = ops]
        /\ \/ proxyMu' = "main" /\ proxy /\ ops \in Polling
           \/ proxyMu' = proxyMu
  <2>1. <<Op("callback", 0)>> \in Seq(Ops)
    BY Lists DEF OpNames
  <2>2. /\ <<Op("callback", 0), Op("unlock", 0), Op("reply", 0)>> \in Seq(Ops)
        /\ <<Op("callback", 0), Op("unlock", 0), Op("reply", 0)>> \in Polling
    BY Lists DEF Polling
  <2>3. CASE proxy
    BY <2>2, <2>3 DEF Poll
  <2>4. CASE ~proxy
    BY <2>1, <2>4 DEF Poll
  <2> QED
    BY <2>3, <2>4
<1>3. ListInv' /\ todo'["main"] = ops
  BY <1>2 DEF ListInv, Threads
<1>4. todo' \in [Threads -> Seq(OpNames \X Nat)]
  BY <1>3, ListTypes DEF ListInv
<1>5. TypeOK'
  <2>1. proxyMu' \in Threads \union {"none"}
    BY <1>2 DEF TypeOK, Threads
  <2> QED
    BY <1>1, <1>4, <2>1, SMTT(30) DEF TypeOK
<1>6. TalkerNeedsLink'
  BY <1>1 DEF TalkerNeedsLink
<1>7. PhaseInv' /\ MutexInv'
  BY <1>1, <1>2, <1>3, IdleHoldsNothing DEF PhaseInv, MutexInv, Idle
<1> QED
  BY <1>3, <1>5, <1>6, <1>7

\* peer_el_poll without a connection to the proxy.
LEMMA PollDownStep ==
  ASSUME Inv, PollDown
  PROVE  Inv'
<1> USE DEF Inv, control, link, clocks, network, conf
<1>1. /\ UNCHANGED <<proxy, on, control, proxyMu, link, clocks, pcmOut, toConf, toUs, cut,
                     conf>>
      /\ (Ensured /\ UNCHANGED faults) \/ NotEnsured
  BY DEF PollDown, Ensured, NotEnsured
<1>2. px' \in BOOLEAN /\ backIn' \in 0..RECONNECT_SEC /\ faults' \in 0..MaxFaults
  BY <1>1, ConnTypes DEF TypeOK
<1>3. TypeOK' /\ ListInv'
  BY <1>1, <1>2 DEF TypeOK, ListInv
<1>4. TalkerNeedsLink' /\ PhaseInv' /\ MutexInv'
  BY <1>1 DEF TalkerNeedsLink, PhaseInv, MutexInv
<1> QED
  BY <1>3, <1>4

(* What the bridge calls, and the end of it all. *)
LEMMA BridgeStep ==
  ASSUME Inv, WritePcm \/ WriteLoop \/ FlushPcm
  PROVE  Inv'
<1> USE DEF Inv, control, link, clocks, network, conn, conf
<1>1. /\ UNCHANGED <<proxy, on, todo, asleep, exited, job, busy, stop, proxyMu, link,
                     clocks, toConf, toUs, cut, conf, faults>>
      /\ phase \in {"run", "write"} /\ phase' \in {"run", "write"}
      /\ todo["main"] = <<>>
      /\ MarkDisconnected \/ UNCHANGED <<px, backIn>>
  BY DEF WritePcm, WriteLoop, FlushPcm, RtpSent, Idle, PhaseInv
<1>2. proxyMu # "main"
  BY <1>1 DEF MutexInv, Polling
<1>3. pcmOut' \in 0..RTP_FRAMES
  <2>1. pcmOut \in 0..RTP_FRAMES /\ RTP_FRAMES \in Nat \ {0}
    BY PeerElAssumption DEF TypeOK
  <2>2. CASE WritePcm
    BY <2>1, <2>2 DEF WritePcm
  <2>3. CASE WriteLoop
    BY <2>1, <2>3 DEF WriteLoop, Flushed
  <2>4. CASE FlushPcm
    BY <2>1, <2>4 DEF FlushPcm, Flushed
  <2> QED
    BY <2>2, <2>3, <2>4
<1>4. px' \in BOOLEAN /\ backIn' \in 0..RECONNECT_SEC
  BY <1>1, ConnTypes
<1>5. TypeOK' /\ ListInv'
  BY <1>1, <1>3, <1>4, SMTT(30) DEF TypeOK, ListInv
<1>6. TalkerNeedsLink' /\ PhaseInv' /\ MutexInv'
  BY <1>1, <1>2 DEF TalkerNeedsLink, PhaseInv, MutexInv
<1> QED
  BY <1>5, <1>6

\* peer_el_set_talker_name and peer_el_clear_remote_talker.
LEMMA TalkerStep ==
  ASSUME Inv, SetTalkerName \/ ClearRemoteTalker
  PROVE  Inv'
<1> USE DEF Inv, control, link, clocks, network, conn, conf
<1>1. /\ Idle
      /\ UNCHANGED <<proxy, on, phase, asleep, exited, job, busy, stop, proxyMu, addr,
                     linked, pending, clocks, pcmOut, network, conf, faults>>
      /\ UNCHANGED <<talker, explicit>> \/ (talker' = "host" /\ explicit' = FALSE)
      /\ todo' = todo \/ todo' = [todo EXCEPT !["main"] = SendSdes]
  BY DEF SetTalkerName, ClearRemoteTalker
<1>2. ListInv' /\ todo' \in [Threads -> Seq(OpNames \X Nat)]
  <2>1. ListInv'
    BY <1>1, Lists DEF ListInv
  <2> QED
    BY <2>1, ListTypes DEF ListInv
<1>3. TypeOK'
  <2>1. talker' \in {"host", "user"} /\ explicit' \in BOOLEAN
    BY <1>1 DEF TypeOK
  <2> QED
    BY <1>1, <1>2, <2>1 DEF TypeOK
<1>4. TalkerNeedsLink' /\ PhaseInv' /\ MutexInv'
  BY <1>1, IdleHoldsNothing DEF TalkerNeedsLink, PhaseInv, MutexInv, Idle
<1> QED
  BY <1>2, <1>3, <1>4

\* peer_el_close, in the two steps between which the worker ends.
LEMMA CloseStep ==
  ASSUME Inv, Stop \/ Join
  PROVE  Inv'
<1> USE DEF Inv, link, clocks, network, conn, conf
<1>1. CASE Stop
  <2>1. /\ Idle /\ stop' = on /\ asleep' = FALSE /\ phase' = "join"
        /\ UNCHANGED <<proxy, on, todo, exited, job, busy, proxyMu, link, clocks, pcmOut,
                       network, conf, faults>>
    BY <1>1 DEF Stop
  <2>2. TypeOK' /\ ListInv'
    <3>1. stop' \in BOOLEAN /\ asleep' \in BOOLEAN
      BY <2>1 DEF TypeOK
    <3> QED
      BY <2>1, <3>1 DEF TypeOK, ListInv
  <2>3. TalkerNeedsLink' /\ PhaseInv' /\ MutexInv'
    BY <2>1, IdleHoldsNothing DEF TalkerNeedsLink, PhaseInv, MutexInv, Idle
  <2> QED
    BY <2>2, <2>3
<1>2. CASE Join
  <2>1. /\ phase = "join" /\ phase' = "closed" /\ on' = FALSE /\ busy' = FALSE
        /\ job' = "NONE" /\ linked' = FALSE /\ addr' = 0 /\ px' = FALSE /\ backIn' = 0
        /\ UNCHANGED <<proxy, todo, asleep, exited, stop, proxyMu, talker, explicit,
                       pending, clocks, pcmOut, toConf, toUs, cut, conf, faults>>
    BY <1>2 DEF Join
  <2>2. /\ on' \in BOOLEAN /\ busy' \in BOOLEAN /\ job' \in Jobs /\ linked' \in BOOLEAN
        /\ px' \in BOOLEAN /\ backIn' \in 0..RECONNECT_SEC
    <3>1. 0 \in 0..RECONNECT_SEC
      BY PeerElAssumption
    <3>2. backIn' \in 0..RECONNECT_SEC
      BY <2>1, <3>1, Zenon
    <3>3. job' \in Jobs
      BY <2>1 DEF Jobs
    <3>4. on' \in BOOLEAN /\ busy' \in BOOLEAN /\ linked' \in BOOLEAN /\ px' \in BOOLEAN
      BY <2>1
    <3> QED
      BY <3>2, <3>3, <3>4
  <2>3. TypeOK' /\ ListInv'
    <3>1. /\ addr' \in Addrs \union {0} /\ cut' \in BOOLEAN
          /\ phase' \in {"start", "run", "write", "join", "closed"}
      BY <2>1 DEF TypeOK
    <3>2. /\ proxy' \in BOOLEAN /\ todo' \in [Threads -> Seq(OpNames \X Nat)]
          /\ asleep' \in BOOLEAN /\ exited' \in BOOLEAN /\ stop' \in BOOLEAN
          /\ proxyMu' \in Threads \union {"none"}
          /\ talker' \in {"host", "user"} /\ explicit' \in BOOLEAN
          /\ pending' \in BOOLEAN
      BY <2>1 DEF TypeOK
    <3>3. /\ sdesAge' \in 0..EL_SDES_INTERVAL /\ rtcpAge' \in 0..EL_PEER_STALE_SEC
          /\ rtpAge' \in 0..STICKY /\ loginIn' \in Nat /\ listIn' \in Nat
          /\ ticked' \in BOOLEAN /\ opTime' \in [Threads -> 0..DirTime]
          /\ held' \in 0..MaxHeld
      BY <2>1 DEF TypeOK
    <3>4. /\ pcmOut' \in 0..RTP_FRAMES /\ toConf' \subseteq Datagrams
          /\ toUs' \subseteq {"RTP", "OPEN", "HOST", "USER"}
          /\ confAddr' \in Addrs /\ member' \in BOOLEAN /\ opened' \in BOOLEAN
          /\ confAge' \in 0..CONF_TIMEOUT /\ dropped' \in BOOLEAN
          /\ faults' \in 0..MaxFaults
      BY <2>1 DEF TypeOK
    <3>5. ListInv'
      BY <2>1 DEF ListInv
    <3> QED
      BY <2>2, <3>1, <3>2, <3>3, <3>4, <3>5 DEF TypeOK
  <2>4. TalkerNeedsLink' /\ PhaseInv' /\ MutexInv'
    BY <2>1 DEF TalkerNeedsLink, PhaseInv, MutexInv
  <2> QED
    BY <2>3, <2>4
<1> QED
  BY <1>1, <1>2

-----------------------------------------------------------------------------
(* The conference, faults and time *)

\* The conference, faults and time.
LEMMA OutsideStep ==
  ASSUME Inv,
         \/ \E m \in Datagrams : ConfReceives(m)
         \/ ConfTalks
         \/ Fault
         \/ ProxyLost
         \/ Second
  PROVE  Inv'
<1> USE DEF Inv, control, link, clocks, network, conn, conf
<1>1. UNCHANGED <<proxy, on, phase, todo, asleep, exited, job, busy, stop, proxyMu,
                  addr, linked, talker, explicit, pending, pcmOut>>
  BY DEF ConfReceives, ConfTalks, Fault, ProxyLost, Second
<1>2. /\ toConf' \subseteq toConf
      /\ toUs' \subseteq toUs \union {"RTP", "OPEN", "HOST", "USER"}
      /\ confAddr' \in Addrs /\ member' \in BOOLEAN /\ opened' \in BOOLEAN
      /\ confAge' \in 0..CONF_TIMEOUT /\ dropped' \in BOOLEAN
      /\ faults' \in 0..MaxFaults
  <2>1. /\ confAddr \in Addrs /\ member \in BOOLEAN /\ opened \in BOOLEAN
        /\ confAge \in 0..CONF_TIMEOUT /\ dropped \in BOOLEAN /\ faults \in 0..MaxFaults
        /\ CONF_TIMEOUT \in Nat \ {0} /\ MaxFaults \in Nat
    BY PeerElAssumption DEF TypeOK
  <2>2. CASE \E m \in Datagrams : ConfReceives(m)
    <3>1. PICK m \in Datagrams : ConfReceives(m)
      BY <2>2
    <3>2. toConf' \subseteq toConf /\ toUs' \subseteq toUs \union {"HOST"}
      BY <3>1 DEF ConfReceives, Heard
    <3>3. confAge' \in {0, confAge} /\ UNCHANGED <<confAddr, dropped, faults>>
      BY <3>1 DEF ConfReceives
    <3>4. member' \in {TRUE, member} /\ opened' \in {TRUE, opened}
      BY <3>1 DEF ConfReceives
    <3>5. confAge' \in 0..CONF_TIMEOUT
      BY <2>1, <3>3
    <3>6. member' \in BOOLEAN /\ opened' \in BOOLEAN
      BY <2>1, <3>4
    <3>7. toUs' \subseteq toUs \union {"RTP", "OPEN", "HOST", "USER"}
      BY <3>2
    <3> QED
      BY <2>1, <3>2, <3>3, <3>5, <3>6, <3>7
  <2>3. CASE ConfTalks
    BY <2>1, <2>3 DEF ConfTalks
  <2>4. CASE Fault
    <3>1. faults' \in 0..MaxFaults
      BY <2>1, <2>4 DEF Fault
    <3> QED
      BY <2>1, <2>4, <3>1 DEF Fault
  <2>5. CASE Second
    <3>1. confAge' \in 0..CONF_TIMEOUT
      BY <2>1, <2>5 DEF Second
    <3>2. toUs' \subseteq toUs \union {"HOST"}
      BY <2>5 DEF Second, Heard
    <3> QED
      BY <2>1, <2>5, <3>1, <3>2 DEF Second
  <2>6. CASE ProxyLost
    <3>1. faults' \in 0..MaxFaults
      BY <2>1, <2>6 DEF ProxyLost
    <3> QED
      BY <2>1, <2>6, <3>1 DEF ProxyLost
  <2> QED
    BY <2>2, <2>3, <2>4, <2>5, <2>6
<1>3. /\ sdesAge' \in 0..EL_SDES_INTERVAL /\ rtcpAge' \in 0..EL_PEER_STALE_SEC
      /\ rtpAge' \in 0..STICKY /\ loginIn' \in Nat /\ listIn' \in Nat
      /\ ticked' \in BOOLEAN /\ opTime' \in [Threads -> 0..DirTime]
      /\ held' \in 0..MaxHeld
      /\ px' \in BOOLEAN /\ backIn' \in 0..RECONNECT_SEC /\ cut' \in BOOLEAN
  <2>1. CASE Second
    <3>1. /\ sdesAge' = Older(sdesAge, EL_SDES_INTERVAL)
          /\ rtcpAge' = Older(rtcpAge, EL_PEER_STALE_SEC)
          /\ rtpAge' = Older(rtpAge, STICKY)
          /\ loginIn' = Sooner(loginIn) /\ listIn' = Sooner(listIn)
          /\ ticked' = FALSE
      BY <2>1 DEF Second
    <3>2. \A max \in Nat : \A age \in 0..max : Older(age, max) \in 0..max
      BY DEF Older
    <3>3. \A left \in Nat : Sooner(left) \in Nat
      BY DEF Sooner
    <3>4. opTime' \in [Threads -> 0..DirTime]
      <4>1. ASSUME NEW t \in Threads
            PROVE  (IF Blocked(t) THEN opTime[t] + 1 ELSE opTime[t]) \in 0..DirTime
        <5>1. opTime[t] \in 0..DirTime /\ DirTime \in Nat
          BY PeerElAssumption DEF TypeOK
        <5>2. Blocked(t) => opTime[t] < DirTime
          BY DEF Blocked
        <5> QED
          BY <5>1, <5>2
      <4> QED
        BY <2>1, <4>1 DEF Second
    <3>5. held' \in 0..MaxHeld
      <4>1. held \in 0..MaxHeld /\ MaxHeld \in Nat
        BY PeerElAssumption DEF TypeOK
      <4>2. \/ held' \in {0, held}
            \/ held < MaxHeld /\ held' = held + 1
        BY <2>1 DEF Second, HeldUp
      <4> QED
        BY <4>1, <4>2
    <3>6. px' \in BOOLEAN /\ backIn' \in 0..RECONNECT_SEC /\ cut' \in BOOLEAN
      <4>1. /\ backIn \in 0..RECONNECT_SEC /\ RECONNECT_SEC \in Nat
            /\ backIn' = Sooner(backIn) /\ UNCHANGED <<px, cut>>
        BY <2>1, PeerElAssumption DEF Second, TypeOK
      <4>2. Sooner(backIn) \in 0..RECONNECT_SEC
        BY <4>1 DEF Sooner
      <4> QED
        BY <4>1, <4>2 DEF TypeOK
    <3> QED
      BY <3>1, <3>2, <3>3, <3>4, <3>5, <3>6, PeerElAssumption DEF TypeOK
  <2>2. CASE (\E m \in Datagrams : ConfReceives(m)) \/ ConfTalks \/ Fault
    BY <2>2 DEF ConfReceives, ConfTalks, Fault, TypeOK
  <2>3. CASE ProxyLost
    <3>1. px' \in BOOLEAN /\ backIn' \in 0..RECONNECT_SEC
      BY <2>3, ConnTypes DEF ProxyLost
    <3> QED
      BY <2>3, <3>1 DEF ProxyLost, TypeOK
  <2> QED
    BY <2>1, <2>2, <2>3
<1>4. TypeOK' /\ ListInv'
  <2>1. toConf' \subseteq Datagrams /\ toUs' \subseteq {"RTP", "OPEN", "HOST", "USER"}
    BY <1>2 DEF TypeOK
  <2>2. ListInv'
    BY <1>1 DEF ListInv
  <2>3. /\ confAddr' \in Addrs /\ member' \in BOOLEAN /\ opened' \in BOOLEAN
        /\ confAge' \in 0..CONF_TIMEOUT /\ dropped' \in BOOLEAN
        /\ faults' \in 0..MaxFaults
    BY <1>2
  <2>4. /\ proxy' \in BOOLEAN /\ on' \in BOOLEAN
        /\ phase' \in {"start", "run", "write", "join", "closed"}
        /\ todo' \in [Threads -> Seq(OpNames \X Nat)]
        /\ asleep' \in BOOLEAN /\ exited' \in BOOLEAN /\ job' \in Jobs
        /\ busy' \in BOOLEAN /\ stop' \in BOOLEAN
        /\ proxyMu' \in Threads \union {"none"}
        /\ addr' \in Addrs \union {0} /\ linked' \in BOOLEAN
        /\ talker' \in {"host", "user"} /\ explicit' \in BOOLEAN
        /\ pending' \in BOOLEAN /\ pcmOut' \in 0..RTP_FRAMES
    BY <1>1 DEF TypeOK
  <2> QED
    BY <1>3, <2>1, <2>2, <2>3, <2>4 DEF TypeOK
<1>5. TalkerNeedsLink' /\ PhaseInv' /\ MutexInv'
  BY <1>1 DEF TalkerNeedsLink, PhaseInv, MutexInv
<1> QED
  BY <1>4, <1>5

-----------------------------------------------------------------------------
(* Every step keeps the invariant *)

\* Before peer_el_open.
LEMMA Initially ==
  ASSUME Init
  PROVE  Inv
<1> USE DEF Init
<1>1. ListInv
  <2>1. /\ JobOps("LOGIN_LIST") \o <<Op("thread", 0)>> \in Seq(Ops)
        /\ <<Op("login", 0)>> \o <<Op("thread", 0)>> \in Seq(Ops)
        /\ <<>> \in Seq(Ops)
    <3>1. /\ JobOps("LOGIN_LIST") \in Seq(Ops) /\ <<>> \in Seq(Ops)
          /\ <<Op("login", 0)>> \in Seq(Ops) /\ <<Op("thread", 0)>> \in Seq(Ops)
      BY JobLists, Lists DEF OpNames
    <3> QED
      BY <3>1, ConcatProperties
  <2> QED
    BY <2>1 DEF ListInv, Threads
<1>2. TypeOK
  <2>1. todo \in [Threads -> Seq(OpNames \X Nat)]
    BY <1>1, ListTypes DEF ListInv
  <2>2. /\ sdesAge \in 0..EL_SDES_INTERVAL /\ rtcpAge \in 0..EL_PEER_STALE_SEC
        /\ rtpAge \in 0..STICKY /\ loginIn \in Nat /\ listIn \in Nat
        /\ pcmOut \in 0..RTP_FRAMES /\ confAge \in 0..CONF_TIMEOUT
        /\ faults \in 0..MaxFaults /\ held \in 0..MaxHeld
        /\ backIn \in 0..RECONNECT_SEC
    BY PeerElAssumption
  <2>3. opTime \in [Threads -> 0..DirTime]
    BY PeerElAssumption
  <2>4. confAddr \in Addrs
    BY PeerElAssumption
  <2> QED
    BY <2>1, <2>2, <2>3, <2>4 DEF TypeOK, Jobs
<1>3. PhaseInv /\ TalkerNeedsLink /\ MutexInv
  BY DEF PhaseInv, TalkerNeedsLink, MutexInv
<1> QED
  BY <1>1, <1>2, <1>3 DEF Inv

\* Every step of both threads and the outside keeps the invariant.
LEMMA Inductive ==
  ASSUME Inv, [Next]_vars
  PROVE  Inv'
<1>1. CASE Main
  BY <1>1, DirectoryStep, LoopStep, HandleStep, ReplyStep, BridgeStep, CloseStep
  DEF Main, Threads
<1>2. CASE Tick
  BY <1>2, TickStep
<1>3. CASE Poll \/ PollDown
  BY <1>3, PollStep, PollDownStep
<1>4. CASE Worker
  BY <1>4, DirectoryStep, WorkerStep DEF Worker, Threads
<1>5. CASE Bridge
  BY <1>5, BridgeStep, TalkerStep DEF Bridge
<1>6. CASE Stop
  BY <1>6, CloseStep
<1>7. CASE \/ \E m \in Datagrams : ConfReceives(m)
           \/ ConfTalks \/ Fault \/ ProxyLost \/ Second
  BY <1>7, OutsideStep
<1>8. CASE UNCHANGED vars
  BY <1>8 DEF vars, control, link, clocks, network, conn, conf, Inv, TypeOK, ListInv,
     PhaseInv, TalkerNeedsLink, MutexInv
<1> QED
  BY <1>1, <1>2, <1>3, <1>4, <1>5, <1>6, <1>7, <1>8 DEF Next

(* The state of the EchoLink peer keeps its type: the output buffer of     *)
(* peer_el_write_pcm is never overrun, and everything is sent to an        *)
(* address that the directory gave.                                        *)
THEOREM TypeCorrect == Spec => []TypeOK
<1>1. Init => Inv
  BY Initially
<1>2. Inv /\ [Next]_vars => Inv'
  BY Inductive
<1>3. Inv => TypeOK
  BY DEF Inv
<1> QED
  BY <1>1, <1>2, <1>3, PTL DEF Spec

(* A talker is known only on a link, for every setting of the timers: the  *)
(* bridge never announces a station heard on a link that is gone           *)
(* (peer_el_tick, el_apply_remote_sdes, peer_el_close).                    *)
THEOREM TalkerAlwaysNeedsLink == Spec => []TalkerNeedsLink
<1>1. Init => Inv
  BY Initially
<1>2. Inv /\ [Next]_vars => Inv'
  BY Inductive
<1>3. Inv => TalkerNeedsLink
  BY DEF Inv
<1> QED
  BY <1>1, <1>2, <1>3, PTL DEF Spec

\* The main loop is about to take proxy.mu, which it holds.
WaitsForItself ==
  proxyMu = "main" /\ \E n \in {"emit", "open"} : At("main", n)

(* The main loop never waits for the mutex of the proxy while it holds it: *)
(* what el_proxy_poll's callbacks would send is sent after it is released  *)
(* (sdes_reply_pending); and no one else holds it between two operations.  *)
THEOREM NeverWaitsForItself == Spec => [](~WaitsForItself /\ proxyMu # "worker")
<1>1. Init => Inv
  BY Initially
<1>2. Inv /\ [Next]_vars => Inv'
  BY Inductive
<1>3. Inv => ~WaitsForItself /\ proxyMu # "worker"
  BY PollingHeads DEF Inv, MutexInv, WaitsForItself
<1> QED
  BY <1>1, <1>2, <1>3, PTL DEF Spec

-----------------------------------------------------------------------------
(* The keepalive *)

\* One of the operations in list l has one of these names.
Has(l, names) == \E i \in 1..Len(l) : l[i][1] \in names

\* What follows what in a list of operations.  An operation that is made from
\* the one at the head stays at the head; a directory operation comes after an
\* SDES and is followed by one; nothing blocks after the station list; and the
\* start of the worker is the last thing peer_el_open does.
Shaped(l) ==
  \A i \in 1..Len(l) :
    /\ i > 1 => l[i][1] \notin {"emit", "apply"}
    /\ l[i][1] \in {"list", "apply"} =>
         ListInterval > 0 /\ i < Len(l) /\ l[i + 1][1] = "build"
    /\ l[i][1] = "login" /\ ListInterval > 0 =>
         i < Len(l) /\ l[i + 1][1] \in {"list", "build"}
    /\ i < Len(l) /\ l[i + 1][1] \in {"login", "list"} =>
         l[i][1] \in {"build", "emit", "login"}
    /\ l[i][1] \in {"list", "apply"} =>
         \A j \in 1..Len(l) : j > i => l[j][1] \notin {"login", "list"}
    /\ l[i][1] = "thread" => i = Len(l)

(* A list without its first operation: what may come next. *)
LEMMA ShapedTail ==
  ASSUME NEW l \in Seq(Ops), l # <<>>, Shaped(l)
  PROVE  /\ Tail(l) \in Seq(Ops) /\ Shaped(Tail(l))
         /\ Tail(l) # <<>> => Head(Tail(l))[1] \notin {"emit", "apply"}
         /\ Head(l)[1] \in {"list", "apply"} =>
              ListInterval > 0 /\ Tail(l) # <<>> /\ Head(Tail(l))[1] = "build"
         /\ Head(l)[1] = "login" /\ ListInterval > 0 =>
              Tail(l) # <<>> /\ Head(Tail(l))[1] \in {"list", "build"}
         /\ Tail(l) # <<>> /\ Head(Tail(l))[1] \in {"login", "list"} =>
              Head(l)[1] \in {"build", "emit", "login"}
         /\ Head(l)[1] \in {"list", "apply"} => ~Has(Tail(l), {"login", "list"})
         /\ Head(l)[1] = "thread" => Tail(l) = <<>>
<1> DEFINE r == Tail(l)
<1>1. /\ r \in Seq(Ops) /\ Len(l) \in Nat \ {0} /\ Len(r) = Len(l) - 1
      /\ \A i \in 1..Len(r) : r[i] = l[i + 1]
  BY HeadTailProperties, EmptySeq
<1>2. Head(l) = l[1] /\ (r # <<>> => Head(r) = r[1] /\ Len(r) \in Nat \ {0})
  BY <1>1, EmptySeq
<1>3. Len(r) > 0 => r # <<>>
  BY <1>1, EmptySeq
<1> HIDE DEF r
<1>4. r # <<>> => Head(r) = l[2] /\ Len(l) > 1
  BY <1>1, <1>2
<1>5. Shaped(r)
  <2>1. SUFFICES ASSUME NEW i \in 1..Len(r)
                 PROVE  /\ i > 1 => r[i][1] \notin {"emit", "apply"}
                        /\ r[i][1] \in {"list", "apply"} =>
                             ListInterval > 0 /\ i < Len(r) /\ r[i + 1][1] = "build"
                        /\ r[i][1] = "login" /\ ListInterval > 0 =>
                             i < Len(r) /\ r[i + 1][1] \in {"list", "build"}
                        /\ i < Len(r) /\ r[i + 1][1] \in {"login", "list"} =>
                             r[i][1] \in {"build", "emit", "login"}
                        /\ (r[i][1] = "thread" => i = Len(r))
                        /\ r[i][1] \in {"list", "apply"} =>
                             \A j \in 1..Len(r) : j > i => r[j][1] \notin {"login", "list"}
    BY DEF Shaped
  <2>2. i + 1 \in 1..Len(l) /\ i + 1 > 1 /\ r[i] = l[i + 1]
    BY <1>1
  <2>3. i < Len(r) => i + 1 < Len(l) /\ r[i + 1] = l[(i + 1) + 1]
    BY <1>1
  <2>4. i + 1 < Len(l) => i < Len(r)
    BY <1>1
  <2>5. r[i][1] \in {"list", "apply"} =>
          \A j \in 1..Len(r) : j > i => r[j][1] \notin {"login", "list"}
    <3>1. SUFFICES ASSUME r[i][1] \in {"list", "apply"},
                          NEW j \in 1..Len(r), j > i
                   PROVE  r[j][1] \notin {"login", "list"}
      OBVIOUS
    <3>2. j + 1 \in 1..Len(l) /\ j + 1 > i + 1 /\ r[j] = l[j + 1]
      <4>1. r[j] = l[j + 1]
        BY <1>1, <3>1
      <4>2. Len(l) \in Nat /\ Len(r) = Len(l) - 1 /\ j \in 1..Len(r) /\ j > i
        BY <1>1, <3>1
      <4>3. j + 1 \in 1..Len(l) /\ j + 1 > i + 1
        BY <4>2
      <4> QED
        BY <4>1, <4>3
    <3> QED
      BY <2>2, <3>1, <3>2 DEF Shaped
  <2> QED
    BY <2>2, <2>3, <2>4, <2>5 DEF Shaped
<1>6. 1 \in 1..Len(l) /\ (Len(l) > 1 => 2 \in 1..Len(l)) /\ (1 < Len(l) => r # <<>>)
  BY <1>1, <1>3
<1>7. Head(l)[1] \in {"list", "apply"} => ~Has(r, {"login", "list"})
  <2>1. SUFFICES ASSUME Head(l)[1] \in {"list", "apply"}, NEW i \in 1..Len(r)
                 PROVE  r[i][1] \notin {"login", "list"}
    BY DEF Has
  <2>2. i + 1 \in 1..Len(l) /\ i + 1 > 1 /\ r[i] = l[i + 1]
    BY <1>1
  <2> QED
    BY <1>2, <1>6, <2>1, <2>2 DEF Shaped
<1>8. r # <<>> => Head(r)[1] \notin {"emit", "apply"}
  BY <1>4, <1>6 DEF Shaped
<1>9. /\ Head(l)[1] \in {"list", "apply"} =>
           ListInterval > 0 /\ r # <<>> /\ Head(r)[1] = "build"
      /\ Head(l)[1] = "login" /\ ListInterval > 0 =>
           r # <<>> /\ Head(r)[1] \in {"list", "build"}
      /\ r # <<>> /\ Head(r)[1] \in {"login", "list"} =>
           Head(l)[1] \in {"build", "emit", "login"}
  BY <1>2, <1>4, <1>6 DEF Shaped
<1>10. Head(l)[1] = "thread" => r = <<>>
  BY <1>2, <1>4, <1>6 DEF Shaped
<1> QED
  BY <1>1, <1>5, <1>7, <1>8, <1>9, <1>10 DEF r

(* A list with one more operation in front. *)
LEMMA ShapedFront ==
  ASSUME NEW r \in Seq(Ops), Shaped(r), NEW o \in Ops,
         r # <<>> => Head(r)[1] \notin {"emit", "apply"},
         o[1] \in {"list", "apply"} =>
           ListInterval > 0 /\ r # <<>> /\ Head(r)[1] = "build",
         o[1] = "login" /\ ListInterval > 0 =>
           r # <<>> /\ Head(r)[1] \in {"list", "build"},
         r # <<>> /\ Head(r)[1] \in {"login", "list"} =>
           o[1] \in {"build", "emit", "login"},
         o[1] \in {"list", "apply"} => ~Has(r, {"login", "list"}),
         o[1] = "thread" => r = <<>>
  PROVE  Shaped(<<o>> \o r)
<1> DEFINE l == <<o>> \o r
<1>1. <<o>> \in Seq(Ops) /\ Len(<<o>>) = 1 /\ <<o>>[1] = o
  OBVIOUS
<1>2. /\ l \in Seq(Ops) /\ Len(r) \in Nat /\ Len(l) = Len(r) + 1 /\ l[1] = o
      /\ \A i \in 2..Len(l) : l[i] = r[i - 1]
  BY <1>1, ConcatProperties, LenProperties
<1>3. r # <<>> => Len(r) > 0 /\ Head(r) = r[1] /\ l[2] = r[1]
  BY <1>2, EmptySeq
<1>4. Len(r) > 0 => r # <<>>
  BY EmptySeq
<1> HIDE DEF l
<1>5. SUFFICES ASSUME NEW i \in 1..Len(l)
               PROVE  /\ i > 1 => l[i][1] \notin {"emit", "apply"}
                      /\ l[i][1] \in {"list", "apply"} =>
                           ListInterval > 0 /\ i < Len(l) /\ l[i + 1][1] = "build"
                      /\ l[i][1] = "login" /\ ListInterval > 0 =>
                           i < Len(l) /\ l[i + 1][1] \in {"list", "build"}
                      /\ i < Len(l) /\ l[i + 1][1] \in {"login", "list"} =>
                           l[i][1] \in {"build", "emit", "login"}
                      /\ (l[i][1] = "thread" => i = Len(l))
                      /\ l[i][1] \in {"list", "apply"} =>
                           \A j \in 1..Len(l) : j > i => l[j][1] \notin {"login", "list"}
  BY DEF Shaped, l
<1>6. CASE i = 1
  <2>1. l[i] = o /\ (r # <<>> => i < Len(l) /\ l[i + 1] = Head(r)) /\ (i < Len(l) => r # <<>>)
    BY <1>2, <1>3, <1>4, <1>6
  <2>2. o[1] \in {"list", "apply"} =>
          \A j \in 1..Len(l) : j > i => l[j][1] \notin {"login", "list"}
    <3>1. \A j \in 1..Len(l) : j > i => j - 1 \in 1..Len(r) /\ l[j] = r[j - 1]
      BY <1>2, <1>6
    <3> QED
      BY <3>1 DEF Has
  <2>3. o[1] = "thread" => i = Len(l)
    BY <1>2, <1>6, EmptySeq
  <2> QED
    BY <1>6, <2>1, <2>2, <2>3
<1>7. CASE i # 1
  <2>1. i - 1 \in 1..Len(r) /\ l[i] = r[i - 1]
    BY <1>2, <1>7
  <2>2. i < Len(l) => i - 1 < Len(r) /\ l[i + 1] = r[(i - 1) + 1]
    BY <1>2, <1>7
  <2>3. i - 1 < Len(r) => i < Len(l)
    BY <1>2
  <2>4. i > 1 => l[i][1] \notin {"emit", "apply"}
    <3>1. CASE i = 2
      BY <1>2, <1>3, <1>4, <2>1, <3>1
    <3>2. CASE i # 2
      <4>1. i - 1 > 1
        BY <1>7, <3>2
      <4> QED
        BY <2>1, <4>1 DEF Shaped
    <3> QED
      BY <3>1, <3>2
  <2>5. l[i][1] \in {"list", "apply"} =>
          \A j \in 1..Len(l) : j > i => l[j][1] \notin {"login", "list"}
    <3>1. \A j \in 1..Len(l) : j > i => /\ j - 1 \in 1..Len(r) /\ l[j] = r[j - 1]
                                        /\ j - 1 > i - 1
      BY <1>2, <1>7
    <3> QED
      BY <2>1, <3>1 DEF Shaped
  <2> QED
    BY <2>1, <2>2, <2>3, <2>4, <2>5 DEF Shaped
<1> QED
  BY <1>6, <1>7

(* Which names a list has. *)
LEMMA HasFront ==
  ASSUME NEW r \in Seq(Ops), NEW o \in Ops, NEW names
  PROVE  /\ Has(<<o>> \o r, names) <=> o[1] \in names \/ Has(r, names)
         /\ <<o>> \o r \in Seq(Ops) /\ <<o>> \o r # <<>> /\ Head(<<o>> \o r) = o
<1> DEFINE l == <<o>> \o r
<1>1. <<o>> \in Seq(Ops) /\ Len(<<o>>) = 1 /\ <<o>>[1] = o
  OBVIOUS
<1>2. /\ l \in Seq(Ops) /\ Len(r) \in Nat /\ Len(l) = Len(r) + 1 /\ l[1] = o
      /\ \A i \in 2..Len(l) : l[i] = r[i - 1]
  BY <1>1, ConcatProperties, LenProperties
<1>3. l # <<>> /\ Head(l) = o
  BY <1>2, EmptySeq
<1> HIDE DEF l
<1>4. o[1] \in names => Has(l, names)
  <2>1. 1 \in 1..Len(l)
    BY <1>2
  <2> QED
    BY <1>2, <2>1 DEF Has
<1>5. Has(r, names) => Has(l, names)
  <2>1. \A i \in 1..Len(r) : i + 1 \in 1..Len(l) /\ l[i + 1] = r[i]
    BY <1>2
  <2> QED
    BY <2>1 DEF Has
<1>6. Has(l, names) => o[1] \in names \/ Has(r, names)
  <2>1. \A i \in 1..Len(l) : i # 1 => i - 1 \in 1..Len(r) /\ l[i] = r[i - 1]
    BY <1>2
  <2> QED
    BY <1>2, <2>1 DEF Has
<1> QED
  BY <1>2, <1>3, <1>4, <1>5, <1>6 DEF l

\* A list has an operation at its head or in its rest.
LEMMA HasTail ==
  ASSUME NEW l \in Seq(Ops), l # <<>>, NEW names
  PROVE  Has(l, names) <=> Head(l)[1] \in names \/ Has(Tail(l), names)
<1>1. Head(l) \in Ops /\ Tail(l) \in Seq(Ops)
  BY HeadTailProperties
<1>2. l = <<Head(l)>> \o Tail(l)
  OBVIOUS
<1> QED
  BY <1>1, <1>2, HasFront

ShapeInv == \A t \in Threads : Shaped(todo[t])

\* The worker runs only after peer_el_open, and the loop is in a directory
\* operation only before it knows an address, or without a worker.
ThreadInv ==
  /\ phase = "start" => exited
  /\ exited => todo["worker"] = <<>>
  /\ Has(todo["main"], {"thread"}) => phase = "start"
  /\ phase \notin {"start", "closed"} /\ ~on => FALSE \in ProxyThread \union DirectThread
  /\ Has(todo["main"], {"login", "list"}) \/ At("main", "apply") =>
       IF phase = "start" THEN addr = 0 ELSE ~on

\* What is sent to the conference, or makes us its member, was sent to the
\* address the peer has.
AddrInv ==
  /\ addr # 0 => ListInterval > 0
  /\ \A t \in Threads : At(t, "apply") => Arg(t) = confAddr
  /\ \A t \in Threads : At(t, "emit") => sdesAge = 0
  /\ phase # "closed" =>
       /\ member => addr = confAddr
       /\ <<"SDES", confAddr>> \in toConf => addr = confAddr
       /\ \A t \in Threads : At(t, "emit") /\ Arg(t) = confAddr => addr = confAddr

\* Once peer_el_tick is over, the next SDES is not due.
DueInv ==
  ticked /\ addr # 0 =>
    \/ sdesAge < EL_SDES_INTERVAL
    \/ Has(todo["main"], {"keepalive"})
    \/ \E t \in Threads : At(t, "build")

\* The interval, with the time the loop may be held up after it.
Interval == EL_SDES_INTERVAL + MaxHeld

\* The time between two SDES: that, or a directory operation if the loop may
\* have to do one.
Gap ==
  IF FALSE \in ProxyThread \union DirectThread /\ Interval < DirTime
  THEN DirTime ELSE Interval

\* How late an SDES is after n of them have been lost.
Late(n) == n * Gap

InFlight ==
  \/ <<"SDES", confAddr>> \in toConf
  \/ \E t \in Threads : At(t, "emit") /\ Arg(t) = confAddr
  \/ \E t \in Threads : At(t, "build")

\* The loop is in a directory operation.
InDir == \E n \in {"login", "list", "apply"} : At("main", n)

\* The time since the last SDES.
Waited == IF sdesAge < EL_SDES_INTERVAL THEN sdesAge ELSE EL_SDES_INTERVAL + held

Since == IF InDir THEN opTime["main"] ELSE Waited

\* While the proxy has not been lost.
AgeInv ==
  phase # "closed" /\ member /\ ~cut =>
    \/ confAge <= Late(faults) + Since
    \/ InFlight /\ confAge <= Late(faults + 1)

AliveInv ==
  Inv /\ ShapeInv /\ ThreadInv /\ AddrInv /\ DueInv /\ AgeInv /\ KeptAlive

\* A proxy that has not been lost is connected.
CutInv == phase # "closed" /\ ~cut => ~Down

\* el_proxy_ensure does not take a connection down.
LEMMA EnsuredStep ==
  ASSUME TypeOK, proxy' = proxy, Ensured \/ NotEnsured
  PROVE  Down' => Down
<1>1. px' = proxy => ~Down'
  <2>1. proxy = TRUE \/ proxy = FALSE
    BY DEF TypeOK
  <2>2. proxy' = TRUE /\ px' = TRUE => ~Down'
    BY DEF Down
  <2>3. proxy' = FALSE => ~Down'
    BY DEF Down
  <2> QED
    BY <2>1, <2>2, <2>3, Zenon
<1>2. px' = px => Down' = Down
  BY DEF Down
<1> QED
  BY <1>1, <1>2 DEF Ensured, NotEnsured

\* No step takes it down but the loss itself and the end.
LEMMA CutStep ==
  ASSUME Inv, CutInv, [Next]_vars
  PROVE  CutInv'
<1> USE DEF control, link, clocks, network, conn, conf
<1>0. CutInv /\ PhaseInv /\ TypeOK
  BY DEF Inv
<1>1. UNCHANGED <<proxy, px, cut>> => Down' = Down
  BY DEF Down
<1>2. ASSUME NEW t \in Threads, Directory(t)
      PROVE  CutInv'
  <2>1. phase' = phase /\ cut' = cut /\ proxy' = proxy
    BY <1>2, DirectoryFrame
  <2>2. Down' => Down
    <3>1. CASE Build(t) \/ Apply(t)
      BY <3>1 DEF Build, Apply, Down
    <3>2. CASE Emit(t)
      BY <3>2 DEF Emit, SendUdpRtcp, Down
    <3>3. CASE FirewallOpen(t)
      BY <3>3 DEF FirewallOpen, SendUdpRtcp, Down
    <3>4. CASE Login(t) \/ Found(t) \/ NotFound(t)
      BY <1>0, <2>1, <3>4, EnsuredStep DEF Login, Found, NotFound
    <3> QED
      BY <1>2, <3>1, <3>2, <3>3, <3>4 DEF Directory
  <2> QED
    BY <1>0, <2>1, <2>2 DEF CutInv
<1>3. CASE Tick \/ PollDown
  <2>1. phase' = phase /\ proxy' = proxy /\ cut' = cut
    BY <1>3 DEF Tick, PollDown, Ensured, NotEnsured
  <2>2. Down' => Down
    BY <1>0, <1>3, <2>1, EnsuredStep DEF Tick, PollDown
  <2> QED
    BY <1>0, <2>1, <2>2 DEF CutInv
<1>4. CASE WritePcm \/ WriteLoop \/ FlushPcm
  <2>1. phase # "closed" /\ cut' = cut
    BY <1>4 DEF WritePcm, WriteLoop, FlushPcm, Idle
  <2>2. Down' => Down
    BY <1>4 DEF WritePcm, WriteLoop, FlushPcm, RtpSent, Down, MarkDisconnected
  <2> QED
    BY <1>0, <2>1, <2>2 DEF CutInv
<1>5. CASE Join
  BY <1>5 DEF Join, CutInv
<1>6. CASE ProxyLost
  BY <1>6 DEF ProxyLost, CutInv
<1>7. CASE ThreadStart
  <2>1. phase # "closed" /\ cut' = cut
    BY <1>0, <1>7 DEF ThreadStart, At, PhaseInv
  <2>2. UNCHANGED <<proxy, px>>
    BY <1>7 DEF ThreadStart
  <2> QED
    BY <1>0, <1>1, <2>1, <2>2 DEF CutInv
<1>8. CASE Stop
  <2>1. phase # "closed" /\ UNCHANGED <<proxy, px, cut>>
    BY <1>8 DEF Stop, Idle
  <2> QED
    BY <1>0, <1>1, <2>1 DEF CutInv
<1>9. CASE Keepalive \/ Stale \/ HandleRtcp \/ HandleRtp \/ Unlock \/ DeferredReply
  <2>1. UNCHANGED <<phase, proxy, px, cut>>
    BY <1>9 DEF Keepalive, Stale, HandleRtcp, HandleRtp, Unlock, DeferredReply
  <2> QED
    BY <1>0, <1>1, <2>1 DEF CutInv
<1>10. CASE Poll \/ WorkerTop \/ WorkerDone \/ SetTalkerName \/ ClearRemoteTalker
  <2>1. UNCHANGED <<phase, proxy, px, cut>>
    BY <1>10 DEF Poll, WorkerTop, WorkerDone, SetTalkerName, ClearRemoteTalker
  <2> QED
    BY <1>0, <1>1, <2>1 DEF CutInv
<1>11. CASE (\E d \in Datagrams : ConfReceives(d)) \/ ConfTalks \/ Fault \/ Second
  <2>1. UNCHANGED <<phase, proxy, px, cut>>
    BY <1>11 DEF ConfReceives, ConfTalks, Fault, Second
  <2> QED
    BY <1>0, <1>1, <2>1 DEF CutInv
<1>12. CASE UNCHANGED vars
  <2>1. UNCHANGED <<phase, proxy, px, cut>>
    BY <1>12 DEF vars
  <2> QED
    BY <1>0, <1>1, <2>1 DEF CutInv
<1>13. "main" \in Threads /\ "worker" \in Threads
  BY DEF Threads
<1> QED
  BY <1>2, <1>3, <1>4, <1>5, <1>6, <1>7, <1>8, <1>9, <1>10, <1>11, <1>12, <1>13
     DEF Next, Main, Worker, Bridge

\* The longest time between two keepalives covers both of its causes.
LEMMA GapType ==
  /\ Gap \in Nat /\ Interval \in Nat /\ Interval <= Gap
  /\ FALSE \in ProxyThread \union DirectThread => DirTime <= Gap
<1>1. Interval \in Nat /\ DirTime \in Nat
  BY PeerElAssumption DEF Interval
<1>2. CASE FALSE \in ProxyThread \union DirectThread /\ Interval < DirTime
  <2>1. Gap = DirTime
    BY <1>2, Zenon DEF Gap
  <2> QED
    BY <1>1, <1>2, <2>1
<1>3. CASE ~(FALSE \in ProxyThread \union DirectThread /\ Interval < DirTime)
  <2>1. Gap = Interval
    BY <1>3, Zenon DEF Gap
  <2>2. Interval < DirTime \/ DirTime <= Interval
    BY <1>1
  <2>3. FALSE \in ProxyThread \union DirectThread => DirTime <= Interval
    BY <1>3, <2>2, Zenon
  <2>4. Interval <= Interval
    BY <1>1
  <2> QED
    BY <1>1, <2>1, <2>3, <2>4, Zenon
<1> QED
  BY <1>2, <1>3

\* One more loss is one more gap.
LEMMA LateType ==
  /\ \A n \in Nat : Late(n) \in Nat /\ Late(n + 1) = Late(n) + Gap
  /\ \A m, n \in Nat : m <= n => Late(m) <= Late(n)
<1> DEFINE g == Gap
<1>1. g \in Nat
  BY GapType
<1> HIDE DEF g
<1>2. \A n \in Nat : n * g \in Nat /\ (n + 1) * g = n * g + g
  BY <1>1
<1>3. \A m, n \in Nat : m <= n => m * g <= n * g
  BY <1>1
<1> QED
  BY <1>2, <1>3 DEF Late, g

\* Concatenation, which the provers treat better under a name.
Cat(x, y) == x \o y

(* What it is: the library's facts, and that it associates. *)
LEMMA CatProperties ==
  ASSUME NEW x \in Seq(Ops), NEW y \in Seq(Ops)
  PROVE  /\ Cat(x, y) \in Seq(Ops) /\ Len(Cat(x, y)) = Len(x) + Len(y)
         /\ \A i \in 1..Len(x) : Cat(x, y)[i] = x[i]
         /\ \A i \in 1..Len(y) : Cat(x, y)[i + Len(x)] = y[i]
<1>1. Len(x) \in Nat /\ Len(y) \in Nat
  BY LenProperties
<1> QED
  BY <1>1, ConcatProperties DEF Cat

\* Lists put in front of each other.
LEMMA CatAssociative ==
  ASSUME NEW x \in Seq(Ops), NEW y \in Seq(Ops), NEW z \in Seq(Ops)
  PROVE  Cat(Cat(x, y), z) = Cat(x, Cat(y, z))
<1> DEFINE w == Cat(x, y)
           v == Cat(y, z)
           p == Cat(w, z)
           q == Cat(x, v)
<1>1. /\ Len(x) \in Nat /\ Len(y) \in Nat /\ Len(z) \in Nat
      /\ w \in Seq(Ops) /\ Len(w) = Len(x) + Len(y)
      /\ v \in Seq(Ops) /\ Len(v) = Len(y) + Len(z)
      /\ \A i \in 1..Len(x) : w[i] = x[i]
      /\ \A i \in 1..Len(y) : w[i + Len(x)] = y[i]
      /\ \A i \in 1..Len(y) : v[i] = y[i]
      /\ \A i \in 1..Len(z) : v[i + Len(y)] = z[i]
  BY CatProperties, LenProperties
<1> HIDE DEF w, v
<1>2. /\ p \in Seq(Ops) /\ Len(p) = Len(w) + Len(z)
      /\ q \in Seq(Ops) /\ Len(q) = Len(x) + Len(v)
      /\ \A i \in 1..Len(w) : p[i] = w[i]
      /\ \A i \in 1..Len(z) : p[i + Len(w)] = z[i]
      /\ \A i \in 1..Len(x) : q[i] = x[i]
      /\ \A i \in 1..Len(v) : q[i + Len(x)] = v[i]
  BY <1>1, CatProperties
<1> HIDE DEF p, q
<1>3. Len(p) = Len(q)
  BY <1>1, <1>2
<1>4. ASSUME NEW i \in 1..Len(p)
      PROVE  p[i] = q[i]
  <2>1. CASE i <= Len(x)
    <3>1. i \in 1..Len(x) /\ i \in 1..Len(w)
      BY <1>1, <2>1
    <3> QED
      BY <1>1, <1>2, <3>1
  <2>2. CASE i > Len(x) /\ i <= Len(w)
    <3>1. PICK j \in 1..Len(y) : i = j + Len(x)
      <4>1. i - Len(x) \in 1..Len(y) /\ i = (i - Len(x)) + Len(x)
        BY <1>1, <2>2
      <4> QED
        BY <4>1
    <3>2. i \in 1..Len(w) /\ j \in 1..Len(v)
      BY <1>1, <2>2
    <3>3. p[i] = y[j]
      BY <1>1, <1>2, <3>1, <3>2
    <3>4. q[i] = y[j]
      BY <1>1, <1>2, <3>1, <3>2
    <3> QED
      BY <3>3, <3>4
  <2>3. CASE i > Len(w)
    <3>1. PICK j \in 1..Len(z) : i = j + Len(w)
      <4>1. i - Len(w) \in 1..Len(z) /\ i = (i - Len(w)) + Len(w)
        BY <1>1, <1>2, <2>3
      <4> QED
        BY <4>1
    <3>2. j + Len(y) \in 1..Len(v) /\ i = (j + Len(y)) + Len(x)
      BY <1>1, <3>1
    <3>3. p[i] = z[j]
      BY <1>2, <3>1
    <3>4. q[i] = v[j + Len(y)]
      BY <1>2, <3>2
    <3> QED
      BY <1>1, <3>3, <3>4
  <2> QED
    BY <1>1, <1>2, <2>1, <2>2, <2>3
<1>5. p = q
  BY <1>2, <1>3, <1>4, SeqEqual
<1> QED
  BY <1>5 DEF p, q, w, v

\* The same for the five lists a handshake nests.
LEMMA Nested ==
  ASSUME NEW c \in Seq(Ops), NEW a \in Seq(Ops), NEW b \in Seq(Ops), NEW r \in Seq(Ops)
  PROVE  Cat(Cat(Cat(Cat(c, a), b), c), r) = Cat(c, Cat(a, Cat(b, Cat(c, r))))
<1>1. ASSUME NEW x \in Seq(Ops), NEW y \in Seq(Ops)
      PROVE  Cat(x, y) \in Seq(Ops)
  BY CatProperties
<1>2. /\ Cat(c, a) \in Seq(Ops) /\ Cat(Cat(c, a), b) \in Seq(Ops)
      /\ Cat(c, r) \in Seq(Ops) /\ Cat(b, Cat(c, r)) \in Seq(Ops)
  BY <1>1
<1>3. Cat(Cat(Cat(Cat(c, a), b), c), r) = Cat(Cat(Cat(c, a), b), Cat(c, r))
  BY <1>2, CatAssociative
<1>4. Cat(Cat(Cat(c, a), b), Cat(c, r)) = Cat(Cat(c, a), Cat(b, Cat(c, r)))
  BY <1>2, CatAssociative
<1>5. Cat(Cat(c, a), Cat(b, Cat(c, r))) = Cat(c, Cat(a, Cat(b, Cat(c, r))))
  BY <1>2, CatAssociative
<1> QED
  BY <1>3, <1>4, <1>5

(* The operations of a job in front of what comes after them. *)
LEMMA JobShaped ==
  ASSUME NEW j, NEW r \in Seq(Ops), Shaped(r), ~Has(r, {"login", "list"}),
         r # <<>> => Head(r)[1] \notin {"emit", "apply"}
  PROVE  /\ JobOps(j) \o r \in Seq(Ops) /\ Shaped(JobOps(j) \o r)
         /\ JobOps(j) \o r # <<>> /\ Head(JobOps(j) \o r) = Op("build", 0)
         /\ \A names : Has(r, names) => Has(JobOps(j) \o r, names)
         /\ Has(JobOps(j) \o r, {"thread"}) => Has(r, {"thread"})
<1> DEFINE a == IF j \in {"LOGIN", "LOGIN_LIST"} THEN <<Op("login", 0)>> ELSE <<>>
           b == IF j \in {"LIST", "LOGIN_LIST"} /\ ListInterval > 0
                THEN <<Op("list", 0)>> ELSE <<>>
           c == SendSdes
           r1 == c \o r
           r2 == b \o r1
           r3 == a \o r2
           r4 == c \o r3
<1>1. /\ Op("build", 0) \in Ops /\ Op("list", 0) \in Ops /\ Op("login", 0) \in Ops
      /\ Op("build", 0)[1] = "build" /\ Op("list", 0)[1] = "list"
      /\ Op("login", 0)[1] = "login"
  BY DEF Op, Ops, OpNames
<1>2. a \in Seq(Ops) /\ b \in Seq(Ops) /\ c \in Seq(Ops)
  BY Lists DEF OpNames
<1>3. c = <<Op("build", 0)>>
  BY DEF SendSdes
<1>4. /\ a = <<>> \/ a = <<Op("login", 0)>>
      /\ b = <<>> \/ (b = <<Op("list", 0)>> /\ ListInterval > 0)
  OBVIOUS
<1>5. JobOps(j) = ((c \o a) \o b) \o c
  BY DEF JobOps
<1> HIDE DEF a, b, c, r1, r2, r3, r4
<1>6. /\ r1 \in Seq(Ops) /\ r1 # <<>> /\ Head(r1) = Op("build", 0)
      /\ \A names : Has(r1, names) <=> "build" \in names \/ Has(r, names)
  BY <1>1, <1>3, HasFront DEF r1
<1>7. Shaped(r1)
  BY <1>1, <1>3, ShapedFront DEF r1
<1>8. /\ r2 \in Seq(Ops) /\ r2 # <<>> /\ Head(r2)[1] \in {"list", "build"}
      /\ \A names : Has(r1, names) => Has(r2, names)
      /\ Has(r2, {"thread"}) => Has(r1, {"thread"})
  <2>1. CASE b = <<>>
    <3>1. r2 = r1
      BY <2>1, <1>6, ConcatEmptySeq DEF r2
    <3> QED
      BY <1>1, <1>6, <3>1
  <2>2. CASE b = <<Op("list", 0)>>
    BY <1>1, <1>6, <2>2, HasFront DEF r2
  <2> QED
    BY <1>4, <2>1, <2>2
<1>9. Shaped(r2)
  <2>1. CASE b = <<>>
    <3>1. r2 = r1
      BY <2>1, <1>6, ConcatEmptySeq DEF r2
    <3> QED
      BY <1>7, <3>1
  <2>2. CASE b = <<Op("list", 0)>> /\ ListInterval > 0
    BY <1>1, <1>6, <1>7, <2>2, ShapedFront DEF r2
  <2> QED
    BY <1>4, <2>1, <2>2
<1>10. /\ r3 \in Seq(Ops) /\ r3 # <<>> /\ Head(r3)[1] \in {"login", "list", "build"}
       /\ \A names : Has(r2, names) => Has(r3, names)
       /\ Has(r3, {"thread"}) => Has(r2, {"thread"})
  <2>1. CASE a = <<>>
    <3>1. r3 = r2
      BY <2>1, <1>8, ConcatEmptySeq DEF r3
    <3> QED
      BY <1>8, <3>1
  <2>2. CASE a = <<Op("login", 0)>>
    BY <1>1, <1>8, <2>2, HasFront DEF r3
  <2> QED
    BY <1>4, <2>1, <2>2
<1>11. Shaped(r3)
  <2>1. CASE a = <<>>
    <3>1. r3 = r2
      BY <2>1, <1>8, ConcatEmptySeq DEF r3
    <3> QED
      BY <1>9, <3>1
  <2>2. CASE a = <<Op("login", 0)>>
    BY <1>1, <1>8, <1>9, <2>2, ShapedFront DEF r3
  <2> QED
    BY <1>4, <2>1, <2>2
<1>12. /\ r4 \in Seq(Ops) /\ r4 # <<>> /\ Head(r4) = Op("build", 0)
       /\ \A names : Has(r3, names) => Has(r4, names)
       /\ Has(r4, {"thread"}) => Has(r3, {"thread"})
  BY <1>1, <1>3, <1>10, HasFront DEF r4
<1>13. Shaped(r4)
  BY <1>1, <1>3, <1>10, <1>11, ShapedFront DEF r4
<1>14. JobOps(j) \o r = r4
  <2>1. Cat(Cat(Cat(Cat(c, a), b), c), r) = Cat(c, Cat(a, Cat(b, Cat(c, r))))
    BY <1>2, Nested
  <2> QED
    BY <1>5, <2>1, Zenon DEF Cat, r1, r2, r3, r4
<1>15. /\ \A names : Has(r, names) => Has(r4, names)
       /\ Has(r4, {"thread"}) => Has(r, {"thread"})
  BY <1>6, <1>8, <1>10, <1>12
<1> QED
  BY <1>12, <1>13, <1>14, <1>15

(* A thread goes on: what its next operation is. *)
LEMMA GoesOn ==
  ASSUME ListInv, ShapeInv, NEW t \in Threads, todo[t] # <<>>, NEW ops, Continue(t, ops),
         \/ ops = <<>>
         \/ ops = SendSdes
         \/ ops = SendHandshake /\ Head(todo[t])[1] \notin {"build", "emit", "login"}
         \/ \E a \in Addrs : ops = <<Op("emit", a)>> /\ Head(todo[t])[1] = "build"
         \/ \E a \in Addrs : ops = <<Op("apply", a)>> /\ Head(todo[t])[1] = "list"
  PROVE  /\ ListInv' /\ ShapeInv'
         /\ \A u \in Threads : u # t => todo'[u] = todo[u]
         /\ ops = <<>> => todo'[t] = Tail(todo[t])
         /\ ops # <<>> => todo'[t] # <<>> /\ Head(todo'[t]) = Head(ops)
         /\ \A names : Has(Tail(todo[t]), names) => Has(todo'[t], names)
         /\ \A names : names \intersect {"build", "open", "emit", "apply"} = {} =>
              (Has(todo'[t], names) => Has(Tail(todo[t]), names))
<1> DEFINE l == todo[t]
           r == Tail(l)
<1>1. l \in Seq(Ops) /\ Shaped(l) /\ l # <<>>
  BY DEF ListInv, ShapeInv
<1>2. /\ r \in Seq(Ops) /\ Shaped(r)
      /\ r # <<>> => Head(r)[1] \notin {"emit", "apply"}
      /\ l[1][1] = Head(l)[1]
  BY <1>1, ShapedTail
<1>3. /\ Op("build", 0) \in Ops /\ Op("open", 0) \in Ops
      /\ Op("build", 0)[1] = "build" /\ Op("open", 0)[1] = "open"
      /\ \A a \in Addrs : /\ Op("emit", a) \in Ops /\ Op("emit", a)[1] = "emit"
                          /\ Op("apply", a) \in Ops /\ Op("apply", a)[1] = "apply"
  BY DEF Op, Ops, OpNames
<1>4. todo' = [todo EXCEPT ![t] = ops \o r]
  BY DEF Continue
<1>5. /\ ops \o r \in Seq(Ops) /\ Shaped(ops \o r)
      /\ ops = <<>> => ops \o r = r
      /\ ops # <<>> => ops \o r # <<>> /\ Head(ops \o r) = Head(ops)
      /\ \A names : Has(r, names) => Has(ops \o r, names)
      /\ \A names : names \intersect {"build", "open", "emit", "apply"} = {} =>
           (Has(ops \o r, names) => Has(r, names))
  <2> HIDE DEF r, l
  <2>1. CASE ops = <<>>
    <3>1. ops \o r = r
      BY <1>2, <2>1, ConcatEmptySeq
    <3> QED
      BY <1>2, <2>1, <3>1
  <2>2. CASE ops = SendSdes
    <3>1. ops = <<Op("build", 0)>> /\ ops # <<>> /\ Head(ops) = Op("build", 0)
      BY <2>2 DEF SendSdes
    <3>2. Shaped(ops \o r)
      BY <1>2, <1>3, <3>1, ShapedFront
    <3>3. /\ ops \o r \in Seq(Ops) /\ ops \o r # <<>> /\ Head(ops \o r) = Op("build", 0)
          /\ \A names : Has(ops \o r, names) <=> "build" \in names \/ Has(r, names)
      BY <1>2, <1>3, <3>1, HasFront
    <3> QED
      BY <3>1, <3>2, <3>3
  <2>3. CASE ops = SendHandshake /\ Head(l)[1] \notin {"build", "emit", "login"}
    <3> DEFINE q == <<Op("open", 0)>> \o r
    <3>1. r # <<>> => Head(r)[1] \notin {"login", "list"}
      BY <1>1, <2>3, ShapedTail DEF r
    <3>2. Shaped(q)
      BY <1>2, <1>3, <3>1, ShapedFront
    <3>3. /\ q \in Seq(Ops) /\ q # <<>> /\ Head(q) = Op("open", 0)
          /\ \A names : Has(q, names) <=> "open" \in names \/ Has(r, names)
      BY <1>2, <1>3, HasFront
    <3>4. ops # <<>> /\ Head(ops) = Op("build", 0)
      BY <2>3 DEF SendHandshake
    <3>5. ops \o r = <<Op("build", 0)>> \o q
      <4>1. ops = <<Op("build", 0)>> \o <<Op("open", 0)>>
        BY <2>3 DEF SendHandshake
      <4>2. <<Op("build", 0)>> \in Seq(Ops) /\ <<Op("open", 0)>> \in Seq(Ops)
        BY <1>3
      <4> QED
        BY <1>2, <4>1, <4>2, ConcatAssociative
    <3> HIDE DEF q
    <3>6. Shaped(<<Op("build", 0)>> \o q)
      BY <1>3, <3>2, <3>3, ShapedFront
    <3>7. /\ ops \o r \in Seq(Ops) /\ ops \o r # <<>> /\ Head(ops \o r) = Op("build", 0)
          /\ \A names : Has(ops \o r, names) <=> "build" \in names \/ Has(q, names)
      BY <1>3, <3>3, <3>5, HasFront
    <3>8. Shaped(ops \o r)
      BY <3>5, <3>6
    <3> QED
      BY <3>3, <3>4, <3>7, <3>8
  <2>4. CASE \E a \in Addrs : ops = <<Op("emit", a)>> /\ Head(l)[1] = "build"
    <3>1. PICK a \in Addrs : ops = <<Op("emit", a)>>
      BY <2>4
    <3>2. ops # <<>> /\ Head(ops) = Op("emit", a)
      BY <3>1
    <3>3. Shaped(ops \o r)
      BY <1>2, <1>3, <3>1, ShapedFront
    <3>4. /\ ops \o r \in Seq(Ops) /\ ops \o r # <<>> /\ Head(ops \o r) = Op("emit", a)
          /\ \A names : Has(ops \o r, names) <=> "emit" \in names \/ Has(r, names)
      BY <1>2, <1>3, <3>1, HasFront
    <3> QED
      BY <3>2, <3>3, <3>4
  <2>5. CASE \E a \in Addrs : ops = <<Op("apply", a)>> /\ Head(l)[1] = "list"
    <3>1. PICK a \in Addrs : ops = <<Op("apply", a)>>
      BY <2>5
    <3>2. ops # <<>> /\ Head(ops) = Op("apply", a)
      BY <3>1
    <3>3. ListInterval > 0 /\ r # <<>> /\ Head(r)[1] = "build" /\ ~Has(r, {"login", "list"})
      BY <1>1, <2>5, ShapedTail DEF r
    <3>4. Shaped(ops \o r)
      BY <1>2, <1>3, <3>1, <3>3, ShapedFront
    <3>5. /\ ops \o r \in Seq(Ops) /\ ops \o r # <<>> /\ Head(ops \o r) = Op("apply", a)
          /\ \A names : Has(ops \o r, names) <=> "apply" \in names \/ Has(r, names)
      BY <1>2, <1>3, <3>1, HasFront
    <3> QED
      BY <3>2, <3>4, <3>5
  <2> QED
    BY <2>1, <2>2, <2>3, <2>4, <2>5 DEF l
<1> HIDE DEF r
<1>6. ListInv' /\ todo'[t] = ops \o r /\ \A u \in Threads : u # t => todo'[u] = todo[u]
  BY <1>4, <1>5 DEF ListInv
<1>7. ShapeInv'
  <2>1. \A u \in Threads : u # t => Shaped(todo'[u])
    BY <1>6 DEF ShapeInv
  <2>2. Shaped(todo'[t])
    BY <1>5, <1>6
  <2>3. \A u \in Threads : Shaped(todo'[u])
    BY <2>1, <2>2
  <2> QED
    BY <2>3 DEF ShapeInv, Shaped
<1> QED
  BY <1>5, <1>6, <1>7 DEF r

(* The kinds of operation the invariant looks for in the loop's list. *)
Kinds == {{"login", "list"}, {"keepalive"}, {"thread"}}

(* A thread goes on with what it has to do. *)
LEMMA Passes ==
  ASSUME ListInv, ShapeInv, NEW t \in Threads, NEW n, At(t, n), Continue(t, <<>>)
  PROVE  /\ ListInv' /\ ShapeInv'
         /\ \A u \in Threads : u # t => todo'[u] = todo[u]
         /\ ~At(t, "emit")' /\ ~At(t, "apply")'
         /\ n \in {"list", "apply"} =>
              ListInterval > 0 /\ At(t, "build")' /\ ~Has(todo'[t], {"login", "list"})
         /\ n = "login" /\ ListInterval > 0 => At(t, "list")' \/ At(t, "build")'
         /\ At(t, "login")' \/ At(t, "list")' => n \in {"build", "emit", "login"}
         /\ n = "thread" => todo'[t] = <<>>
         /\ \A kind \in Kinds :
              /\ Has(todo'[t], kind) => Has(todo[t], kind)
              /\ Has(todo[t], kind) /\ n \notin kind => Has(todo'[t], kind)
<1>1. todo[t] \in Seq(Ops) /\ todo[t] # <<>> /\ Shaped(todo[t]) /\ Head(todo[t])[1] = n
  BY DEF ListInv, ShapeInv, At
<1>2. /\ ListInv' /\ ShapeInv' /\ \A u \in Threads : u # t => todo'[u] = todo[u]
      /\ todo'[t] = Tail(todo[t])
  BY <1>1, GoesOn
<1>3. /\ todo'[t] # <<>> => Head(todo'[t])[1] \notin {"emit", "apply"}
      /\ n \in {"list", "apply"} =>
           ListInterval > 0 /\ todo'[t] # <<>> /\ Head(todo'[t])[1] = "build"
      /\ n = "login" /\ ListInterval > 0 =>
           todo'[t] # <<>> /\ Head(todo'[t])[1] \in {"list", "build"}
      /\ todo'[t] # <<>> /\ Head(todo'[t])[1] \in {"login", "list"} =>
           n \in {"build", "emit", "login"}
      /\ n \in {"list", "apply"} => ~Has(todo'[t], {"login", "list"})
      /\ n = "thread" => todo'[t] = <<>>
  BY <1>1, <1>2, ShapedTail
<1>4. \A kind \in Kinds : Has(todo[t], kind) <=> n \in kind \/ Has(todo'[t], kind)
  BY <1>1, <1>2, HasTail
<1>5. /\ ~At(t, "emit")' /\ ~At(t, "apply")'
      /\ n \in {"list", "apply"} => At(t, "build")'
      /\ n = "login" /\ ListInterval > 0 => At(t, "list")' \/ At(t, "build")'
      /\ At(t, "login")' \/ At(t, "list")' => n \in {"build", "emit", "login"}
  BY <1>3 DEF At
<1> QED
  BY <1>2, <1>3, <1>4, <1>5

(* A thread goes on with something new. *)
LEMMA Puts ==
  ASSUME ListInv, ShapeInv, NEW t \in Threads, NEW n, At(t, n),
         NEW ops, NEW o, Continue(t, ops),
         \/ ops = SendSdes /\ o = Op("build", 0)
         \/ ops = SendHandshake /\ o = Op("build", 0) /\ n \notin {"build", "emit", "login"}
         \/ \E a \in Addrs : ops = <<o>> /\ o = Op("emit", a) /\ n = "build"
         \/ \E a \in Addrs : ops = <<o>> /\ o = Op("apply", a) /\ n = "list"
  PROVE  /\ ListInv' /\ ShapeInv'
         /\ \A u \in Threads : u # t => todo'[u] = todo[u]
         /\ Arg(t)' = o[2]
         /\ \A m : At(t, m)' <=> o[1] = m
         /\ \A kind \in Kinds :
              /\ Has(todo'[t], kind) => Has(todo[t], kind)
              /\ Has(todo[t], kind) /\ n \notin kind => Has(todo'[t], kind)
         /\ n \in {"list", "apply"} => ~Has(todo'[t], {"login", "list"})
<1>1. todo[t] \in Seq(Ops) /\ todo[t] # <<>> /\ Shaped(todo[t]) /\ Head(todo[t])[1] = n
  BY DEF ListInv, ShapeInv, At
<1>2. ops # <<>> /\ Head(ops) = o
  BY DEF SendSdes, SendHandshake
<1>3. /\ ListInv' /\ ShapeInv' /\ \A u \in Threads : u # t => todo'[u] = todo[u]
      /\ ops # <<>> => todo'[t] # <<>> /\ Head(todo'[t]) = Head(ops)
      /\ \A names : Has(Tail(todo[t]), names) => Has(todo'[t], names)
      /\ \A names : names \intersect {"build", "open", "emit", "apply"} = {} =>
           (Has(todo'[t], names) => Has(Tail(todo[t]), names))
  BY <1>1, GoesOn
<1>4. \A kind \in Kinds : kind \intersect {"build", "open", "emit", "apply"} = {}
  BY DEF Kinds
<1>5. \A kind \in Kinds : Has(todo[t], kind) <=> n \in kind \/ Has(Tail(todo[t]), kind)
  BY <1>1, HasTail
<1>6. n \in {"list", "apply"} => ~Has(todo'[t], {"login", "list"})
  <2>1. n \in {"list", "apply"} => ~Has(Tail(todo[t]), {"login", "list"})
    BY <1>1, ShapedTail
  <2> QED
    BY <1>3, <1>4, <2>1 DEF Kinds
<1>7. Arg(t)' = o[2] /\ \A m : At(t, m)' <=> o[1] = m
  BY <1>2, <1>3 DEF At, Arg
<1> QED
  BY <1>3, <1>4, <1>5, <1>6, <1>7

\* A thread whose list is untouched is where it was.
LEMMA SameHeads ==
  ASSUME NEW t, todo'[t] = todo[t]
  PROVE  Arg(t)' = Arg(t) /\ \A n : At(t, n)' <=> At(t, n)
  BY DEF At, Arg

\* No SDES waits for longer than that unless the loop is in the directory.
LEMMA WaitedType ==
  ASSUME TypeOK
  PROVE  Waited \in Nat /\ Waited <= Interval
<1>1. /\ sdesAge \in 0..EL_SDES_INTERVAL /\ held \in 0..MaxHeld
      /\ EL_SDES_INTERVAL \in Nat /\ MaxHeld \in Nat
  BY PeerElAssumption DEF TypeOK
<1>2. CASE sdesAge < EL_SDES_INTERVAL
  <2>1. Waited = sdesAge
    BY <1>2 DEF Waited
  <2>2. \A a, b, c \in Nat : a < b => a <= b + c
    OBVIOUS
  <2> QED
    BY <1>1, <1>2, <2>1, <2>2 DEF Interval
<1>3. CASE ~(sdesAge < EL_SDES_INTERVAL)
  <2>1. Waited = EL_SDES_INTERVAL + held
    BY <1>3 DEF Waited
  <2> QED
    BY <1>1, <2>1 DEF Interval
<1> QED
  BY <1>2, <1>3

LEMMA OlderType ==
  ASSUME TypeOK'
  PROVE  Waited' \in Nat /\ Waited' <= Interval
<1> DEFINE W(x, k) == IF x < EL_SDES_INTERVAL THEN x ELSE EL_SDES_INTERVAL + k
<1>1. EL_SDES_INTERVAL \in Nat /\ MaxHeld \in Nat
  BY PeerElAssumption
<1>2. \A x \in 0..EL_SDES_INTERVAL, k \in 0..MaxHeld :
        W(x, k) \in Nat /\ W(x, k) <= EL_SDES_INTERVAL + MaxHeld
  BY <1>1
<1>3. Waited' = W(sdesAge', held') /\ sdesAge' \in 0..EL_SDES_INTERVAL /\ held' \in 0..MaxHeld
  BY DEF Waited, TypeOK
<1> HIDE DEF W
<1> QED
  BY <1>2, <1>3 DEF Interval

(* The conference has not waited for longer than that for a member. *)
LEMMA Overdue ==
  ASSUME AliveInv, phase # "closed", member, ~cut
  PROVE  confAge <= Late(faults + 1) /\ Since \in Nat /\ Since <= Gap
<1>1. /\ faults \in Nat /\ confAge \in Nat
      /\ opTime["main"] \in 0..DirTime /\ DirTime \in Nat
  BY PeerElAssumption DEF AliveInv, Inv, TypeOK, Threads
<1>2. Gap \in Nat /\ Interval \in Nat /\ Interval <= Gap
  BY GapType
<1>3. Since \in Nat /\ Since <= Gap
  <2>1. CASE InDir
    <3>1. Has(todo["main"], {"login", "list"}) \/ At("main", "apply")
      <4>1. At("main", "login") \/ At("main", "list") =>
              Has(todo["main"], {"login", "list"})
        <5>1. todo["main"] \in Seq(Ops)
          BY DEF AliveInv, Inv, ListInv, Threads
        <5> QED
          BY <5>1, HasTail DEF At
      <4> QED
        BY <2>1, <4>1 DEF InDir
    <3>2. addr # 0
      BY PeerElAssumption DEF AliveInv, AddrInv, Inv, TypeOK
    <3>3. FALSE \in ProxyThread \union DirectThread
      BY <3>1, <3>2, Zenon DEF AliveInv, ThreadInv
    <3>4. DirTime <= Gap
      BY <3>3, GapType
    <3>5. Since = opTime["main"]
      BY <2>1 DEF Since
    <3> QED
      BY <1>1, <1>2, <3>4, <3>5
  <2>2. CASE ~InDir
    <3>1. Since = Waited
      BY <2>2 DEF Since
    <3>2. Waited \in Nat /\ Waited <= Interval
      BY WaitedType DEF AliveInv, Inv
    <3> QED
      BY <1>2, <3>1, <3>2
  <2> QED
    BY <2>1, <2>2
<1>4. Late(faults) \in Nat /\ Late(faults + 1) = Late(faults) + Gap
  BY <1>1, LateType
<1>5. confAge <= Late(faults) + Since \/ confAge <= Late(faults + 1)
  BY DEF AliveInv, AgeInv
<1> QED
  BY <1>1, <1>2, <1>3, <1>4, <1>5

(* A step that neither sends, nor is received, nor lets time pass. *)
LEMMA QuietStep ==
  ASSUME AliveInv,
         UNCHANGED <<addr, sdesAge, held, confAddr, member, confAge, dropped, cut>>,
         cut \/ faults' = faults,
         <<"SDES", confAddr>> \in toConf' <=> <<"SDES", confAddr>> \in toConf,
         phase = "closed" => phase' = "closed",
         ticked' => ticked \/ Has(todo'["main"], {"keepalive"}),
         InDir' <=> InDir,
         InDir => opTime'["main"] = opTime["main"],
         \A t \in Threads : At(t, "build") => At(t, "build")',
         \A t \in Threads : At(t, "emit")' <=> At(t, "emit"),
         \A t \in Threads : At(t, "apply")' => At(t, "apply"),
         \A t \in Threads : At(t, "emit") \/ At(t, "apply")' => Arg(t)' = Arg(t),
         \/ Has(todo["main"], {"keepalive"}) => Has(todo'["main"], {"keepalive"})
         \/ addr = 0 \/ sdesAge < EL_SDES_INTERVAL \/ At("main", "build")'
  PROVE  AddrInv' /\ DueInv' /\ AgeInv' /\ KeptAlive'
<1>1. AddrInv'
  BY DEF AliveInv, AddrInv
<1>2. DueInv'
  <2>1. SUFFICES ASSUME ticked', addr # 0
                 PROVE  \/ sdesAge < EL_SDES_INTERVAL
                        \/ Has(todo'["main"], {"keepalive"})
                        \/ \E t \in Threads : At(t, "build")'
    BY Zenon DEF DueInv
  <2>2. CASE ticked
    <3>1. \/ sdesAge < EL_SDES_INTERVAL
          \/ Has(todo["main"], {"keepalive"})
          \/ \E t \in Threads : At(t, "build")
      BY <2>1, <2>2 DEF AliveInv, DueInv
    <3> QED
      BY <2>1, <3>1, Zenon DEF Threads
  <2> QED
    BY <2>1, <2>2
<1>3. Since' = Since
  <2>1. Waited' = Waited
    BY DEF Waited
  <2> QED
    BY <2>1 DEF Since
<1>4. InFlight => InFlight'
  BY DEF InFlight
<1>5. AgeInv'
  <2>1. ~cut => Late(faults)' = Late(faults) /\ Late(faults + 1)' = Late(faults + 1)
    BY DEF Late, Gap, Interval
  <2>2. phase' # "closed" /\ member' /\ ~cut' => phase # "closed" /\ member /\ ~cut
    OBVIOUS
  <2> QED
    BY <1>3, <1>4, <2>1, <2>2, Zenon DEF AliveInv, AgeInv
<1>6. KeptAlive'
  BY DEF AliveInv, KeptAlive
<1> QED
  BY <1>1, <1>2, <1>5, <1>6

-----------------------------------------------------------------------------
(* The keepalive: the steps of a thread *)

\* The loop's operations that look at the clocks or answer the conference.
LEMMA LoopAlive ==
  ASSUME AliveInv,
         ThreadStart \/ Keepalive \/ Stale \/ HandleRtcp \/ HandleRtp \/ Unlock \/ DeferredReply
  PROVE  AliveInv'
<1> USE DEF link, clocks, network, conn, conf
<1>1. Inv'
  BY LoopStep, HandleStep, ReplyStep DEF AliveInv
<1>2. PICK n \in {"thread", "keepalive", "stale", "callback", "unlock", "reply"} : At("main", n)
  BY DEF ThreadStart, Keepalive, Stale, HandleRtcp, HandleRtp, Unlock, DeferredReply
<1>3. PICK ops \in {<<>>, SendSdes, SendHandshake} :
        /\ Continue("main", ops)
        /\ n = "keepalive" /\ addr # 0 /\ sdesAge >= EL_SDES_INTERVAL => ops # <<>>
        /\ n = "thread" => ops = <<>>
  <2>0. SendSdes # <<>> /\ SendHandshake # <<>>
    BY DEF SendSdes, SendHandshake
  <2>1. CASE ThreadStart
    <3>1. n = "thread"
      BY <1>2, <2>1 DEF ThreadStart, At
    <3> QED
      BY <2>1, <3>1 DEF ThreadStart
  <2>2. CASE Keepalive
    <3>1. n = "keepalive"
      BY <1>2, <2>2 DEF Keepalive, At
    <3> QED
      BY <2>0, <2>2, <3>1 DEF Keepalive
  <2>3. CASE Stale \/ HandleRtcp \/ HandleRtp \/ Unlock \/ DeferredReply
    <3>1. n \notin {"keepalive", "thread"}
      BY <1>2, <2>3 DEF Stale, HandleRtcp, HandleRtp, Unlock, DeferredReply, At
    <3>2. \E ops \in {<<>>, SendSdes, SendHandshake} : Continue("main", ops)
      BY <2>3 DEF Stale, HandleRtcp, HandleRtp, Unlock, DeferredReply, Reply
    <3> QED
      BY <3>1, <3>2
  <2> QED
    BY <2>1, <2>2, <2>3
<1>4. /\ UNCHANGED <<addr, sdesAge, held, confAddr, member, confAge, dropped, cut, faults,
                     toConf, ticked, opTime>>
      /\ phase # "closed" /\ phase' # "closed"
      /\ \/ n # "thread" /\ UNCHANGED <<phase, on, exited>>
         \/ /\ n = "thread" /\ phase' = "run" /\ exited' = ~on'
            /\ on' \in ProxyThread \union DirectThread
  <2>1. phase # "closed"
    BY <1>2 DEF AliveInv, Inv, PhaseInv, At
  <2>2. CASE ThreadStart
    <3>1. n = "thread"
      BY <1>2, <2>2 DEF ThreadStart, At
    <3>2. on' \in ProxyThread \union DirectThread
      BY <2>2 DEF ThreadStart
    <3> QED
      BY <2>1, <2>2, <3>1, <3>2 DEF ThreadStart
  <2>3. CASE Keepalive \/ Stale \/ Unlock \/ DeferredReply
    <3>1. n # "thread"
      BY <1>2, <2>3 DEF Keepalive, Stale, Unlock, DeferredReply, At
    <3> QED
      BY <2>1, <2>3, <3>1 DEF Keepalive, Stale, Unlock, DeferredReply
  <2>4. CASE HandleRtcp \/ HandleRtp
    <3>1. n # "thread"
      BY <1>2, <2>4 DEF HandleRtcp, HandleRtp, At
    <3> QED
      BY <2>1, <2>4, <3>1 DEF HandleRtcp, HandleRtp
  <2> QED
    BY <2>2, <2>3, <2>4
<1>5. /\ ShapeInv' /\ todo'["worker"] = todo["worker"]
      /\ \A m \in {"emit", "apply", "login", "list"} : ~At("main", m)'
      /\ ops # <<>> => At("main", "build")'
      /\ n = "thread" => todo'["main"] = <<>>
      /\ \A kind \in Kinds :
           /\ Has(todo'["main"], kind) => Has(todo["main"], kind)
           /\ Has(todo["main"], kind) /\ n \notin kind => Has(todo'["main"], kind)
  <2>0. ListInv /\ ShapeInv /\ "main" \in Threads /\ "worker" \in Threads
    BY DEF AliveInv, Inv, Threads
  <2>1. CASE ops = <<>>
    BY <1>2, <1>3, <2>0, <2>1, Passes
  <2>2. CASE ops # <<>>
    <3>1. /\ ShapeInv' /\ todo'["worker"] = todo["worker"]
          /\ \A m : At("main", m)' <=> Op("build", 0)[1] = m
          /\ \A kind \in Kinds :
               /\ Has(todo'["main"], kind) => Has(todo["main"], kind)
               /\ Has(todo["main"], kind) /\ n \notin kind => Has(todo'["main"], kind)
      BY <1>2, <1>3, <2>0, <2>2, Puts
    <3>2. Op("build", 0)[1] = "build"
      BY DEF Op
    <3> QED
      BY <1>3, <2>2, <3>1, <3>2
  <2> QED
    BY <2>1, <2>2
<1>6. ~InDir /\ ~InDir' /\ \A m \in {"build", "emit", "apply"} : ~At("main", m)
  <2>1. \A m \in {"build", "emit", "apply", "login", "list"} : ~At("main", m)
    BY <1>2 DEF At
  <2> QED
    BY <1>5, <2>1 DEF InDir
<1>7. Arg("worker")' = Arg("worker") /\ \A m : At("worker", m)' <=> At("worker", m)
  BY <1>5, SameHeads
<1>8. \/ Has(todo["main"], {"keepalive"}) => Has(todo'["main"], {"keepalive"})
      \/ addr = 0 \/ sdesAge < EL_SDES_INTERVAL \/ At("main", "build")'
  <2>1. CASE n = "keepalive"
    <3>1. sdesAge < EL_SDES_INTERVAL \/ sdesAge >= EL_SDES_INTERVAL
      BY PeerElAssumption DEF AliveInv, Inv, TypeOK
    <3> QED
      BY <1>3, <1>5, <2>1, <3>1
  <2>2. CASE n # "keepalive"
    BY <1>5, <2>2 DEF Kinds
  <2> QED
    BY <2>1, <2>2
<1>9. AddrInv' /\ DueInv' /\ AgeInv' /\ KeptAlive'
  BY <1>4, <1>5, <1>6, <1>7, <1>8, QuietStep DEF Threads
<1>10. ThreadInv'
  <2>1. CASE n = "thread"
    <3>1. \A kind \in Kinds : ~Has(todo'["main"], kind)
      <4>1. Len(todo'["main"]) = 0
        BY <1>5, <2>1
      <4> QED
        BY <4>1 DEF Has
    <3>2. phase = "start"
      <4>1. Has(todo["main"], {"thread"})
        <5>1. todo["main"] \in Seq(Ops) /\ todo["main"] # <<>> /\ Head(todo["main"])[1] = n
          BY <1>2 DEF AliveInv, Inv, ListInv, Threads, At
        <5> QED
          BY <2>1, <5>1, HasTail
      <4> QED
        BY <4>1 DEF AliveInv, ThreadInv
    <3>3. todo'["worker"] = <<>>
      BY <1>5, <3>2 DEF AliveInv, ThreadInv
    <3>4. ~on' => FALSE \in ProxyThread \union DirectThread
      <4>1. on' \in BOOLEAN
        BY <1>1 DEF Inv, TypeOK
      <4> QED
        BY <1>4, <2>1, <4>1
    <3> QED
      BY <1>4, <1>5, <2>1, <3>1, <3>3, <3>4 DEF ThreadInv, Kinds
  <2>2. CASE n # "thread"
    <3>1. /\ Has(todo'["main"], {"login", "list"}) => Has(todo["main"], {"login", "list"})
          /\ Has(todo'["main"], {"thread"}) => Has(todo["main"], {"thread"})
      BY <1>5 DEF Kinds
    <3>2. phase' = phase /\ on' = on /\ exited' = exited /\ addr' = addr
      BY <1>4, <2>2
    <3>3. ~At("main", "apply")' /\ todo'["worker"] = todo["worker"]
      BY <1>5
    <3>4. ThreadInv
      BY DEF AliveInv
    <3> QED
      BY <3>1, <3>2, <3>3, <3>4, Zenon DEF ThreadInv
  <2> QED
    BY <2>1, <2>2
<1> QED
  BY <1>1, <1>5, <1>9, <1>10 DEF AliveInv

(* The idle loop begins something. *)
LEMMA IdleAlive ==
  ASSUME AliveInv, CutInv, Tick \/ Poll \/ SetTalkerName
  PROVE  AliveInv'
<1> USE DEF link, clocks, network, conn, conf
<1>1. Inv'
  BY TickStep, PollStep, TalkerStep DEF AliveInv
<1>2. /\ phase = "run" /\ todo["main"] = <<>>
      /\ UNCHANGED <<addr, sdesAge, held, confAddr, member, confAge, dropped, cut, toConf,
                     phase, on, exited>>
      /\ cut \/ faults' = faults
      /\ ticked' => ticked \/ Tick
  <2>1. CASE Tick
    <3>1. Down \/ faults' = faults
      BY <2>1 DEF Tick, NotEnsured
    <3>2. cut \/ faults' = faults
      BY <2>1, <3>1 DEF Tick, Idle, CutInv
    <3> QED
      BY <2>1, <3>2 DEF Tick, Idle, Ensured, NotEnsured
  <2>2. CASE Poll \/ SetTalkerName
    BY <2>2 DEF Poll, SetTalkerName, Idle
  <2> QED
    BY <2>1, <2>2
<1>3. PICK l \in Seq(Ops) :
        /\ todo' = [todo EXCEPT !["main"] = l] /\ Shaped(l) /\ l # <<>>
        /\ Head(l)[1] \in {"build", "keepalive", "callback"}
        /\ ~Has(l, {"thread"})
        /\ Has(l, {"login", "list"}) => ~on
        /\ Tick => Has(l, {"keepalive"})
  <2>1. /\ Op("build", 0) \in Ops /\ Op("build", 0)[1] = "build"
        /\ Op("keepalive", 0) \in Ops /\ Op("keepalive", 0)[1] = "keepalive"
        /\ Op("stale", 0) \in Ops /\ Op("stale", 0)[1] = "stale"
        /\ Op("callback", 0) \in Ops /\ Op("callback", 0)[1] = "callback"
        /\ Op("unlock", 0) \in Ops /\ Op("unlock", 0)[1] = "unlock"
        /\ Op("reply", 0) \in Ops /\ Op("reply", 0)[1] = "reply"
    BY DEF Op, Ops, OpNames
  <2>2. CASE Tick
    <3> DEFINE k == <<Op("keepalive", 0), Op("stale", 0)>>
               j == JobOps(DueJob)
    <3>1. k \in Seq(Ops) /\ Len(k) = 2 /\ k[1] = Op("keepalive", 0) /\ k[2] = Op("stale", 0)
      BY <2>1
    <3>2. k # <<>> /\ Head(k) = Op("keepalive", 0)
      OBVIOUS
    <3>3. todo' = [todo EXCEPT !["main"] = (IF ~on /\ DueJob # "NONE" THEN j ELSE <<>>) \o k]
      BY <2>2 DEF Tick
    <3> HIDE DEF k, j
    <3>4. Shaped(k)
      BY <2>1, <3>1 DEF Shaped
    <3>5. \A names : Has(k, names) <=> "keepalive" \in names \/ "stale" \in names
      BY <2>1, <3>1 DEF Has
    <3>6. CASE ~on /\ DueJob # "NONE"
      <4>1. /\ j \o k \in Seq(Ops) /\ Shaped(j \o k) /\ j \o k # <<>>
            /\ Head(j \o k) = Op("build", 0)
            /\ \A names : Has(k, names) => Has(j \o k, names)
            /\ Has(j \o k, {"thread"}) => Has(k, {"thread"})
        BY <2>1, <3>1, <3>2, <3>4, <3>5, JobShaped DEF j
      <4>2. ~Has(j \o k, {"thread"})
        BY <3>5, <4>1
      <4>3. todo' = [todo EXCEPT !["main"] = j \o k]
        BY <3>3, <3>6
      <4> QED
        BY <2>1, <3>5, <3>6, <4>1, <4>2, <4>3
    <3>7. CASE ~(~on /\ DueJob # "NONE")
      <4>1. todo' = [todo EXCEPT !["main"] = k]
        <5>1. <<>> \o k = k
          BY <3>1, ConcatEmptySeq
        <5> QED
          BY <3>3, <3>7, <5>1
      <4> QED
        BY <2>1, <3>1, <3>2, <3>4, <3>5, <4>1
    <3> QED
      BY <3>6, <3>7
  <2>3. CASE Poll
    <3>1. ~Tick
      BY <2>3 DEF Poll, Tick
    <3> DEFINE k == <<Op("callback", 0), Op("unlock", 0), Op("reply", 0)>>
               j == <<Op("callback", 0)>>
    <3>2. /\ k \in Seq(Ops) /\ Len(k) = 3 /\ k[1] = Op("callback", 0) /\ k[2] = Op("unlock", 0)
          /\ k[3] = Op("reply", 0) /\ k # <<>> /\ Head(k) = Op("callback", 0)
          /\ j \in Seq(Ops) /\ Len(j) = 1 /\ j[1] = Op("callback", 0)
          /\ j # <<>> /\ Head(j) = Op("callback", 0)
      BY <2>1
    <3>3. todo' = [todo EXCEPT !["main"] = k] \/ todo' = [todo EXCEPT !["main"] = j]
      BY <2>3 DEF Poll
    <3> HIDE DEF k, j
    <3>4. Shaped(k) /\ ~Has(k, {"thread"}) /\ ~Has(k, {"login", "list"})
      BY <2>1, <3>2 DEF Shaped, Has
    <3>5. Shaped(j) /\ ~Has(j, {"thread"}) /\ ~Has(j, {"login", "list"})
      BY <2>1, <3>2 DEF Shaped, Has
    <3> QED
      BY <2>1, <3>1, <3>2, <3>3, <3>4, <3>5
  <2>4. CASE SetTalkerName
    <3>1. ~Tick
      BY <2>4 DEF SetTalkerName, Tick
    <3>2. /\ SendSdes \in Seq(Ops) /\ Len(SendSdes) = 1 /\ SendSdes[1] = Op("build", 0)
          /\ SendSdes # <<>> /\ Head(SendSdes) = Op("build", 0)
      BY <2>1 DEF SendSdes
    <3>3. Shaped(SendSdes) /\ ~Has(SendSdes, {"thread"}) /\ ~Has(SendSdes, {"login", "list"})
      BY <2>1, <3>2 DEF Shaped, Has
    <3> QED
      BY <2>1, <2>4, <3>1, <3>2, <3>3 DEF SetTalkerName
  <2> QED
    BY <2>2, <2>3, <2>4
<1>4. todo'["main"] = l /\ todo'["worker"] = todo["worker"]
  BY <1>3 DEF AliveInv, Inv, ListInv, Threads
<1>5. ShapeInv'
  <2>1. \A t \in Threads : Shaped(todo'[t])
    BY <1>3, <1>4 DEF AliveInv, ShapeInv, Threads
  <2> QED
    BY <2>1 DEF ShapeInv, Shaped
<1>6. /\ \A m : ~At("main", m)
      /\ \A m \in {"emit", "apply", "login", "list"} : ~At("main", m)'
  BY <1>2, <1>3, <1>4 DEF At
<1>7. Arg("worker")' = Arg("worker") /\ \A m : At("worker", m)' <=> At("worker", m)
  BY <1>4, SameHeads
<1>8. ~Has(todo["main"], {"keepalive"})
  <2>1. Len(todo["main"]) = 0
    BY <1>2
  <2> QED
    BY <2>1 DEF Has
<1>9. ~InDir /\ ~InDir'
  BY <1>6 DEF InDir
<1>10. ticked' => ticked \/ Has(todo'["main"], {"keepalive"})
  BY <1>2, <1>3, <1>4
<1>11. AddrInv' /\ DueInv' /\ AgeInv' /\ KeptAlive'
  BY <1>2, <1>6, <1>7, <1>8, <1>9, <1>10, QuietStep DEF Threads
<1>12. ThreadInv'
  BY <1>2, <1>3, <1>4, <1>6 DEF AliveInv, ThreadInv
<1> QED
  BY <1>1, <1>5, <1>11, <1>12 DEF AliveInv

(* The worker takes a job, sleeps, ends or is done with one. *)
LEMMA WorkerAlive ==
  ASSUME AliveInv, WorkerTop \/ WorkerDone
  PROVE  AliveInv'
<1> USE DEF link, clocks, network, conn, conf
<1>1. Inv'
  BY WorkerStep DEF AliveInv
<1>2. /\ UNCHANGED <<addr, sdesAge, held, confAddr, member, confAge, dropped, cut, faults,
                     toConf, phase, on, ticked>>
      /\ opTime'["main"] = opTime["main"] /\ ~exited
  <2>1. CASE WorkerTop
    BY <2>1 DEF WorkerTop
  <2>2. CASE WorkerDone
    <3>1. opTime'["main"] = opTime["main"]
      BY <2>2 DEF WorkerDone, AliveInv, Inv, TypeOK, Threads
    <3>2. ~exited
      BY <2>2 DEF WorkerDone, At, AliveInv, ThreadInv
    <3> QED
      BY <2>2, <3>1, <3>2 DEF WorkerDone
  <2> QED
    BY <2>1, <2>2
<1>3. /\ ShapeInv' /\ todo'["main"] = todo["main"]
      /\ exited' => todo'["worker"] = <<>>
      /\ \A m \in {"emit", "apply"} : ~At("worker", m) /\ ~At("worker", m)'
      /\ ~At("worker", "build")
  <2>1. CASE WorkerTop
    <3>1. todo["worker"] = <<>>
      BY <2>1 DEF WorkerTop
    <3>2. \/ todo' = todo
          \/ todo' = [todo EXCEPT !["worker"] = JobOps(job) \o <<Op("done", 0)>>] /\ exited' = exited
      BY <2>1 DEF WorkerTop
    <3> DEFINE k == <<Op("done", 0)>>
    <3>3. k \in Seq(Ops) /\ Len(k) = 1 /\ k[1][1] = "done" /\ k # <<>> /\ Head(k)[1] = "done"
      <4>1. Op("done", 0) \in Ops /\ Op("done", 0)[1] = "done"
        BY DEF Op, Ops, OpNames
      <4> QED
        BY <4>1
    <3> HIDE DEF k
    <3>4. Shaped(k) /\ ~Has(k, {"login", "list"})
      BY <3>3 DEF Shaped, Has
    <3>5. /\ Shaped(JobOps(job) \o k) /\ JobOps(job) \o k # <<>>
          /\ Head(JobOps(job) \o k) = Op("build", 0)
      BY <3>3, <3>4, JobShaped
    <3>6. CASE todo' = todo
      <4>1. ShapeInv'
        BY <3>6 DEF AliveInv, ShapeInv, Shaped
      <4> QED
        BY <3>1, <3>6, <4>1 DEF At
    <3>7. CASE todo' = [todo EXCEPT !["worker"] = JobOps(job) \o k] /\ exited' = exited
      <4>1. todo'["main"] = todo["main"] /\ todo'["worker"] = JobOps(job) \o k
        BY <3>7 DEF AliveInv, Inv, ListInv, Threads
      <4>2. ShapeInv'
        <5>1. \A t \in Threads : Shaped(todo'[t])
          BY <3>5, <4>1 DEF AliveInv, ShapeInv, Threads
        <5> QED
          BY <5>1 DEF ShapeInv, Shaped
      <4>3. Head(todo'["worker"])[1] = "build"
        BY <3>5, <4>1 DEF Op
      <4> QED
        BY <1>2, <3>1, <3>7, <4>1, <4>2, <4>3 DEF At
    <3> QED
      BY <3>2, <3>6, <3>7 DEF k
  <2>2. CASE WorkerDone
    <3>0. "worker" \in Threads /\ "main" \in Threads
      BY DEF Threads
    <3>1. /\ ShapeInv' /\ todo'["main"] = todo["main"]
          /\ ~At("worker", "emit")' /\ ~At("worker", "apply")'
      BY <2>2, <3>0, Passes DEF WorkerDone, AliveInv, Inv
    <3>2. ~exited'
      BY <1>2, <2>2 DEF WorkerDone
    <3>3. \A m \in {"emit", "apply", "build"} : ~At("worker", m)
      BY <2>2 DEF WorkerDone, At
    <3> QED
      BY <3>1, <3>2, <3>3
  <2> QED
    BY <2>1, <2>2
<1>4. Arg("main")' = Arg("main") /\ \A m : At("main", m)' <=> At("main", m)
  BY <1>3, SameHeads
<1>5. InDir' <=> InDir
  BY <1>4 DEF InDir
<1>6. AddrInv' /\ DueInv' /\ AgeInv' /\ KeptAlive'
  BY <1>2, <1>3, <1>4, <1>5, QuietStep DEF Threads
<1>7. ThreadInv'
  <2>1. phase # "start"
    BY <1>2 DEF AliveInv, ThreadInv
  <2>2. ThreadInv
    BY DEF AliveInv
  <2>3. At("main", "apply")' <=> At("main", "apply")
    BY <1>4
  <2> QED
    BY <1>2, <1>3, <2>1, <2>2, <2>3, Zenon DEF ThreadInv
<1> QED
  BY <1>1, <1>3, <1>6, <1>7 DEF AliveInv

(* Steps that leave the lists alone. *)
LEMMA CallsAlive ==
  ASSUME AliveInv, CutInv,
         WritePcm \/ WriteLoop \/ FlushPcm \/ ClearRemoteTalker \/ Stop \/ PollDown
  PROVE  AliveInv'
<1> USE DEF control, link, clocks, network, conn, conf
<1>1. Inv'
  BY BridgeStep, TalkerStep, CloseStep, PollDownStep DEF AliveInv
<1>2. /\ UNCHANGED <<todo, addr, sdesAge, held, confAddr, member, confAge, dropped, cut,
                     toConf, ticked, opTime, on, exited>>
      /\ cut \/ faults' = faults
      /\ phase \in {"run", "write"} /\ phase' \in {"run", "write", "join"}
  <2>1. CASE WritePcm \/ WriteLoop \/ FlushPcm \/ ClearRemoteTalker \/ Stop
    BY <2>1 DEF WritePcm, WriteLoop, FlushPcm, ClearRemoteTalker, Stop, Idle
  <2>2. CASE PollDown
    <3>1. phase = "run" /\ cut
      BY <2>2 DEF PollDown, Idle, CutInv
    <3> QED
      BY <2>2, <3>1 DEF PollDown, Ensured, NotEnsured
  <2> QED
    BY <2>1, <2>2
<1>3. \A t \in Threads : Arg(t)' = Arg(t) /\ \A m : At(t, m)' <=> At(t, m)
  BY <1>2, SameHeads
<1>4. InDir' <=> InDir
  BY <1>3 DEF InDir, Threads
<1>5. AddrInv' /\ DueInv' /\ AgeInv' /\ KeptAlive'
  BY <1>2, <1>3, <1>4, QuietStep
<1>6. ShapeInv'
  <2>1. todo' = todo
    BY <1>2
  <2>2. \A t \in Threads : Shaped(todo'[t])
    BY <2>1 DEF AliveInv, ShapeInv
  <2> QED
    BY <2>2 DEF ShapeInv, Shaped
<1>7. ThreadInv'
  <2>1. At("main", "apply")' <=> At("main", "apply")
    BY <1>3 DEF Threads
  <2>2. ThreadInv
    BY DEF AliveInv
  <2>3. phase # "start" /\ phase # "closed" /\ phase' # "start"
    BY <1>2
  <2>4. phase \notin {"start", "closed"}
    BY <2>3
  <2> QED
    BY <1>2, <2>1, <2>2, <2>3, <2>4, Zenon DEF ThreadInv
<1> QED
  BY <1>1, <1>5, <1>6, <1>7 DEF AliveInv

\* The end of the worker.
LEMMA JoinAlive ==
  ASSUME AliveInv, Join
  PROVE  AliveInv'
<1> USE DEF link, clocks, network, conn, conf
<1>1. Inv'
  BY CloseStep DEF AliveInv
<1>2. /\ phase' = "closed" /\ addr' = 0 /\ todo["main"] = <<>> /\ exited
      /\ UNCHANGED <<todo, exited, sdesAge, confAddr, dropped, cut>>
  BY DEF Join, AliveInv, Inv, PhaseInv
<1>3. \A t \in Threads : Arg(t)' = Arg(t) /\ \A m : At(t, m)' <=> At(t, m)
  BY <1>2, SameHeads
<1>4. AddrInv'
  BY <1>2, <1>3 DEF AliveInv, AddrInv
<1>5. DueInv' /\ AgeInv' /\ KeptAlive'
  BY <1>2 DEF AliveInv, DueInv, AgeInv, KeptAlive
<1>6. ShapeInv'
  BY <1>2 DEF AliveInv, ShapeInv, Shaped
<1>7. ThreadInv'
  <2>1. \A names : ~Has(todo'["main"], names)
    <3>1. Len(todo'["main"]) = 0
      BY <1>2
    <3> QED
      BY <3>1 DEF Has
  <2>2. ~At("main", "apply")'
    BY <1>2 DEF At
  <2>3. todo'["worker"] = <<>>
    BY <1>2 DEF AliveInv, ThreadInv
  <2> QED
    BY <1>2, <2>1, <2>2, <2>3 DEF ThreadInv
<1> QED
  BY <1>1, <1>4, <1>5, <1>6, <1>7 DEF AliveInv

(* An operation of thread t that leaves the rest of its list alone: what the *)
(* invariant says of the threads. *)
LEMMA DirectoryThreads ==
  ASSUME AliveInv, NEW t \in Threads, Directory(t), ~Apply(t),
         \A u \in Threads : u # t => todo'[u] = todo[u],
         \A kind \in Kinds : Has(todo'[t], kind) => Has(todo[t], kind),
         At(t, "apply")' => At(t, "list")
  PROVE  ThreadInv'
<1>1. /\ UNCHANGED <<phase, exited, on>>
      /\ \E n \in {"build", "emit", "open", "login", "list", "apply"} : At(t, n)
  BY DirectoryFrame
<1>2. addr' = addr
  BY DEF Directory, Build, Emit, FirewallOpen, Login, Found, NotFound, link
<1>3. todo[t] # <<>> /\ (t = "worker" => ~exited)
  BY <1>1 DEF At, AliveInv, ThreadInv
<1>4. /\ Has(todo'["main"], {"thread"}) => Has(todo["main"], {"thread"})
      /\ Has(todo'["main"], {"login", "list"}) => Has(todo["main"], {"login", "list"})
  BY DEF Kinds, Threads
<1>5. At("main", "apply")' => At("main", "apply") \/ Has(todo["main"], {"login", "list"})
  <2>1. CASE t = "main"
    <3>1. todo["main"] \in Seq(Ops)
      BY DEF AliveInv, Inv, ListInv, Threads
    <3> QED
      BY <2>1, <3>1, HasTail DEF At
  <2>2. CASE t # "main"
    BY <2>2, SameHeads DEF Threads
  <2> QED
    BY <2>1, <2>2
<1>6. exited' => todo'["worker"] = <<>>
  <2>1. CASE t = "worker"
    BY <1>1, <1>3, <2>1
  <2>2. CASE t # "worker"
    BY <1>1, <2>2 DEF AliveInv, ThreadInv, Threads
  <2> QED
    BY <2>1, <2>2
<1>7. ThreadInv
  BY DEF AliveInv
<1> QED
  BY <1>1, <1>2, <1>4, <1>5, <1>6, <1>7, Zenon DEF ThreadInv

\* Building an SDES fixes the address it will go to.
LEMMA BuildAlive ==
  ASSUME AliveInv, NEW t \in Threads, Build(t)
  PROVE  AliveInv'
<1> USE DEF link, clocks, network, conn, conf
<1>0. ListInv /\ ShapeInv /\ AddrInv /\ ThreadInv /\ DueInv /\ AgeInv /\ KeptAlive
  BY DEF AliveInv, Inv
<1>1. Inv'
  BY DirectoryStep DEF AliveInv, Directory
<1>2. /\ At(t, "build")
      /\ UNCHANGED <<phase, addr, held, toConf, confAddr, member, confAge, dropped, cut, faults,
                     ticked, opTime>>
      /\ addr \in Addrs \union {0} /\ 0 \notin Addrs
  BY PeerElAssumption DEF Build, AliveInv, Inv, TypeOK
<1>3. CASE addr # 0
  <2>1. /\ ShapeInv' /\ \A u \in Threads : u # t => todo'[u] = todo[u]
        /\ Arg(t)' = addr
        /\ \A m : At(t, m)' <=> m = "emit"
        /\ \A kind \in Kinds :
              /\ Has(todo'[t], kind) => Has(todo[t], kind)
              /\ Has(todo[t], kind) /\ "build" \notin kind => Has(todo'[t], kind)
    <3>1. Continue(t, <<Op("emit", addr)>>) /\ addr \in Addrs
      BY <1>2, <1>3 DEF Build
    <3>2. Op("emit", addr)[1] = "emit" /\ Op("emit", addr)[2] = addr
      BY DEF Op
    <3> QED
      BY <1>0, <1>2, <3>1, <3>2, Puts
  <2>2. \A u \in Threads : u # t => Arg(u)' = Arg(u) /\ \A m : At(u, m)' <=> At(u, m)
    BY <2>1, SameHeads
  <2>3. sdesAge' = 0
    BY <1>3 DEF Build
  <2>4. AddrInv'
    BY <1>0, <1>2, <2>1, <2>2, <2>3 DEF AddrInv
  <2>5. DueInv'
    <3>1. 0 < EL_SDES_INTERVAL
      BY PeerElAssumption
    <3> QED
      BY <2>3, <3>1 DEF DueInv
  <2>6. AgeInv'
    <3>1. SUFFICES ASSUME phase # "closed", member, ~cut
                   PROVE  InFlight' /\ confAge <= Late(faults + 1)
      BY <1>2, Zenon DEF AgeInv
    <3>2. addr = confAddr
      BY <1>0, <3>1 DEF AddrInv
    <3>3. InFlight'
      BY <1>2, <2>1, <3>2 DEF InFlight
    <3> QED
      BY <3>1, <3>3, Overdue
  <2>7. ThreadInv'
    <3>1. ~Apply(t)
      BY <1>2 DEF Apply, At
    <3> QED
      BY <2>1, <3>1, DirectoryThreads DEF Directory
  <2>8. KeptAlive'
    BY <1>0, <1>2 DEF KeptAlive
  <2> QED
    BY <1>1, <2>1, <2>4, <2>5, <2>6, <2>7, <2>8 DEF AliveInv
<1>4. CASE addr = 0
  <2>1. /\ ShapeInv' /\ \A u \in Threads : u # t => todo'[u] = todo[u]
        /\ ~At(t, "emit")' /\ ~At(t, "apply")'
        /\ \A kind \in Kinds : Has(todo'[t], kind) => Has(todo[t], kind)
    <3>1. Continue(t, <<>>)
      BY <1>4 DEF Build
    <3> QED
      BY <1>0, <1>2, <3>1, Passes
  <2>2. \A u \in Threads : u # t => Arg(u)' = Arg(u) /\ \A m : At(u, m)' <=> At(u, m)
    BY <2>1, SameHeads
  <2>3. sdesAge' = sdesAge
    BY <1>4 DEF Build
  <2>4. AddrInv'
    BY <1>0, <1>2, <2>1, <2>2, <2>3 DEF AddrInv
  <2>5. DueInv'
    BY <1>2, <1>4 DEF DueInv
  <2>6. AgeInv'
    <3>1. confAddr \in Addrs
      BY DEF AliveInv, Inv, TypeOK
    <3>2. phase # "closed" => ~member
      BY <1>0, <1>2, <1>4, <3>1 DEF AddrInv
    <3> QED
      BY <1>2, <3>2 DEF AgeInv
  <2>7. ThreadInv'
    <3>1. ~Apply(t)
      BY <1>2 DEF Apply, At
    <3> QED
      BY <2>1, <3>1, DirectoryThreads DEF Directory
  <2>8. KeptAlive'
    BY <1>0, <1>2 DEF KeptAlive
  <2> QED
    BY <1>1, <2>1, <2>4, <2>5, <2>6, <2>7, <2>8 DEF AliveInv
<1> QED
  BY <1>3, <1>4

\* Sending an SDES: from now on one is in flight.
LEMMA EmitAlive ==
  ASSUME AliveInv, CutInv, NEW t \in Threads, Emit(t)
  PROVE  AliveInv'
<1> USE DEF link, clocks, network, conn, conf
<1>0. ListInv /\ ShapeInv /\ AddrInv /\ ThreadInv /\ DueInv /\ AgeInv /\ KeptAlive
  BY DEF AliveInv, Inv
<1>1. Inv'
  BY DirectoryStep DEF AliveInv, Directory
<1>2. /\ At(t, "emit") /\ Continue(t, <<>>)
      /\ toConf' = toConf \union {<<"SDES", Arg(t)>>} \/ (Down /\ toConf' = toConf)
      /\ UNCHANGED <<phase, addr, sdesAge, held, confAddr, member, confAge, dropped, cut, faults,
                     ticked, opTime>>
  BY DEF Emit, SendUdpRtcp
<1>3. /\ ShapeInv' /\ \A u \in Threads : u # t => todo'[u] = todo[u]
      /\ ~At(t, "emit")' /\ ~At(t, "apply")'
      /\ \A kind \in Kinds : Has(todo'[t], kind) => Has(todo[t], kind)
  BY <1>0, <1>2, Passes
<1>4. \A u \in Threads : u # t => Arg(u)' = Arg(u) /\ \A m : At(u, m)' <=> At(u, m)
  BY <1>3, SameHeads
<1>5. sdesAge = 0
  BY <1>0, <1>2 DEF AddrInv
<1>6. AddrInv'
  <2>1. phase # "closed" /\ <<"SDES", confAddr>> \in toConf' => addr = confAddr
    BY <1>0, <1>2 DEF AddrInv
  <2> QED
    BY <1>0, <1>2, <1>3, <1>4, <2>1 DEF AddrInv
<1>7. DueInv'
  <2>1. 0 < EL_SDES_INTERVAL
    BY PeerElAssumption
  <2> QED
    BY <1>2, <1>5, <2>1 DEF DueInv
<1>8. AgeInv'
  <2>1. SUFFICES ASSUME phase # "closed", member, ~cut
                 PROVE  \/ confAge <= Late(faults) + Since'
                        \/ InFlight' /\ confAge <= Late(faults + 1)
    BY <1>2, Zenon DEF AgeInv
  <2>0. toConf' = toConf \union {<<"SDES", Arg(t)>>}
    BY <1>2, <2>1 DEF CutInv
  <2>2. InFlight => InFlight'
    <3>1. <<"SDES", confAddr>> \in toConf => <<"SDES", confAddr>> \in toConf'
      BY <2>0
    <3>2. Arg(t) = confAddr => <<"SDES", confAddr>> \in toConf'
      BY <2>0
    <3>3. ~At(t, "build")
      BY <1>2 DEF At
    <3> QED
      BY <1>2, <1>4, <3>1, <3>2, <3>3 DEF InFlight
  <2>3. Since \in Nat /\ Since' \in Nat /\ Since <= Since'
    <3>0. Waited = 0
      <4>1. 0 < EL_SDES_INTERVAL
        BY PeerElAssumption
      <4> QED
        BY <1>5, <4>1 DEF Waited
    <3>1. Waited' = Waited /\ opTime["main"] \in Nat /\ opTime'["main"] = opTime["main"]
      BY <1>2, PeerElAssumption DEF Waited, AliveInv, Inv, TypeOK, Threads
    <3>2. CASE t = "main"
      <4>1. ~InDir
        BY <1>2, <3>2 DEF InDir, At
      <4>2. Since = 0 /\ Since' \in {0, opTime["main"]}
        BY <3>0, <3>1, <4>1 DEF Since
      <4> QED
        BY <3>1, <4>2
    <3>3. CASE t # "main"
      <4>1. InDir' <=> InDir
        BY <1>4, <3>3 DEF InDir, Threads
      <4>2. Since' = Since
        BY <3>1, <4>1, Zenon DEF Since
      <4> QED
        BY <2>1, <4>2, Overdue
    <3> QED
      BY <3>2, <3>3
  <2>4. Late(faults) \in Nat /\ confAge \in Nat
    BY LateType DEF AliveInv, Inv, TypeOK
  <2>5. confAge <= Late(faults) + Since \/ (InFlight /\ confAge <= Late(faults + 1))
    BY <1>0, <2>1 DEF AgeInv
  <2>6. confAge <= Late(faults) + Since => confAge <= Late(faults) + Since'
    BY <2>3, <2>4
  <2> QED
    BY <2>2, <2>5, <2>6
<1>9. ThreadInv'
  <2>1. ~Apply(t)
    BY <1>2 DEF Apply, At
  <2> QED
    BY <1>3, <2>1, DirectoryThreads DEF Directory
<1>10. KeptAlive'
  BY <1>0, <1>2 DEF KeptAlive
<1> QED
  BY <1>1, <1>3, <1>6, <1>7, <1>8, <1>9, <1>10 DEF AliveInv

\* The OPEN of a handshake.
LEMMA OpenAlive ==
  ASSUME AliveInv, NEW t \in Threads, FirewallOpen(t)
  PROVE  AliveInv'
<1> USE DEF link, clocks, network, conn, conf
<1>0. ListInv /\ ShapeInv
  BY DEF AliveInv, Inv
<1>1. Inv'
  BY DirectoryStep DEF AliveInv, Directory
<1>2. /\ At(t, "open") /\ Continue(t, <<>>)
      /\ <<"SDES", confAddr>> \in toConf' <=> <<"SDES", confAddr>> \in toConf
      /\ UNCHANGED <<phase, addr, sdesAge, held, confAddr, member, confAge, dropped, cut, faults,
                     ticked, opTime>>
  BY DEF FirewallOpen, SendUdpRtcp
<1>3. /\ ShapeInv' /\ \A u \in Threads : u # t => todo'[u] = todo[u]
      /\ ~At(t, "emit")' /\ ~At(t, "apply")' /\ ~At(t, "login")' /\ ~At(t, "list")'
      /\ \A kind \in Kinds :
           /\ Has(todo'[t], kind) => Has(todo[t], kind)
           /\ Has(todo[t], kind) /\ "open" \notin kind => Has(todo'[t], kind)
  BY <1>0, <1>2, Passes
<1>4. \A u \in Threads : u # t => Arg(u)' = Arg(u) /\ \A m : At(u, m)' <=> At(u, m)
  BY <1>3, SameHeads
<1>5. \A m \in {"build", "emit", "apply", "login", "list"} : ~At(t, m)
  BY <1>2 DEF At
<1>6. InDir' <=> InDir
  BY <1>3, <1>4, <1>5 DEF InDir, Threads
<1>7. Has(todo["main"], {"keepalive"}) => Has(todo'["main"], {"keepalive"})
  BY <1>3 DEF Kinds, Threads
<1>8. AddrInv' /\ DueInv' /\ AgeInv' /\ KeptAlive'
  <2>1. /\ \A u \in Threads : At(u, "build") => At(u, "build")'
        /\ \A u \in Threads : At(u, "emit")' <=> At(u, "emit")
        /\ \A u \in Threads : At(u, "apply")' => At(u, "apply")
        /\ \A u \in Threads : At(u, "emit") \/ At(u, "apply")' => Arg(u)' = Arg(u)
    BY <1>3, <1>4, <1>5
  <2> QED
    BY <1>2, <1>6, <1>7, <2>1, QuietStep
<1>9. ThreadInv'
  <2>1. ~Apply(t)
    BY <1>2 DEF Apply, At
  <2> QED
    BY <1>3, <2>1, DirectoryThreads DEF Directory
<1> QED
  BY <1>1, <1>3, <1>8, <1>9 DEF AliveInv

(* A directory operation ends. *)
LEMMA LookAlive ==
  ASSUME AliveInv, NEW t \in Threads, Login(t) \/ Found(t) \/ NotFound(t)
  PROVE  AliveInv'
<1> USE DEF link, clocks, network, conn, conf
<1>0. ListInv /\ ShapeInv /\ AddrInv /\ ThreadInv /\ DueInv /\ AgeInv /\ KeptAlive
  BY DEF AliveInv, Inv
<1>1. Inv'
  BY DirectoryStep DEF AliveInv, Directory
<1>2. PICK n \in {"login", "list"} : At(t, n)
  BY DEF Login, Found, NotFound
<1>3. /\ UNCHANGED <<phase, addr, sdesAge, held, toConf, confAddr, member, confAge, dropped,
                     cut, ticked, opTime>>
      /\ confAddr \in Addrs /\ faults \in Nat /\ faults' \in Nat /\ faults <= faults'
  <2>1. confAddr \in Addrs /\ faults \in Nat
    BY DEF AliveInv, Inv, TypeOK
  <2>2. CASE Found(t)
    BY <2>1, <2>2 DEF Found, Ensured
  <2>3. CASE Login(t) \/ NotFound(t)
    <3>1. faults' \in {faults, faults + 1}
      BY <2>3 DEF Login, NotFound, NotEnsured
    <3>2. faults' \in Nat /\ faults <= faults'
      BY <2>1, <3>1
    <3> QED
      BY <2>1, <2>3, <3>2 DEF Login, NotFound, Ensured, NotEnsured
  <2> QED
    BY <2>2, <2>3
<1>4. /\ ShapeInv' /\ \A u \in Threads : u # t => todo'[u] = todo[u]
      /\ ~At(t, "emit")'
      /\ At(t, "apply")' => Arg(t)' = confAddr /\ n = "list"
      /\ ListInterval > 0 => At(t, "list")' \/ At(t, "apply")' \/ At(t, "build")'
      /\ \A kind \in Kinds :
           /\ Has(todo'[t], kind) => Has(todo[t], kind)
           /\ Has(todo[t], kind) /\ n \notin kind => Has(todo'[t], kind)
  <2>1. CASE Continue(t, <<>>)
    <3> HIDE DEF link
    <3> QED
      BY <1>0, <1>2, <2>1, Passes
  <2>2. CASE Found(t)
    <3>1. Continue(t, <<Op("apply", confAddr)>>) /\ n = "list"
      BY <1>2, <2>2 DEF Found, At
    <3>2. Op("apply", confAddr)[1] = "apply" /\ Op("apply", confAddr)[2] = confAddr
      BY DEF Op
    <3> QED
      BY <1>0, <1>2, <1>3, <3>1, <3>2, Puts
  <2>3. Login(t) \/ NotFound(t) => Continue(t, <<>>)
    BY DEF Login, NotFound
  <2> QED
    BY <2>1, <2>2, <2>3
<1>5. \A u \in Threads : u # t => Arg(u)' = Arg(u) /\ \A m : At(u, m)' <=> At(u, m)
  BY <1>4, SameHeads
<1>6. ~At(t, "build") /\ ~At(t, "emit") /\ ~At(t, "apply")
  BY <1>2 DEF At
<1>7. AddrInv'
  BY <1>0, <1>3, <1>4, <1>5 DEF AddrInv
<1>8. DueInv'
  <2>1. Has(todo["main"], {"keepalive"}) => Has(todo'["main"], {"keepalive"})
    BY <1>4 DEF Kinds, Threads
  <2>2. \A u \in Threads : At(u, "build") => At(u, "build")'
    BY <1>5, <1>6
  <2> QED
    BY <1>0, <1>3, <2>1, <2>2 DEF DueInv
<1>9. AgeInv'
  <2>1. SUFFICES ASSUME phase # "closed", member, ~cut
                 PROVE  \/ confAge <= Late(faults)' + Since'
                        \/ InFlight' /\ confAge <= Late(faults + 1)'
    BY <1>3, Zenon DEF AgeInv
  <2>2. /\ Late(faults)' \in Nat /\ Late(faults) \in Nat /\ Late(faults) <= Late(faults)'
        /\ Late(faults + 1)' \in Nat /\ Late(faults + 1) \in Nat
        /\ Late(faults + 1) <= Late(faults + 1)'
        /\ confAge \in Nat
    <3>1. Late(faults)' = Late(faults') /\ Late(faults + 1)' = Late(faults' + 1)
      BY DEF Late, Gap, Interval
    <3>2. faults + 1 \in Nat /\ faults' + 1 \in Nat /\ faults + 1 <= faults' + 1
      <4>1. faults \in Nat /\ faults' \in Nat /\ faults <= faults'
        BY <1>3, Zenon
      <4>2. \A j, k \in Nat : j <= k => j + 1 \in Nat /\ k + 1 \in Nat /\ j + 1 <= k + 1
        OBVIOUS
      <4> QED
        BY <4>1, <4>2, Zenon
    <3>3. confAge \in Nat
      BY DEF AliveInv, Inv, TypeOK
    <3> QED
      BY <1>3, <3>1, <3>2, <3>3, LateType
  <2>3. confAge <= Late(faults + 1) /\ Since \in Nat
    BY <2>1, Overdue
  <2>4. confAge <= Late(faults + 1)'
    BY <2>2, <2>3
  <2>5. InFlight => InFlight'
    BY <1>3, <1>5, <1>6 DEF InFlight
  <2>6. CASE InFlight'
    BY <2>4, <2>6
  <2>7. CASE ~InFlight'
    <3>1. confAge <= Late(faults) + Since
      BY <1>0, <2>1, <2>5, <2>7 DEF AgeInv
    <3>2. InDir' <=> InDir
      <4>1. CASE t = "main"
        <5>1. addr # 0
          BY <1>0, <1>3, <2>1, PeerElAssumption DEF AddrInv
        <5>2. ~At(t, "build")'
          BY <2>7 DEF InFlight
        <5>3. InDir'
          BY <1>0, <1>4, <4>1, <5>1, <5>2 DEF InDir, AddrInv
        <5> QED
          BY <1>2, <4>1, <5>3 DEF InDir
      <4>2. CASE t # "main"
        BY <1>5, <4>2 DEF InDir, Threads
      <4> QED
        BY <4>1, <4>2
    <3>3. Since' = Since
      <4>1. Waited' = Waited
        BY <1>3 DEF Waited
      <4> QED
        BY <1>3, <3>2, <4>1, Zenon DEF Since
    <3> QED
      BY <2>2, <2>3, <3>1, <3>3
  <2> QED
    BY <2>6, <2>7
<1>10. ThreadInv'
  <2>1. ~Apply(t)
    BY <1>6 DEF Apply
  <2>2. At(t, "apply")' => At(t, "list")
    BY <1>2, <1>4
  <2> QED
    BY <1>4, <2>1, <2>2, DirectoryThreads DEF Directory
<1>11. KeptAlive'
  BY <1>0, <1>3 DEF KeptAlive
<1> QED
  BY <1>1, <1>4, <1>7, <1>8, <1>9, <1>10, <1>11 DEF AliveInv

\* The directory's answer may move the peer to another address.
LEMMA ApplyAlive ==
  ASSUME AliveInv, NEW t \in Threads, Apply(t)
  PROVE  AliveInv'
<1> USE DEF link, clocks, network, conn, conf
<1>0. ListInv /\ ShapeInv /\ AddrInv /\ ThreadInv /\ DueInv /\ AgeInv /\ KeptAlive
  BY DEF AliveInv, Inv
<1>1. Inv'
  BY DirectoryStep DEF AliveInv, Directory
<1>2. /\ At(t, "apply")
      /\ UNCHANGED <<phase, on, exited, sdesAge, held, toConf, confAddr, member, confAge, dropped,
                     cut, faults, ticked, opTime>>
      /\ Continue(t, <<>>) \/ Continue(t, SendHandshake)
  BY DEF Apply
<1>3. addr' = confAddr
  BY <1>0, <1>2 DEF Apply, AddrInv
<1>4. /\ ShapeInv' /\ \A u \in Threads : u # t => todo'[u] = todo[u]
      /\ ~At(t, "emit")' /\ ~At(t, "apply")' /\ At(t, "build")'
      /\ ~Has(todo'[t], {"login", "list"})
      /\ Has(todo'[t], {"thread"}) => Has(todo[t], {"thread"})
  <2>1. CASE Continue(t, <<>>)
    BY <1>0, <1>2, <2>1, Passes DEF Kinds
  <2>2. CASE Continue(t, SendHandshake)
    <3>1. Op("build", 0)[1] = "build"
      BY DEF Op
    <3>2. /\ ShapeInv' /\ \A u \in Threads : u # t => todo'[u] = todo[u]
          /\ \A m : At(t, m)' <=> Op("build", 0)[1] = m
          /\ \A kind \in Kinds : Has(todo'[t], kind) => Has(todo[t], kind)
          /\ ~Has(todo'[t], {"login", "list"})
      BY <1>0, <1>2, <2>2, Puts
    <3> QED
      BY <3>1, <3>2 DEF Kinds
  <2> QED
    BY <1>2, <2>1, <2>2
<1>5. \A u \in Threads : u # t => Arg(u)' = Arg(u) /\ \A m : At(u, m)' <=> At(u, m)
  BY <1>4, SameHeads
<1>6. AddrInv'
  <2>1. ListInterval > 0
    <3>1. todo[t] \in Seq(Ops) /\ todo[t] # <<>> /\ Shaped(todo[t]) /\ Head(todo[t])[1] = "apply"
      BY <1>0, <1>2 DEF ListInv, ShapeInv, At
    <3> QED
      BY <3>1, ShapedTail
  <2> QED
    BY <1>0, <1>2, <1>3, <1>4, <1>5, <2>1 DEF AddrInv
<1>7. DueInv'
  BY <1>4 DEF DueInv
<1>8. AgeInv'
  <2>1. SUFFICES ASSUME phase # "closed", member, ~cut
                 PROVE  InFlight' /\ confAge <= Late(faults + 1)
    BY <1>2, Zenon DEF AgeInv
  <2> QED
    BY <1>4, <2>1, Overdue DEF InFlight
<1>9. ThreadInv'
  <2>1. CASE t = "main"
    <3>1. todo'["worker"] = todo["worker"]
      BY <1>4, <2>1 DEF Threads
    <3>2. ~At("main", "apply")' /\ ~Has(todo'["main"], {"login", "list"})
      BY <1>4, <2>1
    <3>3. Has(todo'["main"], {"thread"}) => Has(todo["main"], {"thread"})
      BY <1>4, <2>1
    <3> QED
      BY <1>0, <1>2, <3>1, <3>2, <3>3, Zenon DEF ThreadInv
  <2>2. CASE t = "worker"
    <3>1. ~exited
      BY <1>0, <1>2, <2>2 DEF At, ThreadInv
    <3>2. phase # "start"
      BY <1>0, <3>1 DEF ThreadInv
    <3>3. todo'["main"] = todo["main"] /\ (At("main", "apply")' <=> At("main", "apply"))
      BY <1>4, <1>5, <2>2 DEF Threads
    <3> QED
      BY <1>0, <1>2, <3>1, <3>2, <3>3, Zenon DEF ThreadInv
  <2> QED
    BY <2>1, <2>2 DEF Threads
<1>10. KeptAlive'
  BY <1>0, <1>2 DEF KeptAlive
<1> QED
  BY <1>1, <1>4, <1>6, <1>7, <1>8, <1>9, <1>10 DEF AliveInv

-----------------------------------------------------------------------------
(* The keepalive: the conference, faults and time *)

\* The conference waits for longer than the SDES that may be lost take.
Patient == Late(MaxFaults + 1) < CONF_TIMEOUT

\* An SDES that arrives ends the silence.
LEMMA ReceiveAlive ==
  ASSUME AliveInv, NEW d \in Datagrams, ConfReceives(d)
  PROVE  AliveInv'
<1> USE DEF control, link, clocks, network, conn, conf
<1>0. AddrInv /\ AgeInv /\ ThreadInv /\ DueInv /\ KeptAlive /\ ShapeInv
  BY DEF AliveInv
<1>1. Inv'
  BY OutsideStep DEF AliveInv
<1>2. /\ d \in toConf /\ toConf' = toConf \ {d}
      /\ UNCHANGED <<phase, on, exited, todo, addr, sdesAge, ticked, opTime, confAddr,
                     dropped, cut, held, faults>>
  BY DEF ConfReceives
<1>3. \A t \in Threads : Arg(t)' = Arg(t) /\ \A m : At(t, m)' <=> At(t, m)
  BY <1>2, SameHeads
<1>4. \/ UNCHANGED <<member, confAge>> /\ (member => d # <<"SDES", confAddr>>)
      \/ member' = TRUE /\ confAge' = 0 /\ d = <<"SDES", confAddr>>
  <2>1. PICK n \in {"SDES", "OPEN"}, a \in Addrs : d = <<n, a>>
    BY DEF Datagrams
  <2>2. d[1] = n /\ d[2] = a
    BY <2>1
  <2> QED
    BY <2>1, <2>2 DEF ConfReceives
<1>5. AddrInv'
  BY <1>0, <1>2, <1>3, <1>4 DEF AddrInv
<1>6. DueInv'
  BY <1>0, <1>2, <1>3 DEF DueInv
<1>7. Since' = Since
  <2>1. InDir' <=> InDir
    BY <1>3 DEF InDir, Threads
  <2>2. Waited' = Waited
    BY <1>2 DEF Waited
  <2> QED
    BY <1>2, <2>1, <2>2, Zenon DEF Since
<1>8. AgeInv'
  <2>1. SUFFICES ASSUME phase # "closed", member', ~cut
                 PROVE  \/ confAge' <= Late(faults) + Since'
                        \/ InFlight' /\ confAge' <= Late(faults + 1)
    BY <1>2, Zenon DEF AgeInv
  <2>2. CASE UNCHANGED <<member, confAge>> /\ (member => d # <<"SDES", confAddr>>)
    <3>1. member /\ d # <<"SDES", confAddr>>
      BY <2>1, <2>2
    <3>2. InFlight => InFlight'
      BY <1>2, <1>3, <3>1 DEF InFlight
    <3>3. confAge <= Late(faults) + Since \/ (InFlight /\ confAge <= Late(faults + 1))
      BY <1>0, <2>1, <3>1 DEF AgeInv
    <3>4. confAge' = confAge
      BY <2>2
    <3> QED
      BY <1>7, <3>2, <3>3, <3>4, Zenon
  <2>3. CASE confAge' = 0
    <3>1. Late(faults) \in Nat
      BY LateType DEF AliveInv, Inv, TypeOK
    <3>2. Since \in Nat
      <4>1. opTime["main"] \in Nat
        BY PeerElAssumption DEF AliveInv, Inv, TypeOK, Threads
      <4>2. Waited \in Nat
        BY WaitedType DEF AliveInv, Inv
      <4> QED
        BY <4>1, <4>2 DEF Since
    <3>3. 0 <= Late(faults) + Since
      BY <3>1, <3>2
    <3> QED
      BY <1>7, <2>3, <3>3
  <2> QED
    BY <1>4, <2>2, <2>3
<1>9. ShapeInv' /\ KeptAlive'
  BY <1>0, <1>2 DEF ShapeInv, Shaped, KeptAlive
<1>10. ThreadInv'
  <2>1. At("main", "apply")' <=> At("main", "apply")
    BY <1>3 DEF Threads
  <2> QED
    BY <1>0, <1>2, <2>1, Zenon DEF ThreadInv
<1> QED
  BY <1>1, <1>5, <1>6, <1>8, <1>9, <1>10 DEF AliveInv

\* Audio of the conference.
LEMMA TalkAlive ==
  ASSUME AliveInv, ConfTalks
  PROVE  AliveInv'
<1> USE DEF control, link, clocks, network, conn, conf
<1>1. Inv'
  BY OutsideStep DEF AliveInv
<1>2. UNCHANGED <<phase, on, exited, todo, addr, sdesAge, held, ticked, opTime, toConf,
                  confAddr, member, confAge, dropped, cut, faults>>
  BY DEF ConfTalks
<1>3. \A t \in Threads : Arg(t)' = Arg(t) /\ \A m : At(t, m)' <=> At(t, m)
  BY <1>2, SameHeads
<1>4. InDir' <=> InDir
  BY <1>3 DEF InDir, Threads
<1>5. AddrInv' /\ DueInv' /\ AgeInv' /\ KeptAlive'
  BY <1>2, <1>3, <1>4, QuietStep
<1>6. ShapeInv'
  BY <1>2 DEF AliveInv, ShapeInv, Shaped
<1>7. ThreadInv'
  <2>1. At("main", "apply")' <=> At("main", "apply")
    BY <1>3 DEF Threads
  <2>2. ThreadInv
    BY DEF AliveInv
  <2> QED
    BY <1>2, <2>1, <2>2, Zenon DEF ThreadInv
<1> QED
  BY <1>1, <1>5, <1>6, <1>7 DEF AliveInv

(* A thread that waits has nothing in its hands. *)
LEMMA WaitingHeads ==
  /\ Idle \/ Blocked("main") =>
       \A n : At("main", n) => n \in {"login", "list"}
  /\ WorkerWaits => \A n : At("worker", n) => n \in {"login", "list"}
  BY DEF Idle, Blocked, WorkerWaits, At

\* A lost datagram, or a restart, allows for one more gap.
LEMMA FaultAlive ==
  ASSUME AliveInv, Fault
  PROVE  AliveInv'
<1> USE DEF control, link, clocks, network, conn, conf
<1>0. AddrInv /\ AgeInv /\ ThreadInv /\ DueInv /\ KeptAlive /\ ShapeInv
  BY DEF AliveInv
<1>1. Inv'
  BY OutsideStep DEF AliveInv
<1>2. /\ faults' = faults + 1 /\ toConf' \subseteq toConf
      /\ UNCHANGED <<phase, on, exited, todo, addr, sdesAge, held, ticked, opTime, confAge,
                     dropped, cut>>
      /\ \/ UNCHANGED <<confAddr, member>>
         \/ Idle /\ WorkerWaits /\ toConf = {} /\ member' = FALSE
  <2>1. \/ UNCHANGED <<confAddr, member>>
        \/ Idle /\ WorkerWaits /\ toConf = {} /\ member' = FALSE
    BY DEF Fault
  <2> QED
    BY <2>1 DEF Fault
<1>3. \A t \in Threads : Arg(t)' = Arg(t) /\ \A m : At(t, m)' <=> At(t, m)
  BY <1>2, SameHeads
<1>4. AddrInv'
  <2>1. CASE UNCHANGED <<confAddr, member>>
    BY <1>0, <1>2, <1>3, <2>1 DEF AddrInv
  <2>2. CASE Idle /\ WorkerWaits /\ toConf = {} /\ member' = FALSE
    <3>1. \A t \in Threads : ~At(t, "emit")' /\ ~At(t, "apply")'
      BY <1>3, <2>2, WaitingHeads DEF Threads
    <3>2. toConf' = {}
      BY <1>2, <2>2
    <3> QED
      BY <1>0, <1>2, <2>2, <3>1, <3>2 DEF AddrInv
  <2> QED
    BY <1>2, <2>1, <2>2
<1>5. DueInv'
  BY <1>0, <1>2, <1>3 DEF DueInv
<1>6. AgeInv'
  <2>1. SUFFICES ASSUME phase # "closed", member', ~cut
                 PROVE  confAge <= Late(faults)' + Since'
    BY <1>2, Zenon DEF AgeInv
  <2>2. member
    BY <1>2, <2>1
  <2>3. confAge <= Late(faults + 1)
    BY <2>1, <2>2, Overdue
  <2>4. Late(faults)' = Late(faults + 1)
    BY <1>2 DEF Late, Gap, Interval
  <2>5. Late(faults + 1) \in Nat /\ Since' \in Nat /\ confAge \in Nat
    <3>1. faults \in Nat /\ confAge \in Nat
      BY DEF AliveInv, Inv, TypeOK
    <3>2. Late(faults + 1) \in Nat
      BY <3>1, LateType
    <3>3. Since' \in Nat
      <4>1. opTime'["main"] \in Nat
        BY <1>1, PeerElAssumption DEF Inv, TypeOK, Threads
      <4>2. Waited' = Waited
        BY <1>2 DEF Waited
      <4>3. Waited \in Nat
        BY WaitedType DEF AliveInv, Inv
      <4> QED
        BY <4>1, <4>2, <4>3 DEF Since
    <3> QED
      BY <3>1, <3>2, <3>3
  <2>6. confAge <= Late(faults + 1) + Since'
    BY <2>3, <2>5
  <2> QED
    BY <2>4, <2>6
<1>7. ShapeInv' /\ KeptAlive'
  BY <1>0, <1>2 DEF ShapeInv, Shaped, KeptAlive
<1>8. ThreadInv'
  <2>1. At("main", "apply")' <=> At("main", "apply")
    BY <1>3 DEF Threads
  <2> QED
    BY <1>0, <1>2, <2>1, Zenon DEF ThreadInv
<1> QED
  BY <1>1, <1>4, <1>5, <1>6, <1>7, <1>8 DEF AliveInv

\* Without the proxy, nothing more is claimed.
LEMMA LostAlive ==
  ASSUME AliveInv, ProxyLost
  PROVE  AliveInv'
<1> USE DEF control, link, clocks, network, conn, conf
<1>1. Inv'
  BY OutsideStep DEF AliveInv
<1>2. /\ toConf' \subseteq toConf /\ cut' = TRUE
      /\ UNCHANGED <<phase, on, exited, todo, addr, sdesAge, ticked, confAddr, member>>
  BY DEF ProxyLost
<1>3. \A t \in Threads : Arg(t)' = Arg(t) /\ \A m : At(t, m)' <=> At(t, m)
  BY <1>2, SameHeads
<1>4. AddrInv' /\ DueInv'
  BY <1>2, <1>3 DEF AliveInv, AddrInv, DueInv
<1>5. AgeInv' /\ KeptAlive'
  BY <1>2 DEF AgeInv, KeptAlive
<1>6. ShapeInv'
  BY <1>2 DEF AliveInv, ShapeInv, Shaped
<1>7. ThreadInv'
  <2>1. At("main", "apply")' <=> At("main", "apply")
    BY <1>3 DEF Threads
  <2>2. ThreadInv
    BY DEF AliveInv
  <2> QED
    BY <1>2, <2>1, <2>2, Zenon DEF ThreadInv
<1> QED
  BY <1>1, <1>4, <1>5, <1>6, <1>7 DEF AliveInv

\* A second on which the loop comes round or is held up is one more to wait.
LEMMA OlderWaits ==
  ASSUME EL_SDES_INTERVAL \in Nat, sdesAge \in 0..EL_SDES_INTERVAL, held \in Nat,
         sdesAge' = Older(sdesAge, EL_SDES_INTERVAL),
         held' = held + 1 \/ (sdesAge < EL_SDES_INTERVAL /\ held' = 0)
  PROVE  Waited + 1 <= Waited'
<1> DEFINE W(x, k) == IF x < EL_SDES_INTERVAL THEN x ELSE EL_SDES_INTERVAL + k
<1>1. \A x \in 0..EL_SDES_INTERVAL, k \in Nat :
        /\ W(x, k) + 1 <= W(Older(x, EL_SDES_INTERVAL), k + 1)
        /\ x < EL_SDES_INTERVAL => W(x, k) + 1 <= W(Older(x, EL_SDES_INTERVAL), 0)
  BY DEF Older
<1>2. Waited = W(sdesAge, held) /\ Waited' = W(sdesAge', held')
  BY DEF Waited
<1> HIDE DEF W
<1> QED
  BY <1>1, <1>2

\* A second passes only when the keepalive is not due or the loop is blocked in
\* the directory; Patient is used here and nowhere else.
LEMMA SecondAlive ==
  ASSUME Patient, AliveInv, Second
  PROVE  AliveInv'
<1> USE DEF control, link, clocks, network, conn, conf
<1>0. AddrInv /\ AgeInv /\ ThreadInv /\ DueInv /\ KeptAlive /\ ShapeInv
  BY DEF AliveInv
<1>1. Inv'
  BY OutsideStep DEF AliveInv
<1>2. /\ phase # "closed" /\ toConf = {} /\ MainWaits /\ WorkerWaits /\ ticked' = FALSE
      /\ sdesAge' = Older(sdesAge, EL_SDES_INTERVAL)
      /\ opTime' = [t \in Threads |-> IF Blocked(t) THEN opTime[t] + 1 ELSE opTime[t]]
      /\ held' = IF CameRound THEN 0 ELSE IF HeldUp THEN held + 1 ELSE held
      /\ UNCHANGED <<phase, on, exited, todo, addr, toConf, confAddr, faults, cut>>
  BY DEF Second
<1>3. \A t \in Threads : Arg(t)' = Arg(t) /\ \A m : At(t, m)' <=> At(t, m)
  BY <1>2, SameHeads
<1>4. /\ \A t \in Threads, n \in {"build", "emit", "apply"} : ~At(t, n)
      /\ ~InFlight
  <2>1. \A t \in Threads, n \in {"build", "emit", "apply"} : ~At(t, n)
    BY <1>2, WaitingHeads DEF MainWaits, CameRound, HeldUp, Threads
  <2> QED
    BY <1>2, <2>1 DEF InFlight
<1>5. /\ faults \in 0..MaxFaults /\ MaxFaults \in Nat /\ confAge \in Nat
      /\ sdesAge \in 0..EL_SDES_INTERVAL /\ EL_SDES_INTERVAL \in Nat
      /\ opTime["main"] \in Nat /\ CONF_TIMEOUT \in Nat
      /\ held \in 0..MaxHeld /\ MaxHeld \in Nat
  BY PeerElAssumption DEF AliveInv, Inv, TypeOK, Threads
<1>6. ASSUME member, ~cut
      PROVE  /\ confAge + 1 <= Late(faults) + Since'
             /\ confAge + 1 < CONF_TIMEOUT
  <2>1. confAge <= Late(faults) + Since
    BY <1>0, <1>2, <1>4, <1>6 DEF AgeInv
  <2>2. addr # 0
    BY <1>0, <1>2, <1>6, PeerElAssumption DEF AddrInv, AliveInv, Inv, TypeOK
  <2>3. Since + 1 <= Since'
    <3>1. CASE Blocked("main")
      <4>1. InDir /\ InDir'
        BY <1>3, <3>1 DEF Blocked, InDir, Threads
      <4>2. opTime["main"] + 1 <= opTime'["main"]
        <5>1. opTime'["main"] = opTime["main"] + 1
          BY <1>2, <3>1 DEF Threads
        <5>2. opTime["main"] + 1 <= opTime["main"] + 1
          BY <1>5
        <5> QED
          BY <5>1, <5>2
      <4> QED
        BY <4>1, <4>2, Zenon DEF Since
    <3>2. CASE CameRound
      <4>1. ~InDir /\ ~InDir'
        BY <1>3, <3>2 DEF CameRound, Idle, InDir, At, Threads
      <4>2. ~Has(todo["main"], {"keepalive"})
        <5>1. Len(todo["main"]) = 0
          BY <3>2 DEF CameRound, Idle
        <5> QED
          BY <5>1 DEF Has
      <4>3. sdesAge < EL_SDES_INTERVAL
        BY <1>0, <1>4, <2>2, <3>2, <4>2 DEF DueInv, CameRound
      <4>4. Waited + 1 <= Waited'
        BY <1>2, <1>5, <3>2, <4>3, OlderWaits
      <4> QED
        BY <4>1, <4>4, Zenon DEF Since
    <3>3. CASE HeldUp /\ ~CameRound
      <4>1. ~InDir /\ ~InDir'
        BY <1>3, <3>3 DEF HeldUp, Idle, InDir, At, Threads
      <4>2. Waited + 1 <= Waited'
        BY <1>2, <1>5, <3>3, OlderWaits
      <4> QED
        BY <4>1, <4>2, Zenon DEF Since
    <3> QED
      BY <1>2, <3>1, <3>2, <3>3 DEF MainWaits
  <2>4. Since \in Nat /\ Since' \in Nat
    <3>1. opTime'["main"] \in Nat
      BY <1>1, PeerElAssumption DEF Inv, TypeOK, Threads
    <3>2. Waited' \in Nat
      BY <1>1, OlderType DEF Inv
    <3> QED
      BY <1>2, <1>6, <3>1, <3>2, Overdue DEF Since
  <2>5. Late(faults) \in Nat
    BY <1>5, LateType
  <2>6. confAge + 1 <= Late(faults) + Since'
    <3>1. \A c, l, x, y \in Nat : c <= l + x /\ x + 1 <= y => c + 1 <= l + y
      OBVIOUS
    <3> QED
      BY <1>5, <2>1, <2>3, <2>4, <2>5, <3>1
  <2>7. Since' <= Gap /\ Since' \in Nat /\ Gap \in Nat
    <3>2. Gap \in Nat /\ Interval \in Nat /\ Interval <= Gap
      BY GapType
    <3>3. CASE InDir
      <4>1. InDir'
        BY <1>3, <3>3 DEF InDir, Threads
      <4>2. Since' = opTime'["main"] /\ opTime'["main"] \in 0..DirTime /\ DirTime \in Nat
        BY <1>1, <4>1, PeerElAssumption DEF Since, Inv, TypeOK, Threads
      <4>3. Has(todo["main"], {"login", "list"})
        <5>1. At("main", "login") \/ At("main", "list")
          BY <1>4, <3>3 DEF InDir, Threads
        <5>2. todo["main"] \in Seq(Ops)
          BY DEF AliveInv, Inv, ListInv, Threads
        <5> QED
          BY <5>1, <5>2, HasTail DEF At
      <4>4. FALSE \in ProxyThread \union DirectThread
        BY <1>0, <1>2, <2>2, <4>3, Zenon DEF ThreadInv
      <4>5. DirTime <= Gap
        BY <4>4, GapType
      <4> QED
        BY <3>2, <4>2, <4>5
    <3>4. CASE ~InDir
      <4>1. ~InDir'
        BY <1>3, <3>4 DEF InDir, Threads
      <4>2. Since' = Waited' /\ Waited' \in Nat /\ Waited' <= Interval
        BY <1>1, <4>1, OlderType DEF Since, Inv
      <4> QED
        BY <3>2, <4>2
    <3> QED
      BY <3>3, <3>4
  <2>8. Late(faults) + Gap <= Late(MaxFaults + 1) /\ Late(MaxFaults + 1) \in Nat
    <3>1. Late(faults + 1) = Late(faults) + Gap
      BY <1>5, LateType
    <3>2. faults + 1 \in Nat /\ MaxFaults + 1 \in Nat /\ faults + 1 <= MaxFaults + 1
      BY <1>5
    <3>3. Late(faults + 1) <= Late(MaxFaults + 1) /\ Late(MaxFaults + 1) \in Nat
      BY <3>2, LateType
    <3> QED
      BY <3>1, <3>3
  <2>9. confAge + 1 < CONF_TIMEOUT
    BY <1>5, <2>5, <2>6, <2>7, <2>8 DEF Patient
  <2> QED
    BY <2>6, <2>9
<1>7. /\ member' => member
      /\ ~cut => dropped' = dropped
      /\ ~cut /\ member => confAge' = confAge + 1
  <2>1. ~cut /\ member => ~(confAge + 1 >= CONF_TIMEOUT)
    BY <1>5, <1>6
  <2> QED
    BY <2>1 DEF Second
<1>8. AddrInv'
  BY <1>0, <1>2, <1>3, <1>4, <1>7 DEF AddrInv
<1>9. DueInv'
  BY <1>2 DEF DueInv
<1>10. AgeInv'
  <2>1. SUFFICES ASSUME member', ~cut
                 PROVE  confAge' <= Late(faults) + Since'
    BY <1>2, Zenon DEF AgeInv
  <2> QED
    BY <1>6, <1>7, <2>1
<1>11. ShapeInv' /\ KeptAlive'
  BY <1>0, <1>2, <1>7 DEF ShapeInv, Shaped, KeptAlive
<1>12. ThreadInv'
  <2>1. At("main", "apply")' <=> At("main", "apply")
    BY <1>3 DEF Threads
  <2> QED
    BY <1>0, <1>2, <2>1, Zenon DEF ThreadInv
<1> QED
  BY <1>1, <1>8, <1>9, <1>10, <1>11, <1>12 DEF AliveInv

\* Nobody is a member before the first SDES.
LEMMA InitiallyAlive ==
  ASSUME Init
  PROVE  AliveInv
<1> USE DEF Init
<1>1. Inv
  BY Initially
<1> DEFINE k == <<Op("thread", 0)>>
           g == <<Op("login", 0)>>
<1>2. /\ Op("thread", 0) \in Ops /\ Op("thread", 0)[1] = "thread"
      /\ Op("login", 0) \in Ops /\ Op("login", 0)[1] = "login"
  BY DEF Op, Ops, OpNames
<1>3. k \in Seq(Ops) /\ Len(k) = 1 /\ k[1][1] = "thread" /\ k # <<>> /\ Head(k)[1] = "thread"
  BY <1>2
<1>4. /\ todo["worker"] = <<>>
      /\ todo["main"] = (IF ListInterval > 0 THEN JobOps("LOGIN_LIST") ELSE g) \o k
  BY DEF Threads
<1>5. Shaped(<<>>)
  BY DEF Shaped
<1> HIDE DEF k
<1>6. Shaped(k) /\ ~Has(k, {"login", "list"})
  BY <1>3 DEF Shaped, Has
<1>7. /\ Shaped(todo["main"]) /\ todo["main"] # <<>>
      /\ Head(todo["main"])[1] \in {"build", "login"}
  <2>1. CASE ListInterval > 0
    <3>1. /\ Shaped(JobOps("LOGIN_LIST") \o k) /\ JobOps("LOGIN_LIST") \o k # <<>>
          /\ Head(JobOps("LOGIN_LIST") \o k) = Op("build", 0)
      BY <1>3, <1>6, JobShaped
    <3>2. Op("build", 0)[1] = "build"
      BY DEF Op
    <3> QED
      BY <1>4, <2>1, <3>1, <3>2
  <2>2. CASE ~(ListInterval > 0)
    <3>1. Shaped(<<Op("login", 0)>> \o k)
      BY <1>2, <1>3, <1>6, <2>2, ShapedFront
    <3>2. <<Op("login", 0)>> \o k # <<>> /\ Head(<<Op("login", 0)>> \o k) = Op("login", 0)
      BY <1>2, <1>3, HasFront
    <3> QED
      BY <1>2, <1>4, <2>2, <3>1, <3>2
  <2> QED
    BY <2>1, <2>2
<1>8. ShapeInv
  BY <1>4, <1>5, <1>7 DEF ShapeInv, Threads
<1>9. \A t \in Threads : ~At(t, "apply") /\ ~At(t, "emit")
  BY <1>4, <1>7 DEF At, Threads
<1>10. ThreadInv
  BY <1>4 DEF ThreadInv
<1>11. AddrInv /\ DueInv /\ AgeInv /\ KeptAlive
  BY <1>9 DEF AddrInv, DueInv, AgeInv, KeptAlive
<1> QED
  BY <1>1, <1>8, <1>10, <1>11 DEF AliveInv

\* Every step keeps the invariant of the keepalive.
LEMMA AliveInductive ==
  ASSUME Patient, AliveInv, CutInv, [Next]_vars
  PROVE  AliveInv' /\ CutInv'
<1>0. SUFFICES AliveInv'
  BY CutStep DEF AliveInv
<1>1. CASE \E t \in Threads : Directory(t)
  BY <1>1, BuildAlive, EmitAlive, OpenAlive, LookAlive, ApplyAlive DEF Directory
<1>2. CASE ThreadStart \/ Keepalive \/ Stale \/ HandleRtcp \/ HandleRtp \/ Unlock \/ DeferredReply
  BY <1>2, LoopAlive
<1>3. CASE WriteLoop \/ Bridge \/ Stop \/ PollDown
  BY <1>3, CallsAlive, IdleAlive DEF Bridge
<1>4. CASE Join
  BY <1>4, JoinAlive
<1>5. CASE Tick \/ Poll
  BY <1>5, IdleAlive
<1>6. CASE WorkerTop \/ WorkerDone
  BY <1>6, WorkerAlive
<1>7. CASE (\E d \in Datagrams : ConfReceives(d)) \/ ConfTalks \/ Fault \/ ProxyLost
  BY <1>7, ReceiveAlive, TalkAlive, FaultAlive, LostAlive
<1>8. CASE Second
  BY <1>8, SecondAlive
<1>9. CASE UNCHANGED vars
  <2>1. Inv'
    BY <1>9, Inductive DEF AliveInv
  <2>2. UNCHANGED <<phase, on, exited, todo, addr, sdesAge, held, ticked, opTime, toConf,
                    confAddr, member, confAge, dropped, cut, faults>>
    BY <1>9 DEF vars, control, link, clocks, network, conn, conf
  <2>3. \A t \in Threads : Arg(t)' = Arg(t) /\ \A m : At(t, m)' <=> At(t, m)
    BY <2>2, SameHeads
  <2>4. InDir' <=> InDir
    BY <2>3 DEF InDir, Threads
  <2>5. AddrInv' /\ DueInv' /\ AgeInv' /\ KeptAlive'
    BY <2>2, <2>3, <2>4, QuietStep
  <2>6. ShapeInv'
    BY <2>2 DEF AliveInv, ShapeInv, Shaped
  <2>7. ThreadInv'
    <3>1. At("main", "apply")' <=> At("main", "apply")
      BY <2>3 DEF Threads
    <3>2. ThreadInv
      BY DEF AliveInv
    <3> QED
      BY <2>2, <3>1, <3>2, Zenon DEF ThreadInv
  <2> QED
    BY <2>1, <2>5, <2>6, <2>7 DEF AliveInv
<1>10. "main" \in Threads /\ "worker" \in Threads
  BY DEF Threads
<1> QED
  BY <1>1, <1>2, <1>3, <1>4, <1>5, <1>6, <1>7, <1>8, <1>9, <1>10
     DEF Next, Main, Worker

(* The conference does not forget a running client whose proxy, if it has  *)
(* one, has not been lost, if it waits for longer than the SDES that may   *)
(* be lost take: for each of them and for the one that gets through, the   *)
(* interval of the keepalive and the time the loop may be held up or,      *)
(* where the loop has to do directory operations itself, the time those    *)
(* may take.  With a worker their duration does not matter                 *)
(* (el_dir_op_begin, peer_el_tick).                                        *)
THEOREM AlwaysKeptAlive ==
  ASSUME Patient
  PROVE  Spec => []KeptAlive
<1>1. Init => AliveInv /\ CutInv
  <2>1. Init => CutInv
    BY DEF Init, CutInv, Down
  <2> QED
    BY <2>1, InitiallyAlive
<1>2. AliveInv /\ CutInv /\ [Next]_vars => AliveInv' /\ CutInv'
  BY AliveInductive
<1>3. AliveInv => KeptAlive
  BY DEF AliveInv
<1> QED
  BY <1>1, <1>2, <1>3, PTL DEF Spec

-----------------------------------------------------------------------------
(***************************************************************************)
(* The worker is never left asleep.  dir_job, dir_busy and dir_stop are    *)
(* written by both threads; the proof follows the two lists that end with  *)
(* the operation that matters, the start of the worker at the end of       *)
(* peer_el_open and the end of a job in the worker's own list.             *)
(***************************************************************************)

\* Operation n is the last of list l, if that has one, and only the last.
Ends(l, n) == \A i \in 1..Len(l) : l[i][1] = n <=> i = Len(l)

\* Operation n is not in list l.
Lacks(l, n) == \A i \in 1..Len(l) : l[i][1] # n

\* What functions that both threads call put in front.
Calls == {l \in Seq(Ops) : Lacks(l, "thread") /\ Lacks(l, "done")}

\* Calls made one after the other.
LEMMA CallsTogether ==
  ASSUME NEW x \in Calls, NEW y \in Calls
  PROVE  Cat(x, y) \in Calls
<1>1. /\ x \in Seq(Ops) /\ y \in Seq(Ops) /\ Len(x) \in Nat /\ Len(y) \in Nat
      /\ Lacks(x, "thread") /\ Lacks(x, "done") /\ Lacks(y, "thread") /\ Lacks(y, "done")
  BY LenProperties DEF Calls
<1>2. /\ Cat(x, y) \in Seq(Ops) /\ Len(Cat(x, y)) = Len(x) + Len(y)
      /\ \A i \in 1..Len(x) : Cat(x, y)[i] = x[i]
      /\ \A i \in 1..Len(y) : Cat(x, y)[i + Len(x)] = y[i]
  BY <1>1, CatProperties
<1>3. ASSUME NEW i \in 1..Len(Cat(x, y))
      PROVE  Cat(x, y)[i][1] # "thread" /\ Cat(x, y)[i][1] # "done"
  <2>1. CASE i <= Len(x)
    BY <1>1, <1>2, <2>1 DEF Lacks
  <2>2. CASE i > Len(x)
    <3>1. i - Len(x) \in 1..Len(y) /\ (i - Len(x)) + Len(x) = i
      BY <1>1, <1>2, <2>2
    <3>2. Cat(x, y)[i] = y[i - Len(x)]
      <4>1. Cat(x, y)[(i - Len(x)) + Len(x)] = y[i - Len(x)]
        BY <1>2, <3>1
      <4> QED
        BY <3>1, <4>1
    <3>3. y[i - Len(x)][1] # "thread" /\ y[i - Len(x)][1] # "done"
      BY <1>1, <3>1 DEF Lacks
    <3> QED
      BY <3>2, <3>3
  <2> QED
    BY <1>1, <1>2, <2>1, <2>2
<1> QED
  BY <1>2, <1>3 DEF Calls, Lacks

\* The lists that are put in front are such calls.
LEMMA CallLists ==
  /\ <<>> \in Calls /\ SendSdes \in Calls /\ SendHandshake \in Calls
  /\ <<Op("keepalive", 0), Op("stale", 0)>> \in Calls
  /\ <<Op("callback", 0), Op("unlock", 0), Op("reply", 0)>> \in Calls
  /\ <<Op("callback", 0)>> \in Calls
  /\ <<Op("login", 0)>> \in Calls /\ <<Op("list", 0)>> \in Calls
  /\ \A a \in Addrs : <<Op("emit", a)>> \in Calls /\ <<Op("apply", a)>> \in Calls
<1>1. /\ <<>> \in Seq(Ops) /\ SendSdes \in Seq(Ops) /\ SendHandshake \in Seq(Ops)
      /\ <<Op("keepalive", 0), Op("stale", 0)>> \in Seq(Ops)
      /\ <<Op("callback", 0), Op("unlock", 0), Op("reply", 0)>> \in Seq(Ops)
  BY Lists
<1>2. /\ <<Op("callback", 0)>> \in Seq(Ops)
      /\ <<Op("login", 0)>> \in Seq(Ops) /\ <<Op("list", 0)>> \in Seq(Ops)
      /\ \A a \in Addrs : <<Op("emit", a)>> \in Seq(Ops) /\ <<Op("apply", a)>> \in Seq(Ops)
  BY Lists DEF OpNames
<1>3. ASSUME NEW l \in Seq(Ops), NEW k \in 0..3, Len(l) = k,
             k >= 1 => l[1][1] \notin {"thread", "done"},
             k >= 2 => l[2][1] \notin {"thread", "done"},
             k >= 3 => l[3][1] \notin {"thread", "done"}
      PROVE  l \in Calls
  <2>1. ASSUME NEW i \in 1..Len(l)
        PROVE  l[i][1] # "thread" /\ l[i][1] # "done"
    <3>1. i \in {1, 2, 3} /\ i <= k
      BY <1>3
    <3> QED
      BY <1>3, <3>1
  <2> QED
    BY <2>1 DEF Calls, Lacks
<1>4. \A n, a : Op(n, a)[1] = n
  BY DEF Op
<1>5. <<>> \in Calls
  <2>1. ~\E i \in 1..Len(<<>>) : TRUE
    OBVIOUS
  <2> QED
    BY <1>1, <2>1 DEF Calls, Lacks
<1>6. ASSUME NEW n \in OpNames \ {"thread", "done"}, NEW a, <<Op(n, a)>> \in Seq(Ops)
      PROVE  <<Op(n, a)>> \in Calls
  <2> DEFINE l == <<Op(n, a)>>
  <2>1. Len(l) = 1 /\ l[1] = Op(n, a)
    OBVIOUS
  <2>2. l[1][1] \notin {"thread", "done"} /\ 1 \in 0..3
    BY <2>1, <1>4
  <2> HIDE DEF l
  <2>3. l \in Seq(Ops) => l \in Calls
    BY <1>3, <2>1, <2>2
  <2> QED
    BY <1>6, <2>3 DEF l
<1>7. SendSdes \in Calls
  BY <1>1, <1>6 DEF SendSdes, OpNames
<1>8. ASSUME NEW n \in OpNames \ {"thread", "done"}, NEW m \in OpNames \ {"thread", "done"},
             <<Op(n, 0), Op(m, 0)>> \in Seq(Ops)
      PROVE  <<Op(n, 0), Op(m, 0)>> \in Calls
  <2> DEFINE l == <<Op(n, 0), Op(m, 0)>>
  <2>1. Len(l) = 2 /\ l[1] = Op(n, 0) /\ l[2] = Op(m, 0)
    OBVIOUS
  <2>2. /\ l[1][1] \notin {"thread", "done"} /\ l[2][1] \notin {"thread", "done"}
        /\ 2 \in 0..3 /\ ~(2 >= 3)
    BY <2>1, <1>4
  <2> HIDE DEF l
  <2>3. l \in Seq(Ops) => l \in Calls
    BY <1>3, <2>1, <2>2
  <2> QED
    BY <1>8, <2>3 DEF l
<1>9. SendHandshake \in Calls /\ <<Op("keepalive", 0), Op("stale", 0)>> \in Calls
  BY <1>1, <1>8 DEF SendHandshake, OpNames
<1>10. <<Op("callback", 0), Op("unlock", 0), Op("reply", 0)>> \in Calls
  <2> DEFINE l == <<Op("callback", 0), Op("unlock", 0), Op("reply", 0)>>
  <2>1. Len(l) = 3 /\ l[1] = Op("callback", 0) /\ l[2] = Op("unlock", 0) /\ l[3] = Op("reply", 0)
    OBVIOUS
  <2>2. /\ l[1][1] \notin {"thread", "done"} /\ l[2][1] \notin {"thread", "done"}
        /\ l[3][1] \notin {"thread", "done"} /\ 3 \in 0..3
    BY <2>1, <1>4
  <2> HIDE DEF l
  <2>3. l \in Seq(Ops) => l \in Calls
    BY <1>3, <2>1, <2>2
  <2> QED
    BY <1>1, <2>3 DEF l
<1>11. /\ <<Op("callback", 0)>> \in Calls
       /\ <<Op("login", 0)>> \in Calls /\ <<Op("list", 0)>> \in Calls
       /\ \A a \in Addrs : <<Op("emit", a)>> \in Calls /\ <<Op("apply", a)>> \in Calls
  BY <1>2, <1>6 DEF OpNames
<1> QED
  BY <1>5, <1>7, <1>9, <1>10, <1>11

\* So are the operations of a job.
LEMMA JobCalls ==
  ASSUME NEW j
  PROVE  JobOps(j) \in Calls
<1> DEFINE a == IF j \in {"LOGIN", "LOGIN_LIST"} THEN <<Op("login", 0)>> ELSE <<>>
           b == IF j \in {"LIST", "LOGIN_LIST"} /\ ListInterval > 0
                THEN <<Op("list", 0)>> ELSE <<>>
<1>1. a \in Calls /\ b \in Calls /\ SendSdes \in Calls
  BY CallLists
<1>2. JobOps(j) = Cat(Cat(Cat(SendSdes, a), b), SendSdes)
                  \/ JobOps(j) = Cat(SendSdes, Cat(a, Cat(b, SendSdes)))
  BY DEF JobOps, Cat
<1> HIDE DEF a, b
<1> QED
  BY <1>1, <1>2, CallsTogether

\* Calls, and the operation that ends their list.
LEMMA CallsThen ==
  ASSUME NEW x \in Calls, NEW n \in {"thread", "done"}
  PROVE  Cat(x, <<Op(n, 0)>>) # <<>> /\ Ends(Cat(x, <<Op(n, 0)>>), n)
<1> DEFINE k == <<Op(n, 0)>>
<1>1. k \in Seq(Ops) /\ Len(k) = 1 /\ k[1][1] = n
  <2>1. k \in Seq(Ops)
    BY Lists DEF OpNames
  <2> QED
    BY <2>1 DEF Op
<1> HIDE DEF k
<1>2. x \in Seq(Ops) /\ Len(x) \in Nat /\ Lacks(x, n)
  BY LenProperties DEF Calls
<1>3. /\ Cat(x, k) \in Seq(Ops) /\ Len(Cat(x, k)) = Len(x) + Len(k)
      /\ \A i \in 1..Len(x) : Cat(x, k)[i] = x[i]
      /\ \A i \in 1..Len(k) : Cat(x, k)[i + Len(x)] = k[i]
  BY <1>1, <1>2, CatProperties
<1>4. Cat(x, k)[Len(x) + 1] = k[1]
  <2>1. 1 \in 1..Len(k) /\ 1 + Len(x) = Len(x) + 1
    BY <1>1, <1>2
  <2> QED
    BY <1>3, <2>1
<1>7. Len(Cat(x, k)) = Len(x) + 1
  BY <1>1, <1>3
<1>5. Ends(Cat(x, k), n)
  <2>1. ASSUME NEW i \in 1..Len(Cat(x, k))
        PROVE  Cat(x, k)[i][1] = n <=> i = Len(Cat(x, k))
    <3>1. CASE i <= Len(x)
      <4>1. i \in 1..Len(x) /\ i # Len(Cat(x, k))
        BY <1>2, <1>7, <3>1
      <4> QED
        BY <1>2, <1>3, <4>1 DEF Lacks
    <3>2. CASE i = Len(x) + 1
      BY <1>1, <1>7, <1>4, <3>2
    <3>3. i <= Len(x) \/ i = Len(x) + 1
      BY <1>2, <1>7
    <3> QED
      BY <3>1, <3>2, <3>3
  <2> QED
    BY <2>1 DEF Ends
<1>6. Cat(x, k) # <<>>
  <2>1. Len(Cat(x, k)) # 0
    BY <1>2, <1>7
  <2> QED
    BY <2>1
<1> QED
  BY <1>5, <1>6 DEF k

\* A thread that goes on comes nearer to the end of its list, or is past it.
LEMMA EndsOn ==
  ASSUME NEW l \in Seq(Ops), l # <<>>, NEW x \in Calls, NEW n \in {"thread", "done"}
  PROVE  /\ Ends(l, n) /\ Head(l)[1] # n => x \o Tail(l) # <<>> /\ Ends(x \o Tail(l), n)
         /\ Ends(l, n) /\ Head(l)[1] = n => Tail(l) = <<>>
         /\ Lacks(l, n) => Head(l)[1] # n /\ Lacks(x \o Tail(l), n)
<1> DEFINE r == Tail(l)
           c == Cat(x, r)
<1>1. /\ r \in Seq(Ops) /\ Len(l) \in Nat /\ Len(r) \in Nat /\ Len(l) = Len(r) + 1
      /\ Head(l) = l[1] /\ \A i \in 1..Len(r) : r[i] = l[i + 1]
  BY LenProperties, HeadTailProperties
<1>2. x \in Seq(Ops) /\ Len(x) \in Nat /\ Lacks(x, n)
  BY LenProperties DEF Calls
<1> HIDE DEF r
<1>3. /\ c \in Seq(Ops) /\ Len(c) = Len(x) + Len(r)
      /\ \A i \in 1..Len(x) : c[i] = x[i]
      /\ \A i \in 1..Len(r) : c[i + Len(x)] = r[i]
  BY <1>1, <1>2, CatProperties
<1> HIDE DEF c
<1>4. \A i \in 1..Len(c) : \/ i <= Len(x) /\ c[i][1] # n
                           \/ \E j \in 1..Len(r) : /\ i = j + Len(x)
                                                  /\ c[i] = l[j + 1] /\ j + 1 \in 1..Len(l)
  <2> SUFFICES ASSUME NEW i \in 1..Len(c), i > Len(x)
               PROVE  \E j \in 1..Len(r) : /\ i = j + Len(x)
                                           /\ c[i] = l[j + 1] /\ j + 1 \in 1..Len(l)
    <3>1. ASSUME NEW i \in 1..Len(c), ~(i > Len(x))
          PROVE  i <= Len(x) /\ c[i][1] # n
      <4>1. i \in 1..Len(x)
        BY <1>1, <1>2, <1>3, <3>1
      <4> QED
        BY <1>2, <1>3, <4>1 DEF Lacks
    <3> QED
      BY <3>1
  <2> DEFINE j == i - Len(x)
  <2>1. j \in 1..Len(r) /\ i = j + Len(x) /\ j + 1 \in 1..Len(l)
    BY <1>1, <1>2, <1>3
  <2> HIDE DEF j
  <2>2. c[j + Len(x)] = r[j] /\ r[j] = l[j + 1]
    BY <1>1, <1>3, <2>1
  <2> QED
    BY <2>1, <2>2
<1>5. Ends(l, n) /\ Head(l)[1] = n => r = <<>>
  <2>1. Ends(l, n) /\ Head(l)[1] = n => 1 = Len(l)
    BY <1>1 DEF Ends
  <2> QED
    BY <1>1, <2>1
<1>6. ASSUME Ends(l, n), Head(l)[1] # n PROVE c # <<>> /\ Ends(c, n)
  <2>1. Len(r) > 0
    BY <1>1, <1>6 DEF Ends
  <2>2. ASSUME NEW i \in 1..Len(c) PROVE c[i][1] = n <=> i = Len(c)
    <3>1. CASE i <= Len(x) /\ c[i][1] # n
      BY <1>1, <1>2, <1>3, <2>1, <3>1
    <3>2. ASSUME NEW j \in 1..Len(r), i = j + Len(x), c[i] = l[j + 1], j + 1 \in 1..Len(l)
          PROVE  c[i][1] = n <=> i = Len(c)
      <4>1. c[i][1] = n <=> j + 1 = Len(l)
        BY <1>6, <3>2 DEF Ends
      <4>2. j + 1 = Len(l) <=> i = Len(c)
        <5>1. /\ Len(x) \in Nat /\ Len(r) \in Nat /\ j \in Nat
              /\ i = j + Len(x) /\ Len(l) = Len(r) + 1 /\ Len(c) = Len(x) + Len(r)
          BY <1>1, <1>2, <1>3, <3>2
        <5> QED
          BY <5>1
      <4> QED
        BY <4>1, <4>2
    <3> QED
      BY <1>4, <3>1, <3>2
  <2>3. c # <<>>
    BY <1>1, <1>2, <1>3, <2>1
  <2> QED
    BY <2>2, <2>3 DEF Ends
<1>7. ASSUME Lacks(l, n) PROVE Head(l)[1] # n /\ Lacks(c, n)
  BY <1>1, <1>4, <1>7 DEF Lacks
<1> QED
  BY <1>5, <1>6, <1>7 DEF c, r, Cat

-----------------------------------------------------------------------------
\* peer_el_open ends with the start of the worker, which is not started again.
StartInv ==
  IF phase = "start" THEN Ends(todo["main"], "thread") ELSE Lacks(todo["main"], "thread")

\* The worker has a job in hand exactly while dir_busy is set.
WorkInv ==
  /\ Ends(todo["worker"], "done")
  /\ busy <=> todo["worker"] # <<>>

SleepInv ==
  /\ phase = "start" => exited /\ ~on /\ ~stop
  /\ asleep => job = "NONE" /\ ~stop /\ ~exited /\ ~busy
  /\ ~on => exited /\ job = "NONE"
  /\ stop => phase \in {"join", "closed"}
  /\ exited => ~busy /\ (on => stop)
  /\ phase = "join" /\ on => stop

WakeInv == Inv /\ StartInv /\ WorkInv /\ SleepInv

\* The flags the two threads tell each other things with.
Flags == <<phase, on, asleep, exited, job, busy, stop>>

\* A thread goes on in its list, and says nothing to the other.
LEMMA GoesOnWake ==
  ASSUME WakeInv, Inv', UNCHANGED Flags,
         NEW t \in Threads, NEW n, At(t, n), n \notin {"thread", "done"},
         NEW x \in Calls, Continue(t, x)
  PROVE  WakeInv'
<1>1. todo \in [Threads -> Seq(Ops)] /\ todo[t] # <<>> /\ todo[t] \in Seq(Ops)
      /\ Head(todo[t])[1] # "thread" /\ Head(todo[t])[1] # "done"
  BY DEF WakeInv, Inv, ListInv, At
<1>2. x \in Seq(Ops)
  BY DEF Calls
<1>3. todo'[t] = x \o Tail(todo[t]) /\ \A u \in Threads : u # t => todo'[u] = todo[u]
  BY <1>1, <1>2, Continues
<1>4. /\ Ends(todo[t], "done") => todo'[t] # <<>> /\ Ends(todo'[t], "done")
      /\ Ends(todo[t], "thread") => Ends(todo'[t], "thread")
      /\ Lacks(todo[t], "thread") => Lacks(todo'[t], "thread")
  BY <1>1, <1>3, EndsOn
<1>5. /\ Ends(todo["main"], "thread") => Ends(todo'["main"], "thread")
      /\ Lacks(todo["main"], "thread") => Lacks(todo'["main"], "thread")
  BY <1>3, <1>4 DEF Threads
<1>6. /\ Ends(todo["worker"], "done") => Ends(todo'["worker"], "done")
      /\ Ends(todo["worker"], "done") => (todo'["worker"] # <<>> <=> todo["worker"] # <<>>)
  BY <1>1, <1>3, <1>4 DEF Threads
<1>7. StartInv'
  BY <1>5, Zenon DEF WakeInv, StartInv, Flags, Ends, Lacks
<1>8. WorkInv'
  BY <1>6, Zenon DEF WakeInv, WorkInv, Flags, Ends
<1>9. SleepInv'
  BY Zenon DEF WakeInv, SleepInv, Flags
<1> QED
  BY <1>7, <1>8, <1>9 DEF WakeInv

\* Directory operations of either thread.
LEMMA DirectoryWake ==
  ASSUME WakeInv, NEW t \in Threads, Directory(t)
  PROVE  WakeInv'
<1>1. Inv' /\ TypeOK
  BY DirectoryStep DEF WakeInv, Inv
<1>2. UNCHANGED Flags
  BY DirectoryFrame DEF Flags
<1>3. PICK n \in {"build", "emit", "open", "login", "list", "apply"} : At(t, n)
  BY DirectoryFrame
<1>4. PICK x \in Calls : Continue(t, x)
  <2>1. addr \in Addrs \union {0} /\ confAddr \in Addrs
    BY <1>1 DEF TypeOK
  <2>2. CASE Build(t)
    BY <2>1, <2>2, CallLists DEF Build
  <2>3. CASE Emit(t) \/ FirewallOpen(t) \/ Login(t) \/ NotFound(t)
    BY <2>3, CallLists DEF Emit, FirewallOpen, Login, NotFound
  <2>4. CASE Found(t)
    BY <2>1, <2>4, CallLists DEF Found
  <2>5. CASE Apply(t)
    BY <2>5, CallLists DEF Apply
  <2> QED
    BY <2>2, <2>3, <2>4, <2>5 DEF Directory
<1>5. n \notin {"thread", "done"}
  BY <1>3
<1> QED
  BY <1>1, <1>2, <1>3, <1>4, <1>5, GoesOnWake

\* The loop's own operations.
LEMMA LoopWake ==
  ASSUME WakeInv, Keepalive \/ Stale \/ HandleRtcp \/ HandleRtp \/ Unlock \/ DeferredReply
  PROVE  WakeInv'
<1> USE DEF link, clocks, network, conn, conf
<1>1. Inv'
  BY LoopStep, HandleStep, ReplyStep DEF WakeInv
<1>2. UNCHANGED Flags
  BY DEF Keepalive, Stale, HandleRtcp, HandleRtp, Unlock, DeferredReply, Flags
<1>3. PICK n \in {"keepalive", "stale", "callback", "unlock", "reply"} : At("main", n)
  BY DEF Keepalive, Stale, HandleRtcp, HandleRtp, Unlock, DeferredReply
<1>4. PICK x \in Calls : Continue("main", x)
  BY CallLists DEF Keepalive, Stale, HandleRtcp, Reply, HandleRtp, Unlock, DeferredReply
<1>5. n \notin {"thread", "done"} /\ "main" \in Threads
  BY <1>3 DEF Threads
<1> QED
  BY <1>1, <1>2, <1>3, <1>4, <1>5, GoesOnWake

\* The loop begins something new; peer_el_tick may give the worker a job.
LEMMA IdleWake ==
  ASSUME WakeInv, Tick \/ Poll \/ SetTalkerName
  PROVE  WakeInv'
<1> USE DEF link, clocks, network, conn, conf
<1>1. Inv'
  BY TickStep, PollStep, BridgeStep, TalkerStep DEF WakeInv
<1>2. PICK x \in Calls : todo' = [todo EXCEPT !["main"] = x]
  <2>1. CASE Tick
    <3> DEFINE a == IF ~on /\ DueJob # "NONE" THEN JobOps(DueJob) ELSE <<>>
               b == <<Op("keepalive", 0), Op("stale", 0)>>
    <3>1. a \in Calls /\ b \in Calls
      BY CallLists, JobCalls
    <3>2. todo' = [todo EXCEPT !["main"] = Cat(a, b)]
      BY <2>1 DEF Tick, Cat
    <3> HIDE DEF a, b
    <3> QED
      BY <3>1, <3>2, CallsTogether
  <2>2. CASE Poll
    BY <2>2, CallLists DEF Poll
  <2>3. CASE SetTalkerName
    BY <2>3, CallLists DEF SetTalkerName
  <2> QED
    BY <2>1, <2>2, <2>3
<1>3. todo'["main"] = x /\ todo'["worker"] = todo["worker"] /\ Lacks(x, "thread")
  BY <1>2 DEF WakeInv, Inv, ListInv, Threads, Calls
<1>4. /\ phase = "run" /\ UNCHANGED <<phase, on, exited, busy, stop>>
      /\ \/ UNCHANGED <<job, asleep>>
         \/ asleep' = FALSE /\ on
  BY DEF Tick, Poll, SetTalkerName, Idle
<1>5. StartInv'
  BY <1>3, <1>4 DEF StartInv, Lacks
<1>6. WorkInv'
  BY <1>3, <1>4, Zenon DEF WakeInv, WorkInv, Ends
<1>7. SleepInv'
  <2>1. phase' = "run" /\ ~stop' /\ (exited' => ~busy' /\ ~on')
    BY <1>4 DEF WakeInv, SleepInv
  <2>2. asleep' => job' = "NONE" /\ ~stop' /\ ~exited' /\ ~busy'
    BY <1>4, Zenon DEF WakeInv, SleepInv
  <2>3. ~on' => exited' /\ job' = "NONE"
    BY <1>4, Zenon DEF WakeInv, SleepInv
  <2> QED
    BY <2>1, <2>2, <2>3 DEF SleepInv
<1> QED
  BY <1>1, <1>5, <1>6, <1>7 DEF WakeInv

\* The worker is started, takes a job, falls asleep, returns, or ends a job.
LEMMA WorkerWake ==
  ASSUME WakeInv, ThreadStart \/ WorkerTop \/ WorkerDone
  PROVE  WakeInv'
<1> USE DEF link, clocks, network, conn, conf
<1>1. Inv'
  BY LoopStep, WorkerStep DEF WakeInv
<1>2. /\ todo \in [Threads -> Seq(Ops)] /\ "main" \in Threads /\ "worker" \in Threads
      /\ on \in BOOLEAN /\ exited \in BOOLEAN /\ busy \in BOOLEAN /\ asleep \in BOOLEAN
      /\ stop \in BOOLEAN
  BY DEF WakeInv, Inv, ListInv, TypeOK, Threads
<1>3. CASE ThreadStart
  <2>1. At("main", "thread") /\ Continue("main", <<>>)
    BY <1>3 DEF ThreadStart
  <2>2. todo["main"] # <<>> /\ Head(todo["main"])[1] = "thread" /\ todo["main"] \in Seq(Ops)
    BY <1>2, <2>1 DEF At
  <2>3. todo'["main"] = <<>> \o Tail(todo["main"]) /\ todo'["worker"] = todo["worker"]
    BY <1>2, <2>1, <2>2, Lists, Continues DEF Threads
  <2>4. phase = "start" /\ Tail(todo["main"]) = <<>>
    BY <2>2, CallLists, EndsOn DEF WakeInv, StartInv
  <2>5. todo'["main"] = <<>>
    BY <2>3, <2>4
  <2>6. /\ phase' = "run" /\ exited' = ~on' /\ UNCHANGED <<asleep, job, busy, stop>>
    BY <1>3 DEF ThreadStart
  <2>7. StartInv'
    BY <2>5, <2>6 DEF StartInv, Lacks
  <2>8. WorkInv'
    BY <2>3, <2>6, Zenon DEF WakeInv, WorkInv, Ends
  <2>9. asleep = FALSE /\ busy = FALSE /\ stop = FALSE /\ job = "NONE"
    BY <1>2, <2>4 DEF WakeInv, SleepInv
  <2>10. on' \in BOOLEAN
    BY <1>1 DEF Inv, TypeOK
  <2>11. SleepInv'
    BY <2>6, <2>9, <2>10 DEF SleepInv
  <2> QED
    BY <1>1, <2>7, <2>8, <2>11 DEF WakeInv
<1>4. CASE WorkerTop
  <2>1. /\ exited = FALSE /\ asleep = FALSE /\ todo["worker"] = <<>>
        /\ UNCHANGED <<on, phase, stop>>
        /\ \/ stop /\ exited' = TRUE /\ UNCHANGED <<asleep, job, busy, todo>>
           \/ ~stop /\ job = "NONE" /\ asleep' = TRUE /\ UNCHANGED <<exited, job, busy, todo>>
           \/ /\ job' = "NONE" /\ busy' = TRUE /\ UNCHANGED <<asleep, exited>>
              /\ todo' = [todo EXCEPT !["worker"] = JobOps(job) \o <<Op("done", 0)>>]
    BY <1>2, <1>4 DEF WorkerTop
  <2>2. busy = FALSE /\ phase # "start" /\ on
    BY <1>2, <2>1 DEF WakeInv, WorkInv, SleepInv
  <2>3. todo'["main"] = todo["main"]
    BY <1>2, <2>1 DEF Threads
  <2>4. StartInv'
    BY <2>1, <2>3, Zenon DEF WakeInv, StartInv, Ends, Lacks
  <2>5. WorkInv'
    <3>1. CASE UNCHANGED <<busy, todo>>
      BY <3>1, Zenon DEF WakeInv, WorkInv, Ends
    <3>2. CASE busy' = TRUE /\ todo' = [todo EXCEPT !["worker"] = JobOps(job) \o <<Op("done", 0)>>]
      <4>1. todo'["worker"] = Cat(JobOps(job), <<Op("done", 0)>>)
        BY <1>2, <3>2 DEF Cat
      <4>2. todo'["worker"] # <<>> /\ Ends(todo'["worker"], "done")
        BY <4>1, JobCalls, CallsThen
      <4> QED
        BY <3>2, <4>2 DEF WorkInv, Ends
    <3> QED
      BY <2>1, <3>1, <3>2
  <2>6. SleepInv'
    BY <1>2, <2>1, <2>2 DEF WakeInv, SleepInv
  <2> QED
    BY <1>1, <2>4, <2>5, <2>6 DEF WakeInv
<1>5. CASE WorkerDone
  <2>1. /\ At("worker", "done") /\ Continue("worker", <<>>) /\ busy' = FALSE
        /\ UNCHANGED <<on, phase, asleep, exited, job, stop>>
    BY <1>5 DEF WorkerDone
  <2>2. todo["worker"] # <<>> /\ Head(todo["worker"])[1] = "done" /\ todo["worker"] \in Seq(Ops)
    BY <1>2, <2>1 DEF At
  <2>3. todo'["worker"] = <<>> \o Tail(todo["worker"]) /\ todo'["main"] = todo["main"]
    BY <1>2, <2>1, <2>2, Lists, Continues DEF Threads
  <2>4. Tail(todo["worker"]) = <<>>
    BY <2>2, CallLists, EndsOn DEF WakeInv, WorkInv
  <2>5. todo'["worker"] = <<>>
    BY <2>3, <2>4
  <2>6. WorkInv'
    BY <2>1, <2>5 DEF WorkInv, Ends
  <2>7. StartInv'
    BY <2>1, <2>3, Zenon DEF WakeInv, StartInv, Ends, Lacks
  <2>8. SleepInv'
    BY <2>1 DEF WakeInv, SleepInv
  <2> QED
    BY <1>1, <2>6, <2>7, <2>8 DEF WakeInv
<1> QED
  BY <1>3, <1>4, <1>5

\* Steps that leave both lists alone.
LEMMA OutsideWake ==
  ASSUME WakeInv, Inv', todo' = todo,
         \/ UNCHANGED <<on, asleep, exited, job, busy, stop>>
            /\ phase' \in {phase, "run", "write"} /\ (phase' # phase => phase \in {"run", "write"})
         \/ Stop
         \/ Join
  PROVE  WakeInv'
<1> USE DEF link, clocks, network, conn, conf
<1>1. /\ on \in BOOLEAN /\ exited \in BOOLEAN /\ busy \in BOOLEAN /\ asleep \in BOOLEAN
      /\ stop \in BOOLEAN
  BY DEF WakeInv, Inv, TypeOK
<1>2. phase' = "start" <=> phase = "start"
  BY DEF Stop, Join, Idle
<1>3. StartInv'
  BY <1>2, Zenon DEF WakeInv, StartInv, Ends, Lacks
<1>4. busy' = busy
  <2>1. CASE Join
    BY <1>1, <2>1 DEF Join, WakeInv, SleepInv
  <2> QED
    BY <2>1 DEF Stop
<1>5. WorkInv'
  BY <1>4, Zenon DEF WakeInv, WorkInv, Ends
<1>6. SleepInv'
  <2>1. CASE Stop
    BY <1>1, <2>1 DEF Stop, Idle, WakeInv, SleepInv
  <2>2. CASE Join
    BY <1>1, <2>2 DEF Join, WakeInv, SleepInv
  <2>3. CASE UNCHANGED <<on, asleep, exited, job, busy, stop>>
             /\ phase' \in {phase, "run", "write"} /\ (phase' # phase => phase \in {"run", "write"})
    BY <1>1, <2>3 DEF WakeInv, SleepInv
  <2> QED
    BY <2>1, <2>2, <2>3
<1> QED
  BY <1>3, <1>5, <1>6 DEF WakeInv

\* Opening, before its directory operations.
LEMMA InitiallyAwake == Init => WakeInv
<1> SUFFICES ASSUME Init PROVE WakeInv
  OBVIOUS
<1>1. Inv
  BY Initially
<1> DEFINE a == IF ListInterval > 0 THEN JobOps("LOGIN_LIST") ELSE <<Op("login", 0)>>
<1>2. todo["main"] = Cat(a, <<Op("thread", 0)>>) /\ todo["worker"] = <<>>
  BY DEF Init, Threads, Cat
<1>3. a \in Calls
  BY CallLists, JobCalls
<1> HIDE DEF a
<1>4. StartInv
  BY <1>2, <1>3, CallsThen DEF Init, StartInv
<1>5. WorkInv
  <2>1. Len(todo["worker"]) = 0 /\ ~busy
    BY <1>2 DEF Init
  <2>2. Ends(todo["worker"], "done")
    BY <2>1 DEF Ends
  <2> QED
    BY <1>2, <2>1, <2>2 DEF WorkInv
<1>6. SleepInv
  BY DEF Init, SleepInv
<1> QED
  BY <1>1, <1>4, <1>5, <1>6 DEF WakeInv

\* Every step keeps it.
LEMMA WakeInductive ==
  ASSUME WakeInv, [Next]_vars
  PROVE  WakeInv'
<1>0. Inv'
  BY Inductive DEF WakeInv
<1>1. CASE \E t \in Threads : Directory(t)
  BY <1>1, DirectoryWake
<1>2. CASE Keepalive \/ Stale \/ HandleRtcp \/ HandleRtp \/ Unlock \/ DeferredReply
  BY <1>2, LoopWake
<1>3. CASE Tick \/ Poll \/ SetTalkerName
  BY <1>3, IdleWake
<1>4. CASE ThreadStart \/ WorkerTop \/ WorkerDone
  BY <1>4, WorkerWake
<1>5. CASE WritePcm \/ WriteLoop \/ FlushPcm \/ ClearRemoteTalker \/ PollDown
  <2>1. /\ UNCHANGED <<todo, on, asleep, exited, job, busy, stop>>
        /\ phase' \in {phase, "run", "write"} /\ (phase' # phase => phase \in {"run", "write"})
    BY <1>5 DEF WritePcm, WriteLoop, FlushPcm, ClearRemoteTalker, PollDown, Idle, control
  <2> QED
    BY <1>0, <2>1, OutsideWake
<1>6. CASE Stop \/ Join
  <2>1. todo' = todo
    BY <1>6 DEF Stop, Join
  <2> QED
    BY <1>0, <1>6, <2>1, OutsideWake
<1>7. CASE (\E d \in Datagrams : ConfReceives(d)) \/ ConfTalks \/ Fault \/ ProxyLost
                \/ Second \/ UNCHANGED vars
  <2>1. UNCHANGED <<todo, on, asleep, exited, job, busy, stop, phase>>
    BY <1>7 DEF ConfReceives, ConfTalks, Fault, ProxyLost, Second, vars, control
  <2> QED
    BY <1>0, <2>1, OutsideWake
<1>8. "main" \in Threads /\ "worker" \in Threads
  BY DEF Threads
<1> QED
  BY <1>1, <1>2, <1>3, <1>4, <1>5, <1>6, <1>7, <1>8 DEF Next, Main, Worker, Bridge

(* No wake-up is lost between the loop and the worker, however they        *)
(* interleave.  A job that el_dir_schedule has put down, or dir_stop, never *)
(* finds the worker asleep or gone; peer_el_close never joins a worker that *)
(* was not told to stop; and dir_busy is set exactly while the worker has   *)
(* something left to do, so a job is refused only then.  With the threads   *)
(* running this is why a job gets done and closing ends (LoopRuns).         *)
THEOREM NoLostWakeup ==
  Spec => []( /\ job # "NONE" /\ ~stop => ~asleep /\ ~exited
              /\ stop => ~asleep
              /\ phase = "join" => exited \/ stop
              /\ busy <=> todo["worker"] # <<>> )
<1>1. Init => WakeInv
  BY InitiallyAwake
<1>2. WakeInv /\ [Next]_vars => WakeInv'
  BY WakeInductive
<1>3. WakeInv => /\ job # "NONE" /\ ~stop => ~asleep /\ ~exited
                 /\ stop => ~asleep
                 /\ phase = "join" => exited \/ stop
                 /\ busy <=> todo["worker"] # <<>>
  BY DEF WakeInv, WorkInv, SleepInv
<1> QED
  BY <1>1, <1>2, <1>3, PTL DEF Spec
=============================================================================
