# A TLA+ model of adn-bridge (ysf2dmrcon)

`ysf2dmrcon` is a voice bridge between a YSF reflector, a DMR master (Homebrew
protocol) and EchoLink. One process runs one of three modes, `ysf-dmr`,
`echolink-dmr` or `echolink-ysf`, in a single-threaded loop of 5 ms polls
(`ysf2dmrcon.c`); in the EchoLink modes a second thread talks to the EchoLink
directory, directly or through a proxy, and an external vocoder turns PCM into AMBE.
Several such processes may share one directory of subscriber files. The modules here
model the control logic of the program: who has the call, what is queued, which
frames go out in which order, how links come and go, and what threads and processes
do to each other. Voice bits, names and formatting are abstracted away.

## 1. Inventory

| Component | State it keeps | Operations | Interacts with | What is hard | What makes it correct |
|---|---|---|---|---|---|
| Bridge (`bridge.c`) | `call_active`, stream id, talker id, superframe counter, VHEAD gate, connect-PTT record | `bridge_on_dmrd`, `bridge_on_ysfd`, `bridge_tick` | both peers' link status, ModeConv lanes | two networks share one call flag, one stream id and one converter; connect PTT shares the uplink | every call is announced, ended and forgotten; streams on the uplink are well formed |
| ModeConv (`mmdvm/`) | two rings of tagged units, two counters | put header / voice / EOT, get, reset | the three bridges | frame sizes 3 and 5, padding by counter, overflow clears the ring but not the counter | the EOT comes out, as an EOT |
| DMR peer (`peer_dmr.c`) | connection state, its copy, login phase, two clocks | tick, poll, alarm, SIGINT | the DMR master | lost, late and repeated answers; answers that name no request; master restarts; truncated seconds, a loop that is held up | a session is registered, kept, and renewed when lost |
| YSF peer (`peer_ysf.c`) | linked, reconnect_pending, last_rx | tick, poll, alarm, SIGINT | the YSF reflector | loss, restart, truncated seconds, a `sleep(1)` in the loop | the link survives a loss and comes back |
| EchoLink-YSF bridge (`bridge_el.c`) | `call_active`, `ysf_ending`, AMBE buffer, four clocks | `process_el_to_ysf`, `on_ysfd`, `tick` | EchoLink peer's PCM ring, vocoder, ModeConv | half-duplex slot, preemption while an end is being paced | an ending call ends; the slot is given back |
| EchoLink-DMR bridge (`bridge_el.c`) | `call_active`, `dmr_ending`, stream ids, connect PTT | `process_el_audio`, `on_dmrd`, `tick` | the same, and the DMR peer | the same, plus connect PTT on the same uplink | a well-formed uplink; a paced end ends |
| EchoLink peer (`peer_echolink.c`) | peer address, link, talker, keepalive clocks, directory job, output PCM buffer | open, tick, poll, write/flush PCM, close, directory worker | proxy, directory, conference, EL bridges | two threads and two mutexes, callbacks under a mutex, directory operations that block, a conference that restarts or moves | the loop runs; the conference keeps us; the link comes back; no talker without a link |
| EchoLink proxy (`el_proxy.c`) | one TCP connection, its mutex, state and buffer of the directory channel | ensure, poll, tcp_open / write / read / close | EchoLink peer, both threads, the proxy | two threads read one connection for each other; frames do not say which channel they belong to; a back-off that failed sends start anew | a reader gets its own channel's bytes, all of them, in order |
| Vocoder client (`vocoder_remote.c`) | ready, failure count, the exchange in progress | open, encode, decode, recover the rate, close | EL bridges, the emulator and its other clients | answers that name no request arrive late; another client changes the rate | a late answer is forgotten; the rate is restored |
| Aliases (`aliases.c`) | files and lock files in a shared directory, tables, file times | load, download under a lock, refresh, hot swap | bridges, other processes, a web server | several processes, a lock that is looked at, unlinked and created in three steps, crashes, files of different versions | what is loaded is whole; a refresh ends; tables become current |
| Codecs (`hbp/`, `ysf_fich.c`, `mmdvm/YSF*`) | tables | encode, decode | bridges | bit-level arithmetic | not modelled: no control state |
| Config, log, talker alias, vendored gsm and yyjson | - | - | - | - | not modelled |

The hazards, each at its source line and with the properties that cover it, are
listed in `PROJECT.json`.

## 2. Modules

| Module | Models | Extends |
|---|---|---|
| `PeerUdp` | what both UDP clients have: the alarm, the seconds, how late the loop may be, and UDP | - |
| `PeerDmr` | the Homebrew client against an external master and network | `PeerUdp` |
| `PeerYsf` | the YSF client against an external reflector and network | `PeerUdp` |
| `ModeConv` | a lane of the converter: constant-level operators on `[buf, n]` | - |
| `ModeConvLane` | one lane with a producer and the paced consumer | `ModeConv` |
| `Bridge` | mode `ysf-dmr` | `ModeConv` |
| `BridgeEl` | what both EchoLink modes have in `bridge_el_t`: the slot, the PCM ring, the timers | `ModeConv` |
| `BridgeElYsf` | mode `echolink-ysf` | `BridgeEl` |
| `BridgeElDmr` | mode `echolink-dmr` | `BridgeEl` |
| `PeerEl` | the EchoLink peer: main loop, directory worker, conference | - |
| `DirStream` | abstract: what a directory connection promises its reader | - |
| `ElProxy` | the proxy connection, used by both threads; instantiates `DirStream` | - |
| `VocoderRemote` | the vocoder client against an external emulator | - |
| `Aliases` | several processes with one data_dir, a web server and crashes | - |
| `MCPeers` | both UDP clients for TLC, one of which exists | `PeerDmr`, `PeerYsf` |
| `MCBridge` | `Bridge` for TLC, with talkers on one network at a time | `Bridge` |
| `MCBridgeEl` | the two EchoLink bridges for TLC, in one of the two modes | `BridgeElDmr`, `BridgeElYsf` |
| `MCPeerEl` | `PeerEl` for TLC, in two scenarios | `PeerEl` |
| `PeerDmrProofs` | theorems about `PeerDmr` and `PeerYsf` | `PeerDmr`, `PeerYsf` |
| `ModeConvProofs` | lemmas about the lane operators, theorems about `ModeConvLane` | `ModeConvLane` |
| `BridgeProofs` | theorems about `Bridge` | `Bridge`, `ModeConvProofs` |
| `BridgeElProofs` | theorems about `BridgeElDmr` and `BridgeElYsf` | `BridgeElDmr`, `BridgeElYsf`, `ModeConvProofs` |
| `ElProxyProofs`, `PeerElProofs`, `VocoderRemoteProofs`, `AliasesProofs` | theorems about the module of that name | it |

**How state and actions correspond to the code.** Each variable's comment names
the C field. Each action's comment names the function (and the branch of it); a
handler that returns early in one case is a disjunct or a guard. Definitions that
begin with the comment "Fault:" are deliberately wrong variants of the definition
that follows them; `PROJECT.json` pairs each with the property it has to break.

* `PeerDmr`, `PeerYsf`: the code compares stamps of `time(NULL)`, so an age is the
  number of boundaries of a second between two readings, and `Second` is one boundary. One
  may pass at any point, between a ping and its answer as well, however fast the
  answer is, and several while the loop is held up by a download of the alias files or
  the `sleep(1)` of a reconnection: `late` counts those that have passed while something was
  due or on its way, and `MaxLate` bounds them each time. The alarm is a clock of its
  own; alarms that come while the loop is held up are one. A period of the kernel's alarm
  that drifts over a boundary counts as one second of being late. The two networks
  are bounded FIFOs that lose what does not fit; loss, duplication, rejection and
  restarts are faults. `faults` counts those that have happened, kind by kind: the
  properties that only hold in the absence of some kind say so.
* How much a session survives is `Silence(lost) <= TIMEOUT`, with `Silence(lost) =
  ALARM * (1 + MaxLate \div ALARM) * lost + ALARM + MaxLate`. With the code's 5 s and 30 s
  and `MaxLate = 1`, a loop and a network that lose no time but sit astride a boundary,
  four lost datagrams are harmless and the fifth may end the session; a loop held up for 26
  seconds may lose it without any loss. With the YSF client's 5 s and 10 s a single loss
  may unlink, and so may a loop held up for 6 seconds. An alias download may take that
  long, see section 5.
* `ModeConv`: the ring and the counter are kept apart as in the code, because
  `addData` clears a full ring without the counter knowing. `PutData` states what
  k single puts do.
* `Bridge`, `BridgeElDmr`: `up` is a history variable, the frames the last sending
  step sent, so that the order of frames across steps is an action property.
  A tick in which several timers have elapsed is the sequence of its steps.
  Stream ids are drawn so that an id in use is not drawn again (30 random bits in
  the code). In `Bridge` the value "dropped" of `down` is a mark in the history of what
  went to the reflector: a call has been opened whose header the VHEAD gate swallowed.
* `BridgeElYsf`, `BridgeElDmr`: a timer is the Boolean "its time is over" and may
  run out at any moment. The PCM ring is a counter of 20 ms frames; the vocoder
  fails on any subset of them.
* `PeerEl`: a thread is the sequence of operations it has yet to do, each of them the
  stretch between two points where the other thread may come in (`dir_mu`,
  `proxy.mu`, a blocking directory connection). A called function puts its
  operations in front. `proxyMu` is modelled because `el_proxy_poll` calls back while
  it holds it; `dir_mu` never is held across two operations. Datagrams in flight are
  sets: within the second they take, a repeated one says nothing new. A second may also pass
  while the loop is held up between two ticks (`HeldUp`, at most `MaxHeld` each time): by the
  alias files, by the connection `el_proxy_ensure` makes, by the vocoder. Of the
  proxy's connection `px` says whether it is there and `backIn` when the next attempt is
  allowed; every send without it starts the back-off anew (`SendUdpRtcp`, `RtpSent`), as
  `mark_disconnected_locked` does.
* `ElProxy`: it begins with the connection `el_proxy_open` has made, and leaves open how long
  the back-off lasts; that is in `PeerEl`. A step is what happens between two points where `px->mu` is free. Frames
  carry the number of the channel they belong to as history; the client's decisions
  never look at it, only the refinement mapping does.
* `VocoderRemote`: a message in flight carries, as history, whether it belongs to the
  request being waited for. An exchange is its `Send` (drain, then sendto) and one of
  the steps that end it: an answer, or the timeout.
* `Aliases`: a process stops wherever it looks at or changes what others share, and
  may crash there. A file is the version of the server's data it holds, or `Junk`.

**Refinement.** `ElProxy!Stream` instantiates `DirStream` with `open` = the worker is
in an operation, `got` = what `el_proxy_tcp_read` has returned, and the directory's
side of connection `sess`. The promise is made to a connection that came up on its
own TCP_STATUS (`bound = sess`): to another one nothing is promised, and its `got` is
mapped to the empty sequence. The property is `IsDirStream`.

## 3. Runs

Expected to pass:

| Run | Question | Distinct states |
|---|---|---|
| `Peers_session` | login, keepalive, re-login of both clients, a loop late by up to two seconds: is a completed login one the master holds, which losses and delays does a session or a link survive, does either client always come back? | 405 957 |
| `Lane_step` | do ring and counter stay related when the consumer stands still and the ring overflows; does the EOT come out while both sides keep step? | 72 655 |
| `Bridge_calls` | calls of two DMR streams with lost and repeated VHEADs and VTERMs, or YSF calls, with connect PTT, aborts and flapping links: is each call announced after the last one's end, is anything of it left afterwards, is the uplink well formed, do calls and PTTs end? | 222 798 |
| `BridgeEl_calls` | both EchoLink bridges: the half-duplex slot with preemption, re-headers, vocoder failures, connect PTT and link losses: is a call announced, well formed on the uplink, drained; does a dead stream give the slot back? | 292 544 |
| `PeerEl_link` | with a proxy and a worker, and directly without one, the loop held up now and then: does the loop keep running, does the conference keep us, does the link come back after a loss, a failed look-up or a restart elsewhere? | 510 249 |
| `ElProxy_dir` | three directory connections one after the other, a lost proxy, a full buffer: does each reader get its own stream, and does each operation end? | 716 530 |
| `Vocoder_exchange` | losses, late answers, another client's rate: whose answer does a request get, is the rate restored? | 26 052 |
| `Alias_refresh` | two processes, two versions, a crash, a spoilt transfer, an outage or a deleted file: is what is loaded whole, does every call end, do the tables become current? | 102 087 |

Expected to fail, a disagreement between the code and what the repository says of it
(quoted in `PROJECT.json`, "findings"):

| Run | What it shows |
|---|---|
| `Peer_forgotten` | a DMR master that has restarted and answers pings with MSTNAK keeps the client CONNECTED: it never logs in again |
| `Bridge_dropped` | after a lost VTERM the VHEAD of the next stream is dropped as a duplicate: its voice goes to YSF unannounced |
| `ElYsf_preempt` | a YSF call that preempts an EL call leaves `ysf_ending` set: EL -> YSF is dead from then on |
| `PeerEl_proxy` | the keepalive of a resolved peer starts the proxy's back-off anew each time: a lost proxy is never connected again |

**What the MC modules restrict.** `MCPeers` takes one client or the other; in mode
`ysf-dmr`, where both run, they share the alarm and the loop that is late for both, and
each does what it does alone. `MCBridge` has talkers on one network at a time, picked at
the start, with the link towards the listeners flapping; both at once is covered by the
theorems that say so. `MCBridgeEl` picks the mode of `bridge_el_t`. `MCPeerEl` is either about
talk (voice, talkers, RTP in both directions, with a loop that is not held up, a
proxy that stays and a conference that does not move) or about the path to the
conference (a loop that is held up, a lost proxy, a conference that moves, heard of by
its SDES alone). All others are checked as they are.

**Bounds.** `MaxNet` (peers, vocoder): three datagrams in flight per direction hold
every step of a handshake, a ping, or three unanswered requests. `Peers_session` scales
the periods down (an alarm every 2 s, 8 s to a time-out): with `MaxLate = 2` alarms
fall together, `Silence(1)` is just the time-out, and the second loss of the three faults
ends a session; the four answers of a login fit into its time (`Prompt`).
`MaxFaults`, over all kinds together: three here, and what the vocoder's failure
counter counts to; in `PeerEl`, `ElProxy` and `Aliases` one fault at every possible
place. `MaxQueue` and `MaxYsf` hold a header, a frame of the incoming size and the padded EOT
where every residue of both group sizes has to occur; the capacities are either out of
reach (20, 30) or small enough to overflow (12). `MaxPcm` lets three vocoder failures
follow a good frame. `MaxRx` ends the traffic of a talker: a release that waits for a
talker to stop is checked after he has. Three own stream ids suffice because at most
two are in use when a third is drawn. `PeerEl` uses short periods in the order of the
code's (`EL_SDES_INTERVAL` below the stale and the conference's time-out, directory
operations that take up to an interval, a loop held up for as long, a back-off longer than
the keepalive's interval), one block per RTP packet, and two addresses.
`ElProxy`: an answer of three chunks exceeds the buffer of two, and with three
channels a frame of the first may meet the third. `Aliases`: two attempts, two
versions, so that checksum and subscriber file can be of different ones.

**Step.** The converter is written for a consumer that has sent a call's header by
the time the EOT is put; the code does not enforce it. In `ModeConvLane` the history
variable `steady` says whether it has been so, and `EotIntact` is conditional on it.
In `Bridge` and `BridgeElYsf` the constant `Steady` restricts the environment in the
same way.

**Deadlock** is checked for the EchoLink bridges. The other runs allow the system
to stop: after SIGINT or close (peers, vocoder), or when the bounds leave no input to
give.

**Fairness.** Nobody is obliged to talk, to lose a datagram or to fail; servers, when
up, answer.

* Bridges and peers: the main loop comes round, if late, so a timer that stays due is
  served (weak fairness of tick actions). Steps that a link loss can disable again are
  strongly fair in `Bridge` and `BridgeElDmr`: a link that comes back stays up longer
  than the 60 ms such a step waits. `Second` is strongly fair: traffic does not stop
  the clock.
* `PeerEl`: both threads run (weak fairness of `Main`, `Worker`), the loop keeps
  calling tick and poll between other work (strong fairness), datagrams arrive, and
  time passes (`Second`, strongly fair).
* `ElProxy`: the worker thread runs; its waits have deadlines.
* `VocoderRemote`: the client runs, the emulator answers, there is always more to
  encode until the program ends (strong fairness of `Encode`). `KeepsUp` says that from
  some time on the emulator answers within the time-out: an emulator that never does
  gives the client nothing to learn the rate from.
* `Aliases`: a process that runs goes on; the main loop calls the refresh once a minute
  and a day passes again and again (strong fairness, as other steps come in between);
  a request for the checksum file is answered if the server stays reachable often
  enough; a lock nobody touches grows stale.

## 4. Proofs

All proofs are for every value of the constants that satisfies the named
assumptions. `[]Inv` is proved from an inductive invariant that holds initially and
is kept by every action, one lemma per action or group of actions; an action property
follows from the same invariant. TLC checked each inductive invariant, with
several settings of the constants, before it was proved. Where two modules are extended
by one proof module, the definitions of the YSF one that would have the same name begin
with `Ysf` (`YsfTypeOK`, `YsfSpec`).

**The two clients, `PeerDmrProofs`.**

* `TypeCorrect`, `StatusAlwaysAgrees`, `PhaseAlwaysAgrees`, `HoldoffAlwaysSilent`: one
  invariant `IInv` of the type, the agreement of the copies, and that a hold-off is only
  set on the way to DISCONNECTED.
* `LoginAlwaysRegisters` and `SessionsNeverTimeOutSpuriously` (`ConnectedIsRegistered`,
  `NoSpuriousTimeout`), under `Prompt`. RPTACK names no request, so both need to know what
  is in flight: `SessionInv` says that, as long as nothing was duplicated and the master
  did not restart, a request of the handshake is the last datagram out, belongs to the
  client's phase and is unanswered; an answer is the last datagram in, with nothing on
  its way out, and says what the master holds; a client that is about to start a login
  has none of either in flight, which is what `Prompt` is needed for; and the silence is
  bounded by `Silence` of the datagrams lost. For that the invariant pairs the silence with
  the alarm (`Within`, `Paired`): how old it may be when a ping is due, under way, or
  answered, given how late the loop has been since.
* `YsfTypeCorrect`, `LinksSurviveLoss` (`SurvivesLoss` of `PeerYsf`): the same account of
  the silence, here through restarts as well. A poll that a full channel drops does
  no harm, because the channel then holds another poll, or a datagram of a
  reconnection made in this very second.

**Lanes, `ModeConvProofs`.** What the lane operators return and how they move the
counter and the ring, used for every bridge; `CountAlwaysCoversRing` through every
overflow, and `EotAlwaysIntact`. The invariant of the second says that, while both
sides keep step, ring and counter agree, that an EOT stands at a position that is 1
modulo the group size with only voice before it, and that a header is only ever at the
head. `EotIntact` alone is not inductive: taking a frame shifts every position.
`EotNeverStuck` reads the same invariant from the consumer's side: before a queued EOT
`get` never says "no data", and each call of it brings the EOT one group nearer.

**Bridges, `BridgeProofs` and `BridgeElProofs`.**

* `Bridge`: `TypeCorrect`, `AlwaysCleanWhenIdle`, `AlwaysClearedByBridge`, with both
  networks talking at once. The invariant adds that the talkgroup of the connect PTT is
  4000 only while it is active, and that no talker id is set then; this needs
  `IdleIsClean`, because the connect PTT starts only between calls.
* `Bridge`: `UplinkAlwaysWellFormed`, for a bridge nobody calls from the DMR side and a
  ring that holds what talkers send ahead (`MaxQueue <= CapDmr`; a ring that overflows
  is cleared in the middle of a superframe). The invariant relates the last
  frame sent to the stream id, the superframe counter and the phase of the connect PTT.
* `Bridge`: `HeaderAlwaysAfterTerminator`, for a bridge nobody calls from the YSF side and
  under the same condition on the other ring, with any number of streams that come one
  after the other or interrupt each other. The one exception, a call whose own header the
  gate dropped (section 5), is in `TerminatorThenHeader`, and `Bridge_dropped` shows
  it. Between a terminator and the next header any other call has its header at the head of
  the lane.
* `Bridge`: `PttNeverStuck`, with both networks talking. A connect PTT has at most three
  stages left (the header of the follow-on stream, and the finish of either stream); one
  of the steps that end a stage is always due and none adds one. That `PttFinish` finds
  a fresh stream id rests on `SameStream`: the frames of the last sending step are all of
  one stream, so at most two ids are in use.
* `Bridge`: `CallEndNeverStuck`, with both networks talking, under `Steady` and rings that
  hold what is sent ahead. A lane is `Due` when an EOT in it stands at a place that is 1
  modulo the group size behind voice only; then the emitter of that lane always has a
  frame to take, and only the end of the call or its takeover removes the EOT.
* `BridgeElDmr`: `TypeCorrect` and `UplinkAlwaysWellFormed`, without any hypothesis:
  preemption, connect PTT, link loss and an overflowing lane included. `EndNeverStuck`:
  only an EL call is ever ending, and every step finishes it, pads its superframe by one
  of the at most five bursts left, or leaves the padding alone.
* `BridgeElYsf`: `YsfTypeCorrect` and `HeaderAlwaysFirst`. The invariant says that ring and
  counter agree and that, while the reflector has heard nothing of the call, its header is
  at the head of the lane.
* `BridgeElYsf`: `DrainNeverStuck`, under `Steady`: a call that ends while it has the slot
  always has a frame or its EOT to send, each one leaves less, and nothing is queued
  behind. The invariant says that until its EOT is queued the lane of a call holds
  headers and whole YSF frames only (`Whole`), so that it is empty when the emitter finds
  nothing more to send, and that the EOT is then `Due`. `LostSlotIsForever`: after the
  preemption of the finding no step clears `ysf_ending`; the run shows one behaviour, the
  theorem every continuation of it.

**The EchoLink side.**

* `ElProxyProofs`: `TypeCorrect`, and `ImplementsDirStream`, the refinement: every
  step of `ElProxy` is one step of `DirStream` or leaves its variables alone. It needs
  an invariant about what is on the wire. Frames in either direction are in the order
  of their channels, an OPEN is later than anything that has come back, and a channel
  that has not been opened has not answered; so when a TCP_STATUS brings up its own
  channel (`bound = sess`), nothing of an earlier one is left behind it. From then on
  what was read, what is buffered and what is on the wire are the channel's chunks in
  order; none is missing while the channel is up or before its TCP_CLOSE; and a reader
  that finds the channel gone but the proxy connected has them all, which is why its
  end of file is true.
* `PeerElProofs`: `TypeCorrect`, `TalkerAlwaysNeedsLink` and `NeverWaitsForItself`, for
  every setting of the timers. The invariant says which lists of operations the loop
  can have: none while it writes or waits for the worker, and only the rest of
  `peer_el_poll` while it holds the mutex of the proxy; and that an address in a list is
  one the directory gave.
* `PeerElProofs`: `AlwaysKeptAlive` (`KeptAlive`), under `Patient`: the conference's
  time-out is longer than `MaxFaults + 1` gaps between keepalives. A gap is
  `EL_SDES_INTERVAL` plus the time the loop may be held up, or the time of a directory
  operation if that is longer and the loop may have to do one itself. With the code's
  5 s, the 40 s of a conference (`peer_echolink.c:178`, `:30`), a worker, and a loop that
  is not held up, six losses are tolerated, however long the directory takes; a loop
  held up for up to 14 s leaves room for one loss, and one held up for 35 s
  may be dropped without any; without a worker the 20 s time-out of
  the directory leaves room for none. A lost proxy excepts all this (`cut`): what is sent
  meanwhile goes nowhere, and by `PeerEl_proxy` for ever; `CutInv` says that nothing else
  takes the proxy from a client that has not been closed. The
  invariant `AliveInv` gives the order of operations within a list, says that the worker
  only exists after `peer_el_open` and that the loop blocks only before it knows an
  address or where there is no worker, that whatever makes us a member was sent to the
  address the peer has, that after a tick no SDES is due, and bounds the
  conference's wait by the losses so far and the age of the last SDES.
* `PeerElProofs`: `NoLostWakeup`, the other safety half of `LoopRuns`. `dir_job`, `dir_busy`
  and `dir_stop` are written by both threads; the invariant `WakeInv` says that the
  list of `peer_el_open` ends with the start of the worker, which no later list has,
  and that the worker's list ends with the operation that clears `dir_busy`. So a worker
  that sleeps has neither a job nor an order to stop, closing joins only a worker that was
  told to stop, and a job is refused only while another is in hand.
* `VocoderRemoteProofs`: `TypeCorrect` and `LateAnswersAlwaysForgotten`. The invariant
  extends the property from the client's socket to both directions: after a request
  sent with nothing outstanding, everything on its way belongs to it.

**Aliases, `AliasesProofs`.** `TypeCorrect` and `FilesAlwaysComplete`, for any number of
processes, versions and crashes. The invariant adds what a process holds on to between
two steps: a temporary file on the point of being renamed has been verified, and
what `aliases_build` has read is a version of the server's file.

**Only model-checked:** the liveness properties, whose fairness and ENABLED are beyond
the prover (`EventuallyConnected`, `RegistrationRenewed`,
`EotDelivered`, `CallEnds`, `PttEnds`, `DrainEnds`, `SlotReleased`, `EndingEnds`,
`LoopRuns`, `LinkRecovers`, `OperationEnds`, `RateRestored`, `RefreshEnds`,
`Converges`). For `EotDelivered`, `CallEnds`, `PttEnds`, `DrainEnds`, `EndingEnds` and
`LoopRuns` the part of the argument that is not about fairness is proved, under the
hypotheses given above: the work that is left is bounded, the steps that fairness is
assumed of make it less, their guards hold where the code needs them to, and no other
step adds to it. Every invariant and every action property of a passing run is a theorem,
`KeptAlive` and those of `Bridge` on frame order under the hypotheses above.

## 5. Known limits of the code

Behaviour of the code that was met while modelling and that bounds what can be
claimed; where a property excludes it, its definition says so.

* The four findings above. The registration comes back by itself where the master ignores
  a stranger's ping (`NakUnknown = FALSE`, the setting of `Peers_session`).
* `PeerDmr`, `PeerYsf`: what is not `Silence` away from the time-out is not promised: see
  the numbers in section 2. A late answer (`Prompt`) or a repeated one may complete a login
  that the master does not hold.
* `ModeConv`: an EOT put while the call's header is still queued is swallowed inside a
  voice frame (the condition `steady`).
* `Bridge`: a VTERM in the middle of a YSF call sends a terminator that no header
  announced; `TerminatorThenHeader` is checked, and proved, with talkers on one network at
  a time. A DMR call that begins during a connect PTT overwrites `dmr_stream_id`, and
  the PTT goes on under the other station's stream id (`bridge.c:703`): `UplinkWellFormed`
  excepts the steps in which the stream id is not one of the bridge's own.
* `PeerEl`: once a connection to the proxy is lost, `KeptAlive` and `LinkRecovers` promise
  nothing more. A proxy that dies without a word is noticed by TCP alone, which may take
  minutes; that is not modelled. `peer_el_write_pcm` loops while its buffer is full and the
  peer's address unknown (`Hung`). An SDES for a new talker name postpones the keepalive, and with
  it the OPEN that only the keepalive sends.
* `ElProxy`: after a time-out of `el_proxy_tcp_open`, or a TCP_CLOSE that crosses one,
  the channel state is DISC, so that the next open does not close the proxy's channel
  first; a late TCP_STATUS is then taken for the new channel's (`bound # sess`). UDP
  frames that the worker reads while it waits for the directory are lost; `PeerEl`
  counts them as lost datagrams.
* `Aliases`: a load that fails when the program starts is not tried again;
  `Converges` is about processes that have a table. Two processes that find the same
  stale lock may both download: the second unlinks the first one's new lock.
  `FilesComplete` and `Converges` hold all the same. A download blocks the main loop
  for as long as its attempts take: that is `late` in `PeerUdp` and `held` in `PeerEl`.

## 6. Not modelled, and the plan

Not modelled for good, having no control state that a property could be about: the
frame codecs (`hbp/`, `ysf_fich.c`, `mmdvm/YSFPayload.cpp`, convolution, Golay and CRC
tables), the vocoder's bit interleaving, GSM, SDES and station-list text, alias hash
tables and look-ups, talker-alias text, configuration, logging, vendored libraries.
Left out of modelled components: `p->status` of the EchoLink peer (nothing reads it),
its input PCM ring (a counter in the EL bridges), the lock of the checksum file (its
download is one step), the YSF frame counter, a byte that wraps.

What would come next:

1. `Bridge` extended with the identities of the two directions, and with the stream id of
   the connect PTT kept apart, for the hazards without a property in `PROJECT.json`.
2. The safety halves of the remaining liveness properties (`OperationEnds`,
   `RateRestored`, `RefreshEnds`, and those of the two clients).

An abstract half-duplex slot that both EchoLink bridges would implement is not written:
`HeaderFirst` and `UplinkWellFormed` already say what it would promise, and in mode
`echolink-ysf` the finding breaks it.
