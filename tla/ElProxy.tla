------------------------------ MODULE ElProxy ------------------------------
(***************************************************************************)
(* The EchoLink proxy client of src/el_proxy.c.  One TCP connection to the *)
(* proxy carries two things at once: the UDP frames of the conference, and *)
(* one TCP channel to a directory server that the proxy opens on request.  *)
(*                                                                         *)
(* Two threads use it.  The main loop polls the connection and keeps it up *)
(* (el_proxy_poll, el_proxy_ensure); the directory worker opens a channel, *)
(* writes a request, reads the answer and closes the channel.  Every       *)
(* operation holds px->mu except while it waits, so a step here is what    *)
(* happens between two points where the mutex is free.  Either thread      *)
(* reads the next frame for both.  A drain reads until the socket is       *)
(* empty; as frames may arrive at any time, reading them one by one allows *)
(* the same interleavings.                                                 *)
(*                                                                         *)
(* The proxy and the directory servers are external: they are modelled     *)
(* from what the client expects of them.  The proxy has one channel; a     *)
(* TCP_OPEN replaces it and is answered with TCP_STATUS.  A server answers *)
(* a request and closes.  Frames carry, as history, the number of the      *)
(* channel they belong to, which the real frames do not.                   *)
(***************************************************************************)
EXTENDS Naturals, Sequences

CONSTANTS
  Chunks,     \* bound: chunks of a directory's answer
  RxCap,      \* EL_PROXY_DIR_RX_CAP, in chunks
  MaxSess,    \* bound: channels opened in a behaviour
  MaxFaults,  \* bound: connections to the proxy lost or refused
  MaxNet      \* bound: frames in flight towards the client

ASSUME ElProxyAssumption ==
  /\ Chunks \in Nat \ {0}
  /\ RxCap \in Nat \ {0}
  /\ MaxSess \in Nat \ {0}
  /\ MaxFaults \in Nat
  /\ MaxNet \in Nat \ {0}

VARIABLES
  ready,    \* px->ready and px->fd >= 0
  backoff,  \* reconnect_pending and now < next_reconnect
  tcp,      \* px->tcp_state
  rx,       \* px->dir_rx between dir_rx_r and dir_rx_len
  pc,       \* what the worker is doing
  sess,     \* history: number of the channel the worker asked for last
  bound,    \* history: the channel whose TCP_STATUS made tcp_state CONNECTED
  got,      \* history: chunks el_proxy_tcp_read has returned
  eof,      \* history: the reader saw the directory's end of file
  up,       \* the proxy has its end of the connection open
  out,      \* frames on their way to the proxy
  net,      \* frames on their way to the client
  conn,     \* the channel the proxy has open, 0 for none
  asked,    \* a request has been forwarded on that channel
  sent,     \* chunks each directory connection has sent
  closed,   \* which directory connections their server has closed
  faults    \* connections to the proxy lost or refused so far

client == <<ready, backoff, tcp, rx, pc>>
history == <<sess, bound, got, eof>>
server == <<conn, asked, sent, closed>>
vars == <<client, history, up, out, net, server, faults>>

Sess == 1..MaxSess

Frame(t, s, i) == [type |-> t, s |-> s, i |-> i]

ToClient == [type : {"STATUS_OK", "STATUS_FAIL", "DATA", "CLOSE", "UDP", "SYSTEM"},
             s : 0..MaxSess, i : 0..Chunks]
ToProxy  == [type : {"OPEN", "DATA", "CLOSE"}, s : 0..MaxSess, i : {0}]

TypeOK ==
  /\ ready \in BOOLEAN
  /\ backoff \in BOOLEAN
  /\ tcp \in {"DISC", "CONNECTING", "CONNECTED"}
  /\ rx \in Seq(Sess \X (1..Chunks))
  /\ Len(rx) <= RxCap
  /\ pc \in {"idle", "opening", "opened", "reading", "closing"}
  /\ sess \in 0..MaxSess
  /\ bound \in 0..MaxSess
  /\ got \in Seq(Sess \X (1..Chunks))
  /\ eof \in BOOLEAN
  /\ up \in BOOLEAN
  /\ out \in Seq(ToProxy)
  /\ net \in Seq(ToClient)
  /\ conn \in 0..MaxSess
  /\ asked \in BOOLEAN
  /\ sent \in [Sess -> 0..Chunks]
  /\ closed \in [Sess -> BOOLEAN]
  /\ faults \in 0..MaxFaults

\* el_proxy_open has connected; peer_el_open gives up if it has not.
Init ==
  /\ ready = TRUE
  /\ backoff = FALSE
  /\ tcp = "DISC"
  /\ rx = <<>>
  /\ pc = "idle"
  /\ sess = 0
  /\ bound = 0
  /\ got = <<>>
  /\ eof = FALSE
  /\ up = TRUE
  /\ out = <<>>
  /\ net = <<>>
  /\ conn = 0
  /\ asked = FALSE
  /\ sent = [s \in Sess |-> 0]
  /\ closed = [s \in Sess |-> FALSE]
  /\ faults = 0

-----------------------------------------------------------------------------
\* send_msg_locked: what is written to a connection the proxy has given up
\* is lost.
Sent(q, m) == IF up THEN Append(q, m) ELSE q

\* mark_disconnected_locked: closing the socket also ends the proxy's side.
MarkDisconnected ==
  /\ ready' = FALSE
  /\ backoff' = TRUE
  /\ tcp' = "DISC"
  /\ rx' = <<>>
  /\ up' = FALSE
  /\ out' = <<>>
  /\ net' = <<>>
  /\ conn' = 0
  /\ asked' = FALSE

\* do_connect_auth, as el_proxy_ensure uses it.
ConnectAuth ==
  /\ ~ready
  /\ ~backoff
  /\ \/ /\ ready' = TRUE
        /\ up' = TRUE
        /\ tcp' = "DISC"
        /\ rx' = <<>>
        /\ UNCHANGED <<backoff, faults>>
     \/ /\ faults < MaxFaults
        /\ faults' = faults + 1
        /\ backoff' = TRUE
        /\ UNCHANGED <<ready, up, tcp, rx>>
  /\ UNCHANGED <<pc, history, out, net, server>>

\* RECONNECT_SEC are over, unless a failed send starts them again first.  They
\* outlast the 200 ms after which a worker that waits in el_proxy_tcp_open or
\* el_proxy_tcp_read looks again.
BackoffOver ==
  /\ backoff
  /\ pc \notin {"opening", "reading"}
  /\ backoff' = FALSE
  /\ UNCHANGED <<ready, tcp, rx, pc, history, up, out, net, server, faults>>

-----------------------------------------------------------------------------
\* Fault: the room for the new bytes is not counted.
DirRxAppendAtLimit(m) ==
  IF Len(rx) > RxCap
  THEN /\ MarkDisconnected
       /\ UNCHANGED <<sent, closed>>
  ELSE /\ rx' = Append(rx, <<m.s, m.i>>)
       /\ net' = Tail(net)
       /\ UNCHANGED <<ready, backoff, tcp, up, out, server>>

\* dir_rx_append_locked
DirRxAppend(m) ==
  IF Len(rx) + 1 > RxCap
  THEN /\ MarkDisconnected
       /\ UNCHANGED <<sent, closed>>
  ELSE /\ rx' = Append(rx, <<m.s, m.i>>)
       /\ net' = Tail(net)
       /\ UNCHANGED <<ready, backoff, tcp, up, out, server>>

\* Fault: bytes buffered before the channel is up are kept.
TcpStatusKeepsRx(m) ==
  /\ tcp' = IF tcp = "CONNECTING"
            THEN IF m.type = "STATUS_OK" THEN "CONNECTED" ELSE "DISC"
            ELSE tcp
  /\ bound' = IF tcp' = "CONNECTED" /\ tcp = "CONNECTING" THEN m.s ELSE bound
  /\ UNCHANGED rx

\* MSG_TCP_STATUS in handle_msg_locked.  tcp_status_pending is never read.
TcpStatus(m) ==
  IF tcp = "CONNECTING" /\ m.type = "STATUS_OK"
  THEN /\ tcp' = "CONNECTED"
       /\ rx' = <<>>
       /\ bound' = m.s
  ELSE /\ tcp' = IF tcp = "CONNECTING" THEN "DISC" ELSE tcp
       /\ UNCHANGED <<rx, bound>>

\* handle_msg_locked on the next frame, read by el_proxy_poll or, while the
\* worker waits for the directory, by the worker, which has no callback for a
\* UDP frame and loses it.  What a callback does is PeerEl's.
HandleMsg ==
  /\ ready
  /\ net # <<>>
  /\ LET m == Head(net) IN
       CASE m.type = "DATA" ->
              /\ DirRxAppend(m)
              /\ UNCHANGED bound
         [] m.type = "CLOSE" ->
              /\ tcp' = "DISC"
              /\ net' = Tail(net)
              /\ UNCHANGED <<ready, backoff, rx, bound, up, out, server>>
         [] m.type \in {"STATUS_OK", "STATUS_FAIL"} ->
              /\ TcpStatus(m)
              /\ net' = Tail(net)
              /\ UNCHANGED <<ready, backoff, up, out, server>>
         [] m.type = "UDP" ->
              /\ net' = Tail(net)
              /\ UNCHANGED <<ready, backoff, tcp, rx, bound, up, out, server>>
         [] m.type = "SYSTEM" ->
              /\ MarkDisconnected
              /\ UNCHANGED <<sent, closed, bound>>
  /\ UNCHANGED <<pc, sess, got, eof, faults>>

\* drain_locked at the end of what the proxy sent, or a failed send of the
\* main loop or the worker.  A send also fails when the connection has been
\* given up already, and the wait for the next one starts anew.
Disconnected ==
  /\ ~up
  /\ MarkDisconnected
  /\ UNCHANGED <<pc, history, sent, closed, faults>>

-----------------------------------------------------------------------------
\* el_dir_connect calls el_proxy_tcp_open, up to the wait for TCP_STATUS.
TcpOpen ==
  /\ pc = "idle"
  /\ ready
  /\ sess < MaxSess
  /\ pc' = "opening"
  /\ sess' = sess + 1
  /\ got' = <<>>
  /\ eof' = FALSE
  /\ tcp' = "CONNECTING"
  /\ rx' = <<>>
  /\ out' = LET q == IF tcp # "DISC"
                     THEN Sent(out, Frame("CLOSE", sess, 0)) ELSE out
            IN  Sent(q, Frame("OPEN", sess + 1, 0))
  /\ UNCHANGED <<ready, backoff, bound, up, net, server, faults>>

\* The wait of el_proxy_tcp_open is over.
TcpOpenReturn ==
  /\ pc = "opening"
  /\ tcp # "CONNECTING"
  /\ pc' = IF tcp = "CONNECTED" THEN "opened" ELSE "idle"
  /\ UNCHANGED <<ready, backoff, tcp, rx, history, up, out, net, server, faults>>

\* Fault: no deadline, the worker waits for the answer for ever.
TcpOpenForEver == FALSE /\ UNCHANGED vars

\* The deadline of el_proxy_tcp_open: the proxy is not told.
TcpOpenTimeout ==
  /\ pc = "opening"
  /\ tcp = "CONNECTING"
  /\ tcp' = "DISC"
  /\ pc' = "idle"
  /\ UNCHANGED <<ready, backoff, rx, history, up, out, net, server, faults>>

\* el_proxy_tcp_write; on failure the caller closes the channel.
TcpWrite ==
  /\ pc = "opened"
  /\ IF ready /\ tcp = "CONNECTED"
     THEN /\ out' = Sent(out, Frame("DATA", sess, 0))
          /\ pc' = "reading"
     ELSE /\ pc' = "closing"
          /\ UNCHANGED out
  /\ UNCHANGED <<ready, backoff, tcp, rx, history, up, net, server, faults>>

\* el_proxy_tcp_read returns buffered bytes, after a TCP_CLOSE too.  The reader
\* goes on (a station list) or has what it wants (the answer to a login).
TcpRead ==
  /\ pc = "reading"
  /\ rx # <<>>
  /\ \E n \in 1..Len(rx) :
       /\ got' = got \o SubSeq(rx, 1, n)
       /\ rx' = SubSeq(rx, n + 1, Len(rx))
  /\ pc' \in {"reading", "closing"}
  /\ UNCHANGED <<ready, backoff, tcp, sess, bound, eof, up, out, net, server, faults>>

\* It returns 0 when the buffer is empty and the channel gone.
TcpReadEof ==
  /\ pc = "reading"
  /\ rx = <<>>
  /\ ~ready \/ tcp # "CONNECTED"
  /\ eof' = (ready /\ bound = sess)
  /\ pc' = "closing"
  /\ UNCHANGED <<ready, backoff, tcp, rx, sess, bound, got, up, out, net, server, faults>>

\* el_proxy_tcp_read returns 0 at its deadline.
TcpReadTimeout ==
  /\ pc = "reading"
  /\ rx = <<>>
  /\ ready
  /\ tcp = "CONNECTED"
  /\ pc' = "closing"
  /\ UNCHANGED <<ready, backoff, tcp, rx, history, up, out, net, server, faults>>

\* el_proxy_tcp_close
TcpClose ==
  /\ pc = "closing"
  /\ pc' = "idle"
  /\ tcp' = "DISC"
  /\ rx' = <<>>
  /\ out' = IF ready /\ tcp # "DISC" THEN Sent(out, Frame("CLOSE", sess, 0)) ELSE out
  /\ UNCHANGED <<ready, backoff, history, up, net, server, faults>>

-----------------------------------------------------------------------------
\* The proxy takes the client's next frame.
ProxyReceive ==
  /\ out # <<>>
  /\ LET m == Head(out) IN
       \/ /\ m.type = "OPEN"
          /\ \/ /\ conn' = m.s
                /\ net' = Append(net, Frame("STATUS_OK", m.s, 0))
             \/ /\ conn' = 0
                /\ net' = Append(net, Frame("STATUS_FAIL", m.s, 0))
          /\ asked' = FALSE
       \/ /\ m.type = "DATA"
          /\ asked' = (conn # 0)
          /\ UNCHANGED <<conn, net>>
       \/ /\ m.type = "CLOSE"
          /\ conn' = 0
          /\ asked' = FALSE
          /\ UNCHANGED net
  /\ out' = Tail(out)
  /\ UNCHANGED <<client, history, up, sent, closed, faults>>

\* The directory server sends the next chunk of its answer.
DirectorySends ==
  /\ conn # 0
  /\ asked
  /\ sent[conn] < Chunks
  /\ Len(net) < MaxNet
  /\ sent' = [sent EXCEPT ![conn] = @ + 1]
  /\ net' = Append(net, Frame("DATA", conn, sent[conn] + 1))
  /\ UNCHANGED <<client, history, up, out, conn, asked, closed, faults>>

\* The directory server closes, and the proxy says so.
DirectoryCloses ==
  /\ conn # 0
  /\ closed' = [closed EXCEPT ![conn] = TRUE]
  /\ net' = Append(net, Frame("CLOSE", conn, 0))
  /\ conn' = 0
  /\ asked' = FALSE
  /\ UNCHANGED <<client, history, up, out, sent, faults>>

\* A frame of the conference.
ProxyUdp ==
  /\ up
  /\ Len(net) < MaxNet
  /\ net' = Append(net, Frame("UDP", 0, 0))
  /\ UNCHANGED <<client, history, up, out, server, faults>>

\* The proxy turns the client away (access denied), or the connection breaks
\* and what was on its way to the client is lost from some frame on.
ProxyFails ==
  /\ up
  /\ faults < MaxFaults
  /\ faults' = faults + 1
  /\ \/ /\ net' = Append(net, Frame("SYSTEM", 0, 0))
        /\ UNCHANGED <<up, out, conn, asked>>
     \/ /\ up' = FALSE
        /\ out' = <<>>
        /\ conn' = 0
        /\ asked' = FALSE
        /\ \E n \in 0..Len(net) : net' = SubSeq(net, 1, n)
  /\ UNCHANGED <<client, history, sent, closed>>

-----------------------------------------------------------------------------
Worker ==
  \/ TcpOpen
  \/ TcpOpenReturn
  \/ TcpOpenTimeout
  \/ TcpWrite
  \/ TcpRead
  \/ TcpReadEof
  \/ TcpReadTimeout
  \/ TcpClose

Next ==
  \/ ConnectAuth
  \/ BackoffOver
  \/ HandleMsg
  \/ Disconnected
  \/ Worker
  \/ ProxyReceive
  \/ DirectorySends
  \/ DirectoryCloses
  \/ ProxyUdp
  \/ ProxyFails

Spec == Init /\ [][Next]_vars

\* The worker thread runs.
LiveSpec == Spec /\ WF_vars(Worker)

-----------------------------------------------------------------------------
\* A directory connection as its reader sees it.
Stream == INSTANCE DirStream WITH
  open   <- pc # "idle",
  got    <- IF bound = sess THEN got ELSE <<>>,
  sent   <- IF sess = 0 THEN 0 ELSE sent[sess],
  closed <- IF sess = 0 THEN FALSE ELSE closed[sess]

(* A reader of the directory through the proxy gets the chunks of its own  *)
(* connection, in order, and an end of file only after the last one:       *)
(* whatever an earlier connection left in the buffer or on the wire, and   *)
(* whichever thread reads the frames (el_proxy_tcp_open, _read, _close).   *)
(* This is promised to a connection that came up on its own TCP_STATUS: a  *)
(* late answer to an open that timed out is indistinguishable from it.     *)
IsDirStream == Stream!Spec

(* A directory operation of the worker ends, whatever the proxy does.      *)
OperationEnds == (pc # "idle") ~> (pc = "idle")
=============================================================================
