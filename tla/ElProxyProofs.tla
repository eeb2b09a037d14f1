---------------------------- MODULE ElProxyProofs ----------------------------
(***************************************************************************)
(* Module ElProxy implements module DirStream, for any number of channels  *)
(* and chunks, any buffer and any failures of the proxy.                   *)
(***************************************************************************)
EXTENDS ElProxy, SequenceTheorems, TLAPS

-----------------------------------------------------------------------------
(* The inductive invariant *)

\* The directory's side: a channel number is used once, and what has not been
\* asked for has not answered.
ServerInv ==
  /\ conn <= sess
  /\ conn # 0 => ~closed[conn] /\ \A p \in DOMAIN net : net[p].s <= conn
  /\ \A s \in Sess : s > sess => sent[s] = 0 /\ ~closed[s]
  /\ ~ready => rx = <<>> /\ net = <<>> /\ out = <<>> /\ conn = 0 /\ ~up

\* Frames o to the proxy are in the order of their channels, and an OPEN is the
\* first of its channel and later than anything that has come back.
InOrder(o) ==
  /\ \A p \in DOMAIN o : conn <= o[p].s /\ o[p].s <= sess
  /\ \A p, q \in DOMAIN o : p < q => o[p].s <= o[q].s
  /\ \A q \in DOMAIN o : o[q].type = "OPEN" =>
       /\ o[q].s \in Sess
       /\ conn < o[q].s
       /\ bound < o[q].s
       /\ sent[o[q].s] = 0
       /\ ~closed[o[q].s]
       /\ \A p \in DOMAIN o : p < q => o[p].s < o[q].s
       /\ \A p \in DOMAIN net : net[p].s < o[q].s

OutInv == InOrder(out)

\* So are frames to the client, and each says what has happened.
NetInv ==
  /\ \A p \in DOMAIN net : net[p].s <= sess
  /\ \A p, q \in DOMAIN net :
       p < q /\ net[p].s # 0 /\ net[q].s # 0 => net[p].s <= net[q].s
  /\ \A p \in DOMAIN net :
       /\ net[p].type \notin {"UDP", "SYSTEM"} => net[p].s \in Sess
       /\ net[p].type = "DATA" => net[p].i \in 1..sent[net[p].s]
       /\ net[p].type = "CLOSE" => closed[net[p].s]

\* The worker's program counter against the rest.
WorkerInv ==
  /\ bound <= sess
  /\ tcp = "CONNECTING" => pc = "opening" /\ bound # sess
  /\ pc # "idle" => sess \in Sess
  /\ pc = "opening" =>
       /\ got = <<>>
       /\ sent[sess] = 0
       /\ asked => conn # sess
       /\ \A p \in DOMAIN out : out[p].type = "DATA" => out[p].s < sess
  /\ pc \in {"opening", "reading"} /\ ~ready => backoff
  /\ eof => pc \in {"closing", "idle"}

\* Chunks of its channel that the client has taken off the wire.
Taken == Len(got) + Len(rx)

\* Chunk k is on wire w, before position n.
OnWire(w, k, n) ==
  \E q \in DOMAIN w : q < n /\ w[q].type = "DATA" /\ w[q].i = k

\* Only frames of the present channel are on the wire.
WireOwn ==
  /\ conn \in {0, sess}
  /\ \A p \in DOMAIN net : net[p].s \in {0, sess}

\* What was read and what is buffered are its first chunks.
Prefix ==
  /\ \A j \in DOMAIN got : got[j] = <<sess, j>>
  /\ \A j \in DOMAIN rx : rx[j] = <<sess, Len(got) + j>>
  /\ Taken <= sent[sess]

\* The chunks on the wire go on from there, in order and without a gap.
WireOrder ==
  /\ \A p \in DOMAIN net : net[p].type = "DATA" =>
       /\ net[p].i > Taken
       /\ net[p].i = Taken + 1 \/ OnWire(net, net[p].i - 1, p)
  /\ \A p, q \in DOMAIN net :
       p < q /\ net[p].type = "DATA" /\ net[q].type = "DATA" => net[p].i < net[q].i

\* While the channel is up, and before a TCP_CLOSE, none is missing.
WireWhole ==
  /\ conn = sess => \A k \in (Taken + 1)..sent[sess] : OnWire(net, k, Len(net) + 1)
  /\ \A p \in DOMAIN net : net[p].type = "CLOSE" =>
       \A k \in (Taken + 1)..sent[sess] : OnWire(net, k, p)

\* A reader whose channel is gone, but not the proxy, has all of them.
AllTaken ==
  pc = "reading" /\ ready /\ tcp # "CONNECTED" => closed[sess] /\ Taken = sent[sess]

\* This is so for a channel that came up on its own TCP_STATUS.
StreamInv ==
  bound = sess /\ pc # "idle" =>
    WireOwn /\ Prefix /\ WireOrder /\ WireWhole /\ AllTaken

Inv == TypeOK /\ ServerInv /\ OutInv /\ NetInv /\ WorkerInv /\ StreamInv

-----------------------------------------------------------------------------
(* Sequences, position by position *)

\* Positions and elements of a sequence.
LEMMA SeqFacts ==
  ASSUME NEW S, NEW q \in Seq(S)
  PROVE  /\ Len(q) \in Nat
         /\ DOMAIN q = 1..Len(q)
         /\ \A p \in DOMAIN q : q[p] \in S
         /\ q = <<>> <=> Len(q) = 0
<1>1. Len(q) \in Nat /\ DOMAIN q = 1..Len(q) /\ q \in [1..Len(q) -> S]
  BY LenProperties
<1>2. q = <<>> <=> Len(q) = 0
  BY EmptySeq
<1> QED
  BY <1>1, <1>2

\* What taking the first frame of a queue leaves.
LEMMA TailFacts ==
  ASSUME NEW S, NEW q \in Seq(S), q # <<>>
  PROVE  /\ Head(q) = q[1]
         /\ 1 \in DOMAIN q
         /\ Head(q) \in S
         /\ Tail(q) \in Seq(S)
         /\ Len(Tail(q)) = Len(q) - 1
         /\ \A p \in DOMAIN Tail(q) :
              p \in Nat \ {0} /\ p + 1 \in DOMAIN q /\ Tail(q)[p] = q[p + 1]
         /\ \A p \in DOMAIN q :
              p = 1 \/ (p - 1 \in DOMAIN Tail(q) /\ Tail(q)[p - 1] = q[p])
<1>1. /\ Len(q) \in Nat \ {0} /\ DOMAIN q = 1..Len(q)
      /\ \A p \in DOMAIN q : q[p] \in S
  BY SeqFacts
<1>2. /\ Head(q) = q[1]
      /\ Tail(q) \in Seq(S)
      /\ Len(Tail(q)) = Len(q) - 1
      /\ \A p \in 1..Len(Tail(q)) : Tail(q)[p] = q[p + 1]
  BY HeadTailProperties
<1>3. DOMAIN Tail(q) = 1..(Len(q) - 1)
  BY <1>2, SeqFacts
<1>4. \A p \in 1..(Len(q) - 1) : p \in Nat \ {0} /\ p + 1 \in 1..Len(q)
  BY <1>1
<1>5. \A p \in 1..Len(q) : p = 1 \/ (p - 1 \in 1..(Len(q) - 1) /\ (p - 1) + 1 = p)
  BY <1>1
<1>6. 1 \in DOMAIN q
  BY <1>1
<1>7. \A p \in DOMAIN q : p = 1 \/ (p - 1 \in DOMAIN Tail(q) /\ Tail(q)[p - 1] = q[p])
  BY <1>1, <1>2, <1>3, <1>5
<1> QED
  BY <1>1, <1>2, <1>3, <1>4, <1>6, <1>7

\* What putting a frame at the end of a queue leaves.
LEMMA AppendFacts ==
  ASSUME NEW S, NEW q \in Seq(S), NEW m \in S
  PROVE  /\ Append(q, m) \in Seq(S)
         /\ Len(Append(q, m)) = Len(q) + 1
         /\ Append(q, m)[Len(q) + 1] = m
         /\ Len(q) + 1 \in DOMAIN Append(q, m)
         /\ \A p \in DOMAIN q : p \in DOMAIN Append(q, m) /\ Append(q, m)[p] = q[p]
         /\ \A p \in DOMAIN Append(q, m) : p \in DOMAIN q \/ p = Len(q) + 1
         /\ \A p \in DOMAIN q : p \in Nat /\ p < Len(q) + 1
<1>1. Len(q) \in Nat /\ DOMAIN q = 1..Len(q)
  BY SeqFacts
<1>2. /\ Append(q, m) \in Seq(S)
      /\ Len(Append(q, m)) = Len(q) + 1
      /\ \A p \in 1..Len(q) : Append(q, m)[p] = q[p]
      /\ Append(q, m)[Len(q) + 1] = m
  BY AppendProperties
<1>3. DOMAIN Append(q, m) = 1..(Len(q) + 1)
  BY <1>2, SeqFacts
<1> QED
  BY <1>1, <1>2, <1>3

\* The two parts el_proxy_tcp_read cuts the buffer into.
LEMMA PartFacts ==
  ASSUME NEW S, NEW q \in Seq(S), NEW n \in 0..Len(q)
  PROVE  /\ SubSeq(q, 1, n) \in Seq(S)
         /\ Len(SubSeq(q, 1, n)) = n
         /\ \A p \in DOMAIN SubSeq(q, 1, n) :
              p \in 1..n /\ p \in DOMAIN q /\ SubSeq(q, 1, n)[p] = q[p]
         /\ \A p \in 1..n : p \in DOMAIN SubSeq(q, 1, n)
         /\ SubSeq(q, n + 1, Len(q)) \in Seq(S)
         /\ Len(SubSeq(q, n + 1, Len(q))) = Len(q) - n
         /\ \A p \in DOMAIN SubSeq(q, n + 1, Len(q)) :
              p \in Nat /\ p + n \in DOMAIN q /\ SubSeq(q, n + 1, Len(q))[p] = q[p + n]
<1>1. /\ Len(q) \in Nat /\ DOMAIN q = 1..Len(q)
      /\ \A p \in DOMAIN q : q[p] \in S
  BY SeqFacts
<1>2. n \in Nat /\ n <= Len(q)
  BY <1>1
<1>3. \A p \in 1..n : q[p] \in S
  BY <1>1, <1>2
<1>4. /\ SubSeq(q, 1, n) \in Seq(S)
      /\ Len(SubSeq(q, 1, n)) = IF 1 <= n THEN n - 1 + 1 ELSE 0
      /\ \A p \in 1..(n - 1 + 1) : SubSeq(q, 1, n)[p] = q[1 + p - 1]
  BY <1>2, <1>3, SubSeqProperties
<1>5. Len(SubSeq(q, 1, n)) = n /\ \A p \in 1..n : SubSeq(q, 1, n)[p] = q[p]
  BY <1>2, <1>4
<1>6. DOMAIN SubSeq(q, 1, n) = 1..n
  BY <1>4, <1>5, SeqFacts
<1>7. \A p \in (n + 1)..Len(q) : q[p] \in S
  BY <1>1, <1>2
<1>8. /\ SubSeq(q, n + 1, Len(q)) \in Seq(S)
      /\ Len(SubSeq(q, n + 1, Len(q))) =
           IF n + 1 <= Len(q) THEN Len(q) - (n + 1) + 1 ELSE 0
      /\ \A p \in 1..(Len(q) - (n + 1) + 1) :
           SubSeq(q, n + 1, Len(q))[p] = q[(n + 1) + p - 1]
  <2>1. n + 1 \in Int /\ Len(q) \in Int
    BY <1>1, <1>2
  <2> QED
    BY <1>7, <2>1, SubSeqProperties
<1>9. /\ Len(SubSeq(q, n + 1, Len(q))) = Len(q) - n
      /\ \A p \in 1..(Len(q) - n) : SubSeq(q, n + 1, Len(q))[p] = q[p + n]
  <2>1. Len(q) - (n + 1) + 1 = Len(q) - n
    BY <1>1, <1>2
  <2>2. n + 1 <= Len(q) \/ Len(q) - n = 0
    <3>1. \A l \in Nat, k \in Nat : k <= l => k + 1 <= l \/ l - k = 0
      OBVIOUS
    <3> QED
      BY <1>1, <1>2, <3>1
  <2>3. Len(SubSeq(q, n + 1, Len(q))) = Len(q) - n
    BY <1>8, <2>1, <2>2, <1>1, <1>2
  <2>4. ASSUME NEW p \in 1..(Len(q) - n)
        PROVE  SubSeq(q, n + 1, Len(q))[p] = q[p + n]
    <3>1. p \in Int /\ (n + 1) + p - 1 = p + n
      BY <1>1, <1>2
    <3> QED
      BY <1>8, <2>1, <3>1
  <2> QED
    BY <2>3, <2>4
<1>10. DOMAIN SubSeq(q, n + 1, Len(q)) = 1..(Len(q) - n)
  BY <1>8, <1>9, SeqFacts
<1>11. \A p \in 1..n : p \in DOMAIN q
  BY <1>1, <1>2
<1>12. \A p \in 1..(Len(q) - n) : p \in Nat /\ p + n \in DOMAIN q
  BY <1>1, <1>2
<1>13. \A p \in DOMAIN SubSeq(q, 1, n) :
         p \in 1..n /\ p \in DOMAIN q /\ SubSeq(q, 1, n)[p] = q[p]
  BY <1>5, <1>6, <1>11
<1>14. \A p \in DOMAIN SubSeq(q, n + 1, Len(q)) :
         p \in Nat /\ p + n \in DOMAIN q /\ SubSeq(q, n + 1, Len(q))[p] = q[p + n]
  BY <1>9, <1>10, <1>12
<1> QED
  BY <1>4, <1>5, <1>6, <1>8, <1>9, <1>13, <1>14

-----------------------------------------------------------------------------
(* The next frame is taken off the wire *)

\* What the type invariant says of the queues, position by position.
LEMMA Types ==
  ASSUME TypeOK
  PROVE  /\ net \in Seq(ToClient) /\ Len(net) \in Nat /\ DOMAIN net = 1..Len(net)
         /\ \A p \in DOMAIN net : net[p].s \in Nat /\ net[p].i \in Nat
         /\ out \in Seq(ToProxy) /\ Len(out) \in Nat /\ DOMAIN out = 1..Len(out)
         /\ \A p \in DOMAIN out : out[p].s \in Nat
         /\ rx \in Seq(Sess \X (1..Chunks)) /\ Len(rx) \in Nat /\ DOMAIN rx = 1..Len(rx)
         /\ got \in Seq(Sess \X (1..Chunks)) /\ Len(got) \in Nat /\ DOMAIN got = 1..Len(got)
         /\ sess \in Nat /\ bound \in Nat /\ conn \in Nat
         /\ \A s \in Sess : sent[s] \in Nat
         /\ Taken \in Nat
<1>1. /\ net \in Seq(ToClient) /\ out \in Seq(ToProxy)
      /\ rx \in Seq(Sess \X (1..Chunks)) /\ got \in Seq(Sess \X (1..Chunks))
      /\ sess \in Nat /\ bound \in Nat /\ conn \in Nat
      /\ \A s \in Sess : sent[s] \in Nat
  BY ElProxyAssumption DEF TypeOK
<1>2. /\ Len(net) \in Nat /\ DOMAIN net = 1..Len(net)
      /\ \A p \in DOMAIN net : net[p] \in ToClient
  BY <1>1, SeqFacts
<1>3. /\ Len(out) \in Nat /\ DOMAIN out = 1..Len(out)
      /\ \A p \in DOMAIN out : out[p] \in ToProxy
  BY <1>1, SeqFacts
<1>4. /\ Len(rx) \in Nat /\ DOMAIN rx = 1..Len(rx)
      /\ Len(got) \in Nat /\ DOMAIN got = 1..Len(got)
  BY <1>1, SeqFacts
<1>5. \A p \in DOMAIN net : net[p].s \in Nat /\ net[p].i \in Nat
  BY <1>2, ElProxyAssumption DEF ToClient
<1>6. \A p \in DOMAIN out : out[p].s \in Nat
  BY <1>3, ElProxyAssumption DEF ToProxy
<1>7. Taken \in Nat
  BY <1>4 DEF Taken
<1> QED
  BY <1>1, <1>2, <1>3, <1>4, <1>5, <1>6, <1>7

(* The frame at the head, and those behind it. *)
LEMMA NetTail ==
  ASSUME TypeOK, net # <<>>, net' = Tail(net)
  PROVE  /\ Head(net) = net[1] /\ 1 \in DOMAIN net /\ Head(net) \in ToClient
         /\ net' \in Seq(ToClient)
         /\ Len(net') = Len(net) - 1
         /\ \A p \in DOMAIN net' :
              p \in Nat \ {0} /\ p + 1 \in DOMAIN net /\ net'[p] = net[p + 1]
         /\ \A p \in DOMAIN net :
              p = 1 \/ (p - 1 \in DOMAIN net' /\ net'[p - 1] = net[p])
  BY Types, TailFacts

\* Taking another frame off the wire moves a chunk one place to the front.
LEMMA OnWireTail ==
  ASSUME TypeOK, net # <<>>, net' = Tail(net),
         NEW k, NEW n \in Nat, OnWire(net, k, n + 1),
         ~(net[1].type = "DATA" /\ net[1].i = k)
  PROVE  OnWire(net', k, n)
<1>1. PICK q \in DOMAIN net : q < n + 1 /\ net[q].type = "DATA" /\ net[q].i = k
  BY DEF OnWire
<1>2. q \in Nat
  BY Types
<1>3. q # 1
  BY <1>1
<1>4. q - 1 \in DOMAIN net' /\ net'[q - 1] = net[q]
  BY <1>3, NetTail
<1>5. q - 1 < n
  BY <1>1, <1>2
<1> QED
  BY <1>1, <1>4, <1>5 DEF OnWire

\* Reading a frame disturbs neither what the proxy keeps nor the order of what
\* is left.
LEMMA TailServer ==
  ASSUME Inv, net # <<>>, net' = Tail(net), ready, ready' = ready,
         UNCHANGED <<sess, conn, sent, closed>>
  PROVE  ServerInv' /\ NetInv'
<1>1. \A p \in DOMAIN net' :
        p \in Nat \ {0} /\ p + 1 \in DOMAIN net /\ net'[p] = net[p + 1]
  BY NetTail DEF Inv
<1>2. ServerInv'
  BY <1>1 DEF Inv, ServerInv
<1>3. ASSUME NEW p \in DOMAIN net', NEW q \in DOMAIN net', p < q,
             net'[p].s # 0, net'[q].s # 0
      PROVE  net'[p].s <= net'[q].s
  <2>1. p + 1 < q + 1
    BY <1>1, <1>3
  <2> QED
    BY <1>1, <1>3, <2>1 DEF Inv, NetInv
<1>4. NetInv'
  BY <1>1, <1>3 DEF Inv, NetInv
<1> QED
  BY <1>2, <1>4

\* Reading a frame keeps the order of what is on its way to the proxy.
LEMMA TailOut ==
  ASSUME Inv, net # <<>>, net' = Tail(net),
         UNCHANGED <<out, sess, conn, sent, closed>>,
         bound' = bound \/ bound' = Head(net).s
  PROVE  OutInv'
<1>1. /\ \A p \in DOMAIN net' : p + 1 \in DOMAIN net /\ net'[p] = net[p + 1]
      /\ Head(net) = net[1] /\ 1 \in DOMAIN net
  BY NetTail DEF Inv
<1>2. ASSUME NEW q \in DOMAIN out, out[q].type = "OPEN"
      PROVE  bound' < out[q].s /\ \A p \in DOMAIN net' : net'[p].s < out[q].s
  BY <1>1, <1>2 DEF Inv, OutInv, InOrder
<1> QED
  BY <1>2 DEF Inv, OutInv, InOrder

(* A frame that is no chunk leaves the stream as it is. *)
LEMMA TailStream ==
  ASSUME Inv, bound = sess, pc # "idle", net # <<>>, net' = Tail(net),
         Head(net).type # "DATA", UNCHANGED <<sess, conn, sent, got, rx>>
  PROVE  (WireOwn /\ Prefix /\ WireOrder /\ WireWhole)'
<1> USE DEF Inv
<1>1. /\ \A p \in DOMAIN net' :
           p \in Nat \ {0} /\ p + 1 \in DOMAIN net /\ net'[p] = net[p + 1]
      /\ Head(net) = net[1] /\ 1 \in DOMAIN net
      /\ Len(net') = Len(net) - 1 /\ Len(net) \in Nat
  BY NetTail, Types
<1>2. net[1].type # "DATA"
  BY <1>1
<1>3. Taken' = Taken
  BY DEF Taken
<1>4. WireOwn /\ Prefix /\ WireOrder /\ WireWhole
  BY DEF StreamInv
<1>5. WireOwn'
  BY <1>1, <1>4 DEF WireOwn
<1>6. Prefix'
  BY <1>3, <1>4 DEF Prefix
<1>7. WireOrder'
  <2>1. ASSUME NEW p \in DOMAIN net', net'[p].type = "DATA"
        PROVE  net'[p].i > Taken /\ (net'[p].i = Taken + 1 \/ OnWire(net', net'[p].i - 1, p))
    <3>1. p \in Nat /\ p + 1 \in DOMAIN net /\ net'[p] = net[p + 1]
      BY <1>1
    <3>2. /\ net[p + 1].i > Taken
          /\ net[p + 1].i = Taken + 1 \/ OnWire(net, net[p + 1].i - 1, p + 1)
      BY <1>4, <2>1, <3>1 DEF WireOrder
    <3>3. CASE net[p + 1].i = Taken + 1
      BY <3>1, <3>2, <3>3
    <3>4. CASE OnWire(net, net[p + 1].i - 1, p + 1)
      <4>1. OnWire(net', net[p + 1].i - 1, p)
        <5>1. ~(net[1].type = "DATA" /\ net[1].i = net[p + 1].i - 1)
          BY <1>2
        <5> QED
          BY <3>1, <3>4, <5>1, OnWireTail
      <4> QED
        BY <3>1, <3>2, <4>1
    <3> QED
      BY <3>2, <3>3, <3>4
  <2>2. ASSUME NEW p \in DOMAIN net', NEW q \in DOMAIN net', p < q,
               net'[p].type = "DATA", net'[q].type = "DATA"
        PROVE  net'[p].i < net'[q].i
    <3>1. p + 1 < q + 1
      BY <1>1, <2>2
    <3> QED
      BY <1>1, <1>4, <2>2, <3>1 DEF WireOrder
  <2> QED
    BY <1>3, <2>1, <2>2 DEF WireOrder
<1>8. WireWhole'
  <2>1. ASSUME conn = sess, NEW k \in (Taken + 1)..sent[sess]
        PROVE  OnWire(net', k, Len(net') + 1)
    <3>1. OnWire(net, k, Len(net) + 1)
      BY <1>4, <2>1 DEF WireWhole
    <3>2. Len(net) = Len(net') + 1 /\ Len(net) \in Nat
      BY <1>1
    <3>3. OnWire(net, k, (Len(net') + 1) + 1) /\ Len(net') + 1 \in Nat
      BY <3>1, <3>2
    <3> QED
      BY <1>2, <3>3, OnWireTail
  <2>2. ASSUME NEW p \in DOMAIN net', net'[p].type = "CLOSE",
               NEW k \in (Taken + 1)..sent[sess]
        PROVE  OnWire(net', k, p)
    <3>1. OnWire(net, k, p + 1) /\ p \in Nat
      BY <1>1, <1>4, <2>2 DEF WireWhole
    <3> QED
      BY <1>2, <3>1, OnWireTail
  <2> QED
    BY <1>3, <2>1, <2>2 DEF WireWhole
<1> QED
  BY <1>5, <1>6, <1>7, <1>8

(* A chunk at the head is the next one, and goes to the end of the buffer. *)
LEMMA TakeStream ==
  ASSUME Inv, bound = sess, pc # "idle", net # <<>>, net' = Tail(net),
         Head(net).type = "DATA", rx' = Append(rx, <<Head(net).s, Head(net).i>>),
         UNCHANGED <<sess, conn, sent, got>>
  PROVE  /\ (WireOwn /\ Prefix /\ WireOrder /\ WireWhole)'
         /\ Taken < sent[sess]
<1> USE DEF Inv
<1>1. /\ \A p \in DOMAIN net' :
           p \in Nat \ {0} /\ p + 1 \in DOMAIN net /\ net'[p] = net[p + 1]
      /\ Head(net) = net[1] /\ 1 \in DOMAIN net
      /\ Len(net') = Len(net) - 1 /\ Len(net) \in Nat
  BY NetTail, Types
<1>2. WireOwn /\ Prefix /\ WireOrder /\ WireWhole
  BY DEF StreamInv
<1>3. sess \in Sess /\ sess \in Nat /\ sent[sess] \in Nat /\ Taken \in Nat
  BY Types DEF WorkerInv
<1>4. net[1].s = sess /\ net[1].i \in 1..sent[sess]
  <2>1. net[1].s \in Sess /\ net[1].i \in 1..sent[net[1].s]
    BY <1>1 DEF NetInv
  <2>2. net[1].s \in {0, sess} /\ net[1].s # 0
    BY <1>1, <1>2, <2>1 DEF WireOwn, Sess
  <2> QED
    BY <2>1, <2>2
<1>5. net[1].i = Taken + 1
  <2>1. net[1].i = Taken + 1 \/ OnWire(net, net[1].i - 1, 1)
    BY <1>1, <1>2 DEF WireOrder
  <2>2. ~OnWire(net, net[1].i - 1, 1)
    BY Types DEF OnWire
  <2> QED
    BY <2>1, <2>2
<1>6. Taken < sent[sess]
  BY <1>3, <1>4, <1>5
<1>7. /\ rx' = Append(rx, <<sess, Taken + 1>>)
      /\ <<sess, Taken + 1>> \in Sess \X (1..Chunks)
  <2>1. rx' = Append(rx, <<sess, Taken + 1>>)
    BY <1>1, <1>4, <1>5
  <2>2. sent[sess] \in 0..Chunks /\ Chunks \in Nat
    BY <1>3, ElProxyAssumption DEF TypeOK
  <2>3. Taken + 1 \in 1..Chunks
    BY <1>3, <1>6, <2>2
  <2> QED
    BY <1>3, <2>1, <2>3
<1>8. /\ rx' \in Seq(Sess \X (1..Chunks))
      /\ Len(rx') = Len(rx) + 1
      /\ rx'[Len(rx) + 1] = <<sess, Taken + 1>>
      /\ \A j \in DOMAIN rx : rx'[j] = rx[j]
      /\ \A j \in DOMAIN rx' : j \in DOMAIN rx \/ j = Len(rx) + 1
  <2> DEFINE S == Sess \X (1..Chunks)
             m == <<sess, Taken + 1>>
  <2>1. rx \in Seq(S) /\ m \in S /\ rx' = Append(rx, m)
    BY <1>7, Types
  <2> HIDE DEF S, m
  <2>2. /\ Append(rx, m) \in Seq(S)
        /\ Len(Append(rx, m)) = Len(rx) + 1
        /\ Append(rx, m)[Len(rx) + 1] = m
        /\ \A j \in DOMAIN rx : Append(rx, m)[j] = rx[j]
        /\ \A j \in DOMAIN Append(rx, m) : j \in DOMAIN rx \/ j = Len(rx) + 1
    BY <2>1, AppendFacts
  <2> QED
    BY <2>1, <2>2, Zenon DEF S, m
<1>9. Taken' = Taken + 1 /\ Len(got) \in Nat /\ Len(rx) \in Nat
  BY <1>8, Types DEF Taken
<1>10. WireOwn'
  BY <1>1, <1>2 DEF WireOwn
<1>11. Prefix'
  <2>1. ASSUME NEW j \in DOMAIN rx' PROVE rx'[j] = <<sess, Len(got) + j>>
    <3>1. CASE j \in DOMAIN rx
      BY <1>2, <1>8, <3>1 DEF Prefix
    <3>2. CASE j = Len(rx) + 1
      <4>1. Taken + 1 = Len(got) + j
        BY <1>9, <3>2 DEF Taken
      <4> QED
        BY <1>8, <3>2, <4>1
    <3> QED
      BY <1>8, <3>1, <3>2
  <2>2. Taken' <= sent[sess]
    BY <1>3, <1>6, <1>9
  <2> QED
    BY <1>2, <2>1, <2>2 DEF Prefix
<1>12. WireOrder'
  <2>1. ASSUME NEW p \in DOMAIN net', net'[p].type = "DATA"
        PROVE  /\ net'[p].i > Taken + 1
               /\ net'[p].i = Taken + 1 + 1 \/ OnWire(net', net'[p].i - 1, p)
    <3>1. p \in Nat /\ p + 1 \in DOMAIN net /\ net'[p] = net[p + 1] /\ 1 < p + 1
      BY <1>1
    <3>2. net[1].i < net[p + 1].i /\ net[p + 1].i \in Nat
      BY <1>1, <1>2, <2>1, <3>1, Types DEF WireOrder
    <3>3. net[p + 1].i = Taken + 1 \/ OnWire(net, net[p + 1].i - 1, p + 1)
      BY <1>2, <2>1, <3>1 DEF WireOrder
    <3>4. OnWire(net, net[p + 1].i - 1, p + 1)
      BY <1>3, <1>5, <3>2, <3>3
    <3>5. CASE net[p + 1].i = Taken + 1 + 1
      BY <1>3, <1>5, <3>1, <3>2, <3>5
    <3>6. CASE net[p + 1].i # Taken + 1 + 1
      <4>1. ~(net[1].type = "DATA" /\ net[1].i = net[p + 1].i - 1)
        BY <1>3, <1>5, <3>2, <3>6
      <4>2. OnWire(net', net[p + 1].i - 1, p)
        BY <3>1, <3>4, <4>1, OnWireTail
      <4> QED
        BY <1>3, <1>5, <3>1, <3>2, <4>2
    <3> QED
      BY <3>5, <3>6
  <2>2. ASSUME NEW p \in DOMAIN net', NEW q \in DOMAIN net', p < q,
               net'[p].type = "DATA", net'[q].type = "DATA"
        PROVE  net'[p].i < net'[q].i
    <3>1. p + 1 < q + 1
      BY <1>1, <2>2
    <3> QED
      BY <1>1, <1>2, <2>2, <3>1 DEF WireOrder
  <2> QED
    BY <1>9, <2>1, <2>2 DEF WireOrder
<1>13. WireWhole'
  <2>1. \A k \in (Taken + 1 + 1)..sent[sess] :
          k \in (Taken + 1)..sent[sess] /\ ~(net[1].type = "DATA" /\ net[1].i = k)
    BY <1>3, <1>5
  <2>2. ASSUME conn = sess, NEW k \in (Taken + 1 + 1)..sent[sess]
        PROVE  OnWire(net', k, Len(net') + 1)
    <3>1. OnWire(net, k, Len(net) + 1)
      BY <1>2, <2>1, <2>2 DEF WireWhole
    <3>2. Len(net) = Len(net') + 1 /\ Len(net) \in Nat
      BY <1>1
    <3>3. OnWire(net, k, (Len(net') + 1) + 1) /\ Len(net') + 1 \in Nat
      BY <3>1, <3>2
    <3> QED
      BY <2>1, <3>3, OnWireTail
  <2>3. ASSUME NEW p \in DOMAIN net', net'[p].type = "CLOSE",
               NEW k \in (Taken + 1 + 1)..sent[sess]
        PROVE  OnWire(net', k, p)
    <3>1. OnWire(net, k, p + 1) /\ p \in Nat
      BY <1>1, <1>2, <2>1, <2>3 DEF WireWhole
    <3> QED
      BY <2>1, <3>1, OnWireTail
  <2> QED
    BY <1>9, <2>2, <2>3 DEF WireWhole
<1> QED
  BY <1>6, <1>10, <1>11, <1>12, <1>13

-----------------------------------------------------------------------------
(* mark_disconnected_locked leaves nothing on the wire. *)
LEMMA Disconnects ==
  ASSUME Inv, MarkDisconnected, UNCHANGED <<pc, history, sent, closed, faults>>
  PROVE  Inv'
<1> USE DEF Inv
<1>1. /\ ready' = FALSE /\ backoff' = TRUE /\ tcp' = "DISC" /\ rx' = <<>>
      /\ up' = FALSE /\ out' = <<>> /\ net' = <<>> /\ conn' = 0 /\ asked' = FALSE
      /\ UNCHANGED <<pc, sess, bound, got, eof, sent, closed, faults>>
  BY DEF MarkDisconnected, history
<1>2. DOMAIN net' = {} /\ DOMAIN out' = {} /\ DOMAIN rx' = {} /\ Len(rx') = 0
      /\ Len(net') = 0
  BY <1>1
<1>3. TypeOK'
  <2>1. rx' \in Seq(Sess \X (1..Chunks)) /\ out' \in Seq(ToProxy) /\ net' \in Seq(ToClient)
    BY <1>1, EmptySeq
  <2>2. Len(rx') <= RxCap /\ conn' \in 0..MaxSess
    BY <1>1, <1>2, ElProxyAssumption
  <2> QED
    BY <1>1, <2>1, <2>2 DEF TypeOK
<1>4. ServerInv'
  BY <1>1, <1>2, Types DEF ServerInv
<1>5. OutInv' /\ NetInv'
  BY <1>1, <1>2 DEF OutInv, InOrder, NetInv
<1>6. WorkerInv'
  BY <1>1, <1>2 DEF WorkerInv
<1>7. StreamInv'
  <2>1. SUFFICES ASSUME bound = sess, pc # "idle"
                 PROVE  (WireOwn /\ Prefix /\ WireOrder /\ WireWhole /\ AllTaken)'
    BY <1>1 DEF StreamInv
  <2>2. WireOwn /\ Prefix /\ sess \in Sess
    BY <2>1 DEF StreamInv, WorkerInv
  <2>3. WireOwn'
    BY <1>1, <1>2 DEF WireOwn
  <2>4. Taken' = Len(got) /\ Len(got) <= Taken /\ Taken' \in Nat
    BY <1>1, <1>2, Types DEF Taken
  <2>5. Prefix'
    <3>1. Taken' <= sent[sess]
      BY <2>2, <2>4, Types DEF Prefix
    <3> QED
      BY <1>1, <1>2, <2>2, <3>1 DEF Prefix
  <2>6. WireOrder'
    BY <1>2 DEF WireOrder
  <2>7. WireWhole'
    <3>1. conn' # sess'
      BY <1>1, <2>2 DEF Sess
    <3> QED
      BY <1>2, <3>1 DEF WireWhole
  <2>8. AllTaken'
    BY <1>1 DEF AllTaken
  <2> QED
    BY <2>3, <2>5, <2>6, <2>7, <2>8
<1> QED
  BY <1>3, <1>4, <1>5, <1>6, <1>7

(* TCP_STATUS of the channel that was asked for: its stream begins. *)
LEMMA Binds ==
  ASSUME Inv, net # <<>>, net' = Tail(net), tcp = "CONNECTING", rx' = <<>>,
         bound' = Head(net).s, Head(net).s = sess, UNCHANGED <<sess, conn, sent, got, pc>>
  PROVE  StreamInv'
<1> USE DEF Inv
<1>1. /\ \A p \in DOMAIN net' :
           p \in Nat \ {0} /\ p + 1 \in DOMAIN net /\ net'[p] = net[p + 1]
      /\ Head(net) = net[1] /\ 1 \in DOMAIN net
  BY NetTail
<1>2. pc = "opening" /\ sess \in Sess /\ got = <<>> /\ sent[sess] = 0
  BY DEF WorkerInv
<1>3. sess \in Nat \ {0} /\ conn \in Nat
  BY <1>2, Types, ElProxyAssumption DEF Sess
<1>4. WireOwn'
  <2>1. conn \in {0, sess}
    <3>1. conn # 0 => net[1].s <= conn
      BY <1>1 DEF ServerInv
    <3>2. conn <= sess
      BY DEF ServerInv
    <3> QED
      BY <1>1, <1>3, <3>1, <3>2
  <2>2. ASSUME NEW p \in DOMAIN net' PROVE net'[p].s \in {0, sess}
    <3>1. p + 1 \in DOMAIN net /\ net'[p] = net[p + 1] /\ 1 < p + 1
      BY <1>1
    <3>2. net[p + 1].s # 0 => net[1].s <= net[p + 1].s
      BY <1>1, <1>3, <3>1 DEF NetInv
    <3>3. net[p + 1].s <= sess /\ net[p + 1].s \in Nat
      BY <3>1, Types DEF NetInv
    <3> QED
      BY <1>1, <1>3, <3>1, <3>2, <3>3
  <2> QED
    BY <2>1, <2>2 DEF WireOwn
<1>5. /\ DOMAIN got' = {} /\ DOMAIN rx' = {}
      /\ Len(got') = 0 /\ Len(rx') = 0
  BY <1>2
<1>6. Taken' = 0
  BY <1>5 DEF Taken
<1>7. Prefix'
  BY <1>2, <1>5, <1>6 DEF Prefix
<1>8. \A p \in DOMAIN net' : net'[p].type # "DATA"
  <2>1. SUFFICES ASSUME NEW p \in DOMAIN net', net'[p].type = "DATA"
                 PROVE  FALSE
    OBVIOUS
  <2>2. p + 1 \in DOMAIN net /\ net'[p] = net[p + 1]
    BY <1>1
  <2>3. net[p + 1].s \in Sess /\ net[p + 1].i \in 1..sent[net[p + 1].s]
    BY <2>1, <2>2 DEF NetInv
  <2>4. net[p + 1].s = sess
    BY <1>4, <2>2, <2>3 DEF WireOwn, Sess
  <2> QED
    BY <1>2, <2>3, <2>4
<1>9. WireOrder'
  BY <1>8 DEF WireOrder
<1>10. WireWhole'
  <2>1. (Taken' + 1)..sent'[sess'] = {}
    BY <1>2, <1>6
  <2> QED
    BY <2>1 DEF WireWhole
<1>11. AllTaken'
  BY <1>2 DEF AllTaken
<1> QED
  BY <1>4, <1>7, <1>9, <1>10, <1>11 DEF StreamInv

(* handle_msg_locked, frame by frame. *)
LEMMA HandleStep ==
  ASSUME Inv, HandleMsg
  PROVE  Inv'
<1> USE DEF Inv
<1> DEFINE m == Head(net)
<1>1. ready /\ net # <<>> /\ UNCHANGED <<pc, sess, got, eof, faults>>
  BY DEF HandleMsg
<1>2. /\ m = net[1] /\ 1 \in DOMAIN net /\ m \in ToClient
      /\ Tail(net) \in Seq(ToClient)
  BY <1>1, Types, TailFacts
<1>3. /\ m.type \in {"STATUS_OK", "STATUS_FAIL", "DATA", "CLOSE", "UDP", "SYSTEM"}
      /\ m.type \notin {"UDP", "SYSTEM"} => m.s \in Sess
      /\ m.s <= sess
      /\ m.type = "DATA" => m.i \in 1..sent[m.s]
      /\ m.type = "CLOSE" => closed[m.s]
  BY <1>2 DEF ToClient, NetInv
<1> HIDE DEF m
<1>4. CASE m.type = "DATA"
  <2>1. DirRxAppend(m) /\ UNCHANGED bound
    BY <1>4 DEF HandleMsg, m
  <2>2. CASE Len(rx) + 1 > RxCap
    <3>1. MarkDisconnected /\ UNCHANGED <<sent, closed>>
      BY <2>1, <2>2 DEF DirRxAppend
    <3> QED
      BY <1>1, <2>1, <3>1, Disconnects DEF history
  <2>3. CASE ~(Len(rx) + 1 > RxCap)
    <3>1. /\ rx' = Append(rx, <<m.s, m.i>>)
          /\ net' = Tail(net)
          /\ UNCHANGED <<ready, backoff, tcp, up, out, conn, asked, sent, closed>>
      BY <2>1, <2>3 DEF DirRxAppend, server
    <3>2. rx' \in Seq(Sess \X (1..Chunks)) /\ Len(rx') <= RxCap
      <4>1. sent[m.s] \in 0..Chunks /\ Chunks \in Nat
        BY <1>3, <1>4, ElProxyAssumption DEF TypeOK
      <4>2. <<m.s, m.i>> \in Sess \X (1..Chunks)
        BY <1>3, <1>4, <4>1
      <4>3. rx' \in Seq(Sess \X (1..Chunks)) /\ Len(rx') = Len(rx) + 1
        BY <3>1, <4>2, Types, AppendFacts
      <4> QED
        BY <2>3, <4>3, Types, ElProxyAssumption
    <3>3. TypeOK'
      BY <1>1, <1>2, <2>1, <3>1, <3>2 DEF TypeOK
    <3>4. ServerInv' /\ NetInv' /\ OutInv'
      BY <1>1, <2>1, <3>1, TailServer, TailOut
    <3>5. WorkerInv'
      BY <1>1, <2>1, <3>1 DEF WorkerInv
    <3>6. StreamInv'
      <4>1. SUFFICES ASSUME bound = sess, pc # "idle"
                     PROVE  (WireOwn /\ Prefix /\ WireOrder /\ WireWhole /\ AllTaken)'
        BY <1>1, <2>1 DEF StreamInv
      <4>2. (WireOwn /\ Prefix /\ WireOrder /\ WireWhole)' /\ Taken < sent[sess]
        BY <1>1, <1>4, <3>1, <4>1, TakeStream DEF m
      <4>3. ~(pc = "reading" /\ ready /\ tcp # "CONNECTED")
        <5>1. sess \in Sess /\ sent[sess] \in Nat /\ Taken \in Nat
          BY <4>1, Types DEF WorkerInv
        <5> QED
          BY <4>1, <4>2, <5>1 DEF StreamInv, AllTaken
      <4>4. AllTaken'
        BY <1>1, <3>1, <4>3 DEF AllTaken
      <4> QED
        BY <4>2, <4>4
    <3> QED
      BY <3>3, <3>4, <3>5, <3>6
  <2> QED
    BY <2>2, <2>3
<1>5. CASE m.type = "CLOSE"
  <2>1. /\ tcp' = "DISC" /\ net' = Tail(net)
        /\ UNCHANGED <<ready, backoff, rx, bound, up, out, conn, asked, sent, closed>>
    BY <1>5 DEF HandleMsg, m, server
  <2>2. TypeOK'
    BY <1>1, <1>2, <2>1 DEF TypeOK
  <2>3. ServerInv' /\ NetInv' /\ OutInv'
    BY <1>1, <2>1, TailServer, TailOut
  <2>4. WorkerInv'
    BY <1>1, <2>1 DEF WorkerInv
  <2>5. StreamInv'
    <3>1. SUFFICES ASSUME bound = sess, pc # "idle"
                   PROVE  (WireOwn /\ Prefix /\ WireOrder /\ WireWhole /\ AllTaken)'
      BY <1>1, <2>1 DEF StreamInv
    <3>2. (WireOwn /\ Prefix /\ WireOrder /\ WireWhole)'
      BY <1>1, <1>5, <2>1, <3>1, TailStream DEF m
    <3>3. WireOwn /\ Prefix /\ WireWhole
      BY <3>1 DEF StreamInv
    <3>4. sess \in Sess /\ sent[sess] \in Nat /\ Taken \in Nat
      BY <3>1, Types DEF WorkerInv
    <3>5. closed[sess]
      <4>1. m.s = sess
        BY <1>2, <1>3, <1>5, <3>3 DEF WireOwn, Sess
      <4> QED
        BY <1>3, <1>5, <4>1
    <3>6. Taken = sent[sess]
      <4>1. \A k \in (Taken + 1)..sent[sess] : OnWire(net, k, 1)
        BY <1>2, <1>5, <3>3 DEF WireWhole
      <4>2. \A k : ~OnWire(net, k, 1)
        BY Types DEF OnWire
      <4>3. Taken <= sent[sess]
        BY <3>3 DEF Prefix
      <4>4. Taken < sent[sess] => Taken + 1 \in (Taken + 1)..sent[sess]
        BY <3>4
      <4> QED
        BY <3>4, <4>1, <4>2, <4>3, <4>4
    <3>7. AllTaken'
      <4>1. Taken' = Taken
        BY <1>1, <2>1 DEF Taken
      <4> QED
        BY <1>1, <2>1, <3>5, <3>6, <4>1 DEF AllTaken
    <3> QED
      BY <3>2, <3>7
  <2> QED
    BY <2>2, <2>3, <2>4, <2>5
<1>6. ASSUME net' = Tail(net), m.type # "DATA",
             UNCHANGED <<ready, backoff, rx, bound, up, out, conn, asked, sent, closed>>,
             tcp' = tcp \/ (tcp = "CONNECTING" /\ tcp' = "DISC")
      PROVE  Inv'
  <2>1. TypeOK'
    BY <1>1, <1>2, <1>6 DEF TypeOK
  <2>2. ServerInv' /\ NetInv' /\ OutInv'
    BY <1>1, <1>6, TailServer, TailOut
  <2>3. WorkerInv'
    BY <1>1, <1>6 DEF WorkerInv
  <2>4. StreamInv'
    <3>1. SUFFICES ASSUME bound = sess, pc # "idle"
                   PROVE  (WireOwn /\ Prefix /\ WireOrder /\ WireWhole /\ AllTaken)'
      BY <1>1, <1>6 DEF StreamInv
    <3>2. tcp' = tcp
      BY <1>6, <3>1 DEF WorkerInv
    <3>3. (WireOwn /\ Prefix /\ WireOrder /\ WireWhole)'
      BY <1>1, <1>6, <3>1, TailStream DEF m
    <3>4. AllTaken'
      <4>1. Taken' = Taken /\ AllTaken
        BY <1>1, <1>6, <3>1 DEF Taken, StreamInv
      <4> QED
        BY <1>1, <1>6, <3>2, <4>1 DEF AllTaken
    <3> QED
      BY <3>3, <3>4
  <2> QED
    BY <2>1, <2>2, <2>3, <2>4
<1>7. CASE m.type \in {"STATUS_OK", "STATUS_FAIL"}
  <2>1. /\ TcpStatus(m) /\ net' = Tail(net)
        /\ UNCHANGED <<ready, backoff, up, out, conn, asked, sent, closed>>
    BY <1>7 DEF HandleMsg, m, server
  <2>2. CASE tcp = "CONNECTING" /\ m.type = "STATUS_OK"
    <3>1. tcp' = "CONNECTED" /\ rx' = <<>> /\ bound' = m.s
      BY <2>1, <2>2 DEF TcpStatus
    <3>2. TypeOK'
      <4>1. rx' \in Seq(Sess \X (1..Chunks)) /\ Len(rx') <= RxCap
        BY <3>1, EmptySeq, ElProxyAssumption
      <4>2. bound' \in 0..MaxSess
        BY <1>2, <3>1 DEF ToClient
      <4> QED
        BY <1>1, <1>2, <2>1, <3>1, <4>1, <4>2 DEF TypeOK
    <3>3. ServerInv' /\ NetInv' /\ OutInv'
      BY <1>1, <2>1, <3>1, TailServer, TailOut DEF m
    <3>4. WorkerInv'
      BY <1>1, <1>3, <2>1, <3>1 DEF WorkerInv
    <3>5. StreamInv'
      <4>1. CASE m.s = sess
        BY <1>1, <2>1, <2>2, <3>1, <4>1, Binds DEF m
      <4>2. CASE m.s # sess
        BY <1>1, <3>1, <4>2 DEF StreamInv
      <4> QED
        BY <4>1, <4>2
    <3> QED
      BY <3>2, <3>3, <3>4, <3>5
  <2>3. CASE ~(tcp = "CONNECTING" /\ m.type = "STATUS_OK")
    <3>1. UNCHANGED <<rx, bound>> /\ (tcp' = tcp \/ (tcp = "CONNECTING" /\ tcp' = "DISC"))
      BY <2>1, <2>3 DEF TcpStatus
    <3> QED
      BY <1>6, <1>7, <2>1, <3>1
  <2> QED
    BY <2>2, <2>3
<1>8. CASE m.type = "UDP"
  <2>1. /\ net' = Tail(net)
        /\ UNCHANGED <<ready, backoff, tcp, rx, bound, up, out, conn, asked, sent, closed>>
    BY <1>8 DEF HandleMsg, m, server
  <2> QED
    BY <1>6, <1>8, <2>1
<1>9. CASE m.type = "SYSTEM"
  <2>1. MarkDisconnected /\ UNCHANGED <<sent, closed, bound>>
    BY <1>9 DEF HandleMsg, m
  <2> QED
    BY <1>1, <2>1, Disconnects DEF history
<1> QED
  BY <1>3, <1>4, <1>5, <1>7, <1>8, <1>9

-----------------------------------------------------------------------------
(* The connection and the worker *)

(* The stream is as it was if what was taken and what is on the wire is. *)
LEMMA SameStream ==
  ASSUME WireOwn, Prefix, WireOrder, WireWhole,
         UNCHANGED <<sess, conn, net, got, rx, sent>>
  PROVE  (WireOwn /\ Prefix /\ WireOrder /\ WireWhole)' /\ Taken' = Taken
<1>1. Taken' = Taken
  BY DEF Taken
<1> QED
  BY <1>1 DEF WireOwn, Prefix, WireOrder, WireWhole

\* el_proxy_ensure, its back-off, and the loss of the connection.
LEMMA ConnectStep ==
  ASSUME Inv, ConnectAuth \/ BackoffOver \/ Disconnected
  PROVE  Inv'
<1> USE DEF Inv
<1>1. CASE ConnectAuth
  <2>1. /\ ~ready /\ ~backoff
        /\ UNCHANGED <<pc, sess, bound, got, eof, out, net, conn, asked, sent, closed>>
    BY <1>1 DEF ConnectAuth, history, server
  <2>2. rx = <<>> /\ net = <<>> /\ out = <<>> /\ conn = 0 /\ ~up
    BY <2>1 DEF ServerInv
  <2>3. pc \notin {"opening", "reading"}
    BY <2>1 DEF WorkerInv
  <2>4. rx' = rx /\ (tcp' = tcp \/ tcp' = "DISC") /\ (~ready' => ~up')
    BY <1>1, <2>2 DEF ConnectAuth
  <2>5. TypeOK'
    <3>1. faults' \in 0..MaxFaults
      <4>1. faults \in 0..MaxFaults /\ MaxFaults \in Nat
        BY ElProxyAssumption DEF TypeOK
      <4>2. faults' = faults \/ (faults < MaxFaults /\ faults' = faults + 1)
        BY <1>1 DEF ConnectAuth
      <4> QED
        BY <4>1, <4>2
    <3>3. ready' \in BOOLEAN /\ up' \in BOOLEAN
      BY <1>1 DEF ConnectAuth, TypeOK
    <3>2. backoff' \in BOOLEAN /\ tcp' \in {"DISC", "CONNECTING", "CONNECTED"}
      BY <1>1 DEF ConnectAuth, TypeOK
    <3> QED
      BY <2>1, <2>4, <3>1, <3>2, <3>3 DEF TypeOK
  <2>6. ServerInv'
    BY <2>1, <2>2, <2>4 DEF ServerInv
  <2>7. OutInv' /\ NetInv'
    BY <2>1 DEF OutInv, InOrder, NetInv
  <2>8. WorkerInv'
    BY <2>1, <2>3, <2>4 DEF WorkerInv
  <2>9. StreamInv'
    <3>1. SUFFICES ASSUME bound = sess, pc # "idle"
                   PROVE  (WireOwn /\ Prefix /\ WireOrder /\ WireWhole /\ AllTaken)'
      BY <2>1 DEF StreamInv
    <3>2. (WireOwn /\ Prefix /\ WireOrder /\ WireWhole)'
      BY <2>1, <2>4, <3>1, SameStream DEF StreamInv
    <3>3. AllTaken'
      BY <2>1, <2>3 DEF AllTaken
    <3> QED
      BY <3>2, <3>3
  <2> QED
    BY <2>5, <2>6, <2>7, <2>8, <2>9
<1>2. CASE BackoffOver
  <2>1. /\ pc \notin {"opening", "reading"} /\ backoff' = FALSE
        /\ UNCHANGED <<ready, tcp, rx, pc, sess, bound, got, eof, up, out, net,
                       conn, asked, sent, closed, faults>>
    BY <1>2 DEF BackoffOver, history, server
  <2>2. TypeOK' /\ ServerInv'
    BY <2>1 DEF TypeOK, ServerInv
  <2>3. OutInv' /\ NetInv' /\ WorkerInv'
    BY <2>1 DEF OutInv, InOrder, NetInv, WorkerInv
  <2>4. StreamInv'
    <3>1. SUFFICES ASSUME bound = sess, pc # "idle"
                   PROVE  (WireOwn /\ Prefix /\ WireOrder /\ WireWhole /\ AllTaken)'
      BY <2>1 DEF StreamInv
    <3>2. (WireOwn /\ Prefix /\ WireOrder /\ WireWhole)'
      BY <2>1, <3>1, SameStream DEF StreamInv
    <3>3. AllTaken'
      BY <2>1 DEF AllTaken
    <3> QED
      BY <3>2, <3>3
  <2> QED
    BY <2>2, <2>3, <2>4
<1>3. CASE Disconnected
  BY <1>3, Disconnects DEF Disconnected
<1> QED
  BY <1>1, <1>2, <1>3

(* A frame of the present channel, other than an OPEN, may follow. *)
LEMMA SentInOrder ==
  ASSUME Inv, NEW o \in Seq(ToProxy), InOrder(o), NEW t \in {"CLOSE", "DATA"}
  PROVE  Sent(o, Frame(t, sess, 0)) \in Seq(ToProxy) /\ InOrder(Sent(o, Frame(t, sess, 0)))
<1> USE DEF Inv
<1> DEFINE f == Frame(t, sess, 0)
<1>1. f \in ToProxy /\ f.s = sess /\ f.type # "OPEN"
  BY DEF Frame, ToProxy, TypeOK
<1> HIDE DEF f
<1>2. CASE ~up
  BY <1>2 DEF Sent, f
<1>3. CASE up
  <2>1. Sent(o, f) = Append(o, f)
    BY <1>3 DEF Sent
  <2>2. /\ Append(o, f) \in Seq(ToProxy)
        /\ Append(o, f)[Len(o) + 1] = f
        /\ \A p \in DOMAIN o : Append(o, f)[p] = o[p]
        /\ \A p \in DOMAIN Append(o, f) : p \in DOMAIN o \/ p = Len(o) + 1
        /\ \A p \in DOMAIN o : p \in Nat /\ p < Len(o) + 1
        /\ Len(o) \in Nat
    BY <1>1, AppendFacts, SeqFacts
  <2>3. conn <= sess /\ sess <= sess /\ sess \in Nat
    BY Types DEF ServerInv
  <2>4. ASSUME NEW p \in DOMAIN Append(o, f), NEW q \in DOMAIN Append(o, f), p < q
        PROVE  Append(o, f)[p].s <= Append(o, f)[q].s
    <3>1. p \in DOMAIN o
      BY <2>2, <2>4
    <3>2. CASE q \in DOMAIN o
      BY <2>2, <2>4, <3>1, <3>2 DEF InOrder
    <3>3. CASE q = Len(o) + 1
      BY <1>1, <2>2, <3>1, <3>3 DEF InOrder
    <3> QED
      BY <2>2, <3>2, <3>3
  <2>5. ASSUME NEW q \in DOMAIN Append(o, f), Append(o, f)[q].type = "OPEN"
        PROVE  /\ q \in DOMAIN o /\ Append(o, f)[q] = o[q]
               /\ \A p \in DOMAIN Append(o, f) :
                    p < q => Append(o, f)[p].s < Append(o, f)[q].s
    <3>1. q \in DOMAIN o /\ Append(o, f)[q] = o[q]
      BY <1>1, <2>2, <2>5
    <3>2. ASSUME NEW p \in DOMAIN Append(o, f), p < q
          PROVE  Append(o, f)[p].s < Append(o, f)[q].s
      <4>1. p \in DOMAIN o
        BY <2>2, <3>1, <3>2
      <4> QED
        BY <2>2, <2>5, <3>1, <3>2, <4>1 DEF InOrder
    <3> QED
      BY <3>1, <3>2
  <2>6. \A p \in DOMAIN Append(o, f) :
          conn <= Append(o, f)[p].s /\ Append(o, f)[p].s <= sess
    BY <1>1, <2>2, <2>3 DEF InOrder
  <2>7. InOrder(Append(o, f))
    BY <2>4, <2>5, <2>6 DEF InOrder
  <2> QED
    BY <2>1, <2>2, <2>7 DEF f
<1> QED
  BY <1>2, <1>3

(* el_proxy_tcp_open: the OPEN of a new channel comes after everything. *)
LEMMA OpenStep ==
  ASSUME Inv, TcpOpen
  PROVE  Inv'
<1> USE DEF Inv
<1>1. /\ pc = "idle" /\ ready /\ sess < MaxSess /\ pc' = "opening" /\ sess' = sess + 1
      /\ got' = <<>> /\ eof' = FALSE /\ tcp' = "CONNECTING" /\ rx' = <<>>
      /\ UNCHANGED <<ready, backoff, bound, up, net, conn, asked, sent, closed, faults>>
  BY DEF TcpOpen, server
<1>2. /\ sess \in Nat /\ sess + 1 \in Sess /\ bound <= sess /\ conn <= sess
      /\ sent[sess + 1] = 0 /\ ~closed[sess + 1]
      /\ conn \in Nat /\ bound \in Nat
  <2>1. sess \in Nat /\ sess + 1 \in Sess /\ conn \in Nat /\ bound \in Nat
    BY <1>1, Types, ElProxyAssumption DEF Sess
  <2> QED
    BY <2>1 DEF ServerInv, WorkerInv
<1>3. PICK o \in Seq(ToProxy) :
        /\ InOrder(o)
        /\ out' = Sent(o, Frame("OPEN", sess + 1, 0))
  <2>1. CASE tcp # "DISC"
    BY <2>1, Types, SentInOrder DEF TcpOpen, OutInv
  <2>2. CASE ~(tcp # "DISC")
    BY <2>2, Types DEF TcpOpen, OutInv
  <2> QED
    BY <2>1, <2>2
<1> DEFINE f == Frame("OPEN", sess + 1, 0)
<1>4. f \in ToProxy /\ f.s = sess + 1 /\ f.type = "OPEN"
  BY <1>1, <1>2 DEF Frame, ToProxy, Sess
<1> HIDE DEF f
<1>5. /\ out' \in Seq(ToProxy)
      /\ \A p \in DOMAIN out' : \/ p \in DOMAIN o /\ out'[p] = o[p]
                                \/ p = Len(o) + 1 /\ out'[p] = f
      /\ \A p \in DOMAIN o : p \in Nat /\ p < Len(o) + 1
      /\ \A p \in DOMAIN o : o[p] \in ToProxy /\ o[p].s \in Nat
      /\ Len(o) \in Nat
  <2>1. /\ Append(o, f) \in Seq(ToProxy)
        /\ Append(o, f)[Len(o) + 1] = f
        /\ \A p \in DOMAIN o : Append(o, f)[p] = o[p]
        /\ \A p \in DOMAIN Append(o, f) : p \in DOMAIN o \/ p = Len(o) + 1
        /\ \A p \in DOMAIN o : p \in Nat /\ p < Len(o) + 1
        /\ Len(o) \in Nat
    BY <1>4, AppendFacts, SeqFacts
  <2>2. \A p \in DOMAIN o : o[p] \in ToProxy /\ o[p].s \in Nat
    <3>1. \A p \in DOMAIN o : o[p] \in ToProxy
      BY SeqFacts
    <3> QED
      BY <3>1, ElProxyAssumption DEF ToProxy
  <2>3. out' = o \/ out' = Append(o, f)
    BY <1>3 DEF Sent, f
  <2> QED
    BY <2>1, <2>2, <2>3
<1>6. TypeOK'
  <2>1. /\ rx' \in Seq(Sess \X (1..Chunks)) /\ got' \in Seq(Sess \X (1..Chunks))
        /\ Len(rx') <= RxCap
    BY <1>1, EmptySeq, ElProxyAssumption
  <2>2. sess' \in 0..MaxSess
    BY <1>1, <1>2 DEF Sess
  <2> QED
    BY <1>1, <1>5, <2>1, <2>2 DEF TypeOK
<1>7. ServerInv'
  <2>1. conn <= sess + 1
    BY <1>2
  <2>2. \A s \in Sess : s > sess + 1 => s > sess
    BY <1>2 DEF Sess
  <2> QED
    BY <1>1, <2>1, <2>2 DEF ServerInv
<1>8. NetInv'
  <2>1. \A p \in DOMAIN net : net[p].s <= sess + 1
    BY <1>2, Types DEF NetInv
  <2> QED
    BY <1>1, <2>1 DEF NetInv
<1>9. OutInv'
  <2>1. ASSUME NEW p \in DOMAIN out' PROVE conn <= out'[p].s /\ out'[p].s <= sess + 1
    BY <1>2, <1>3, <1>4, <1>5 DEF InOrder
  <2>2. ASSUME NEW p \in DOMAIN out', NEW q \in DOMAIN out', p < q
        PROVE  /\ p \in DOMAIN o /\ out'[p] = o[p]
               /\ out'[p].s <= out'[q].s
               /\ out'[q].type = "OPEN" => out'[p].s < out'[q].s
    <3>1. p \in DOMAIN o /\ out'[p] = o[p]
      BY <1>5, <2>2
    <3>2. CASE q \in DOMAIN o /\ out'[q] = o[q]
      BY <1>3, <2>2, <3>1, <3>2 DEF InOrder
    <3>3. CASE q = Len(o) + 1 /\ out'[q] = f
      <4>1. o[p].s <= sess /\ o[p].s \in Nat
        BY <1>3, <1>5, <3>1 DEF InOrder
      <4> QED
        BY <1>2, <1>4, <3>1, <3>3, <4>1
    <3> QED
      BY <1>5, <3>1, <3>2, <3>3
  <2>3. ASSUME NEW q \in DOMAIN out', out'[q].type = "OPEN"
        PROVE  /\ out'[q].s \in Sess /\ conn < out'[q].s /\ bound < out'[q].s
               /\ sent[out'[q].s] = 0 /\ ~closed[out'[q].s]
               /\ \A p \in DOMAIN net : net[p].s < out'[q].s
    <3>1. CASE q \in DOMAIN o /\ out'[q] = o[q]
      BY <1>3, <2>3, <3>1 DEF InOrder
    <3>2. CASE q = Len(o) + 1 /\ out'[q] = f
      <4>1. \A p \in DOMAIN net : net[p].s < sess + 1
        BY <1>2, Types DEF NetInv
      <4> QED
        BY <1>2, <1>4, <3>2, <4>1
    <3> QED
      BY <1>5, <3>1, <3>2
  <2> QED
    BY <1>1, <2>1, <2>2, <2>3 DEF OutInv, InOrder
<1>10. WorkerInv'
  <2>1. bound <= sess + 1 /\ bound # sess + 1 /\ conn # sess + 1
    BY <1>2
  <2>2. \A p \in DOMAIN out' : out'[p].type = "DATA" => out'[p].s < sess + 1
    BY <1>2, <1>3, <1>4, <1>5 DEF InOrder
  <2> QED
    BY <1>1, <1>2, <2>1, <2>2 DEF WorkerInv
<1>11. StreamInv'
  <2>1. bound' # sess'
    BY <1>1, <1>2
  <2> QED
    BY <2>1 DEF StreamInv
<1> QED
  BY <1>6, <1>7, <1>8, <1>9, <1>10, <1>11

(* What is left of a buffer q, and the reader's g, once n items are read. *)
LEMMA ReadFacts ==
  ASSUME NEW S, NEW g \in Seq(S), NEW q \in Seq(S), NEW n \in 1..Len(q)
  PROVE  /\ SubSeq(q, n + 1, Len(q)) \in Seq(S)
         /\ Len(SubSeq(q, n + 1, Len(q))) = Len(q) - n
         /\ \A p \in DOMAIN SubSeq(q, n + 1, Len(q)) :
              p \in Nat /\ p + n \in DOMAIN q /\ SubSeq(q, n + 1, Len(q))[p] = q[p + n]
         /\ SubSeq(q, 1, n) \in [1..n -> S]
         /\ \A p \in 1..n : p \in DOMAIN q /\ SubSeq(q, 1, n)[p] = q[p]
         /\ g \o SubSeq(q, 1, n) \in Seq(S)
         /\ Len(g \o SubSeq(q, 1, n)) = Len(g) + n
         /\ \A i \in 1..(Len(g) + n) :
              (g \o SubSeq(q, 1, n))[i] =
                IF i <= Len(g) THEN g[i] ELSE SubSeq(q, 1, n)[i - Len(g)]
<1>1. n \in 0..Len(q) /\ n \in Nat /\ Len(q) \in Nat /\ Len(g) \in Nat
  BY SeqFacts
<1>2. /\ SubSeq(q, 1, n) \in Seq(S)
      /\ Len(SubSeq(q, 1, n)) = n
      /\ \A p \in DOMAIN SubSeq(q, 1, n) :
           p \in 1..n /\ p \in DOMAIN q /\ SubSeq(q, 1, n)[p] = q[p]
      /\ \A p \in 1..n : p \in DOMAIN SubSeq(q, 1, n)
      /\ SubSeq(q, n + 1, Len(q)) \in Seq(S)
      /\ Len(SubSeq(q, n + 1, Len(q))) = Len(q) - n
      /\ \A p \in DOMAIN SubSeq(q, n + 1, Len(q)) :
           p \in Nat /\ p + n \in DOMAIN q /\ SubSeq(q, n + 1, Len(q))[p] = q[p + n]
  BY <1>1, PartFacts
<1>3. /\ g \o SubSeq(q, 1, n) \in Seq(S)
      /\ Len(g \o SubSeq(q, 1, n)) = Len(g) + n
      /\ \A i \in 1..(Len(g) + n) :
           (g \o SubSeq(q, 1, n))[i] =
             IF i <= Len(g) THEN g[i] ELSE SubSeq(q, 1, n)[i - Len(g)]
  <2> DEFINE u == SubSeq(q, 1, n)
  <2>1. u \in Seq(S) /\ Len(u) = n
    BY <1>2
  <2> HIDE DEF u
  <2>2. /\ g \o u \in Seq(S)
        /\ Len(g \o u) = Len(g) + Len(u)
        /\ \A i \in 1..(Len(g) + Len(u)) :
             (g \o u)[i] = IF i <= Len(g) THEN g[i] ELSE u[i - Len(g)]
    BY <2>1, ConcatProperties
  <2> QED
    BY <2>1, <2>2 DEF u
<1>4. SubSeq(q, 1, n) \in [1..n -> S]
  BY <1>2, LenProperties
<1> QED
  BY <1>1, <1>2, <1>3, <1>4

(* el_proxy_tcp_read moves chunks from the buffer to the reader. *)
LEMMA ReadPrefix ==
  ASSUME Inv, bound = sess, pc # "idle", NEW n \in 1..Len(rx),
         got' = got \o SubSeq(rx, 1, n), rx' = SubSeq(rx, n + 1, Len(rx)),
         UNCHANGED <<sess, sent>>
  PROVE  /\ Prefix' /\ Taken' = Taken
         /\ got' = got \o [i \in 1..n |-> <<sess, Len(got) + i>>]
         /\ Len(got) + n <= sent[sess]
<1> USE DEF Inv
<1>1. /\ Len(rx) \in Nat /\ Len(got) \in Nat /\ n \in Nat
      /\ n <= Len(rx)
      /\ rx \in Seq(Sess \X (1..Chunks)) /\ got \in Seq(Sess \X (1..Chunks))
      /\ DOMAIN got = 1..Len(got)
  BY Types
<1>2. Prefix /\ sess \in Sess /\ sent[sess] \in Nat
  BY Types DEF StreamInv, WorkerInv
<1> DEFINE r == SubSeq(rx, 1, n)
           S == Sess \X (1..Chunks)
<1>3. /\ Len(rx') = Len(rx) - n
      /\ \A p \in DOMAIN rx' : p \in Nat /\ p + n \in DOMAIN rx /\ rx'[p] = rx[p + n]
  <2>1. /\ Len(SubSeq(rx, n + 1, Len(rx))) = Len(rx) - n
        /\ \A p \in DOMAIN SubSeq(rx, n + 1, Len(rx)) :
             /\ p \in Nat /\ p + n \in DOMAIN rx
             /\ SubSeq(rx, n + 1, Len(rx))[p] = rx[p + n]
    BY <1>1, ReadFacts
  <2> QED
    BY <2>1, Zenon
<1>4. /\ got' \in Seq(S)
      /\ Len(got') = Len(got) + n
      /\ \A i \in 1..(Len(got) + n) :
           got'[i] = IF i <= Len(got) THEN got[i] ELSE r[i - Len(got)]
      /\ r \in [1..n -> S]
      /\ \A p \in 1..n : p \in DOMAIN rx /\ r[p] = rx[p]
  <2>1. rx \in Seq(S) /\ got \in Seq(S)
    BY <1>1
  <2> HIDE DEF S
  <2>2. /\ got \o r \in Seq(S)
        /\ Len(got \o r) = Len(got) + n
        /\ \A i \in 1..(Len(got) + n) :
             (got \o r)[i] = IF i <= Len(got) THEN got[i] ELSE r[i - Len(got)]
        /\ r \in [1..n -> S]
        /\ \A p \in 1..n : p \in DOMAIN rx /\ r[p] = rx[p]
    BY <2>1, ReadFacts
  <2>3. got' = got \o r
    OBVIOUS
  <2> HIDE DEF r
  <2> QED
    BY <2>2, <2>3
<1> HIDE DEF r, S
<1>5. \A p \in 1..n : r[p] = <<sess, Len(got) + p>>
  BY <1>2, <1>4 DEF Prefix
<1>6. DOMAIN got' = 1..(Len(got) + n)
  BY <1>4, SeqFacts
<1>7. ASSUME NEW j \in DOMAIN got' PROVE got'[j] = <<sess, j>>
  <2>1. j \in 1..(Len(got) + n) /\ j \in Nat
    BY <1>1, <1>6
  <2>2. CASE j <= Len(got)
    <3>1. j \in DOMAIN got
      BY <1>1, <2>1, <2>2
    <3> QED
      BY <1>2, <1>4, <2>1, <2>2, <3>1 DEF Prefix
  <2>3. CASE ~(j <= Len(got))
    <3>1. j - Len(got) \in 1..n /\ Len(got) + (j - Len(got)) = j
      BY <1>1, <2>1, <2>3
    <3> QED
      BY <1>4, <1>5, <2>1, <2>3, <3>1
  <2> QED
    BY <2>2, <2>3
<1>8. ASSUME NEW j \in DOMAIN rx' PROVE rx'[j] = <<sess, Len(got') + j>>
  <2>1. rx'[j] = <<sess, Len(got) + (j + n)>> /\ j \in Nat
    BY <1>2, <1>3 DEF Prefix
  <2>2. Len(got) + (j + n) = Len(got') + j
    BY <1>1, <1>4, <2>1
  <2> QED
    BY <2>1, <2>2
<1>9. Taken' = Taken /\ Len(got) + n <= Taken /\ Taken \in Nat
  <2>1. Taken = Len(got) + Len(rx) /\ Taken' = Len(got') + Len(rx')
    BY DEF Taken
  <2>2. Len(got') + Len(rx') = (Len(got) + n) + (Len(rx) - n)
    BY <1>3, <1>4
  <2>3. (Len(got) + n) + (Len(rx) - n) = Len(got) + Len(rx)
    BY <1>1
  <2>4. Len(got) + n <= Len(got) + Len(rx) /\ Len(got) + Len(rx) \in Nat
    BY <1>1
  <2> QED
    BY <2>1, <2>2, <2>3, <2>4
<1>10. Prefix'
  BY <1>2, <1>7, <1>8, <1>9 DEF Prefix
<1>11. Len(got) + n <= sent[sess]
  BY <1>1, <1>2, <1>9 DEF Prefix
<1>12. r = [i \in 1..n |-> <<sess, Len(got) + i>>]
  BY <1>4, <1>5
<1> QED
  BY <1>9, <1>10, <1>11, <1>12 DEF r

(* Steps of the worker that leave wire and buffer alone. *)
LEMMA QuietWorkerStep ==
  ASSUME Inv, TcpOpenReturn \/ TcpOpenTimeout \/ TcpReadEof \/ TcpReadTimeout
  PROVE  Inv'
<1> USE DEF Inv
<1>1. /\ pc # "idle"
      /\ UNCHANGED <<ready, backoff, rx, sess, bound, got, up, out, net,
                     conn, asked, sent, closed, faults>>
  BY DEF TcpOpenReturn, TcpOpenTimeout, TcpReadEof, TcpReadTimeout, history, server
<1>2. /\ pc' \in {"idle", "opened", "closing"}
      /\ tcp' = "DISC" \/ (tcp' = tcp /\ tcp # "CONNECTING")
      /\ eof' \in BOOLEAN
      /\ eof' => eof \/ pc' = "closing"
  <2>1. CASE TcpOpenReturn
    BY <2>1 DEF TcpOpenReturn, history, TypeOK
  <2>2. CASE TcpOpenTimeout
    BY <2>2 DEF TcpOpenTimeout, history, TypeOK
  <2>3. CASE TcpReadEof
    BY <2>3 DEF TcpReadEof, WorkerInv
  <2>4. CASE TcpReadTimeout
    BY <2>4 DEF TcpReadTimeout, history, TypeOK
  <2> QED
    BY <2>1, <2>2, <2>3, <2>4
<1>3. eof => pc = "closing"
  BY <1>1 DEF WorkerInv
<1>4. pc # "closing"
  BY DEF TcpOpenReturn, TcpOpenTimeout, TcpReadEof, TcpReadTimeout
<1>5. TypeOK'
  BY <1>1, <1>2 DEF TypeOK
<1>6. ServerInv' /\ NetInv' /\ OutInv'
  BY <1>1 DEF ServerInv, NetInv, OutInv, InOrder
<1>7. WorkerInv'
  BY <1>1, <1>2, <1>3, <1>4 DEF WorkerInv
<1>8. StreamInv'
  <2>1. SUFFICES ASSUME bound = sess
                 PROVE  (WireOwn /\ Prefix /\ WireOrder /\ WireWhole /\ AllTaken)'
    BY <1>1 DEF StreamInv
  <2>2. (WireOwn /\ Prefix /\ WireOrder /\ WireWhole)'
    BY <1>1, <2>1, SameStream DEF StreamInv
  <2>3. AllTaken'
    BY <1>2 DEF AllTaken
  <2> QED
    BY <2>2, <2>3
<1> QED
  BY <1>5, <1>6, <1>7, <1>8

(* Steps of the worker that write, read or close. *)
LEMMA BusyWorkerStep ==
  ASSUME Inv, TcpWrite \/ TcpRead \/ TcpClose
  PROVE  Inv'
<1> USE DEF Inv
<1>1. CASE TcpWrite
  <2>1. /\ pc = "opened" /\ pc' \in {"reading", "closing"}
        /\ pc' = "reading" => ready /\ tcp = "CONNECTED"
        /\ out' = out \/ (ready /\ out' = Sent(out, Frame("DATA", sess, 0)))
        /\ UNCHANGED <<ready, backoff, tcp, rx, sess, bound, got, eof, up, net,
                       conn, asked, sent, closed, faults>>
    BY <1>1 DEF TcpWrite, history, server
  <2>2. out' \in Seq(ToProxy) /\ InOrder(out')
    BY <2>1, Types, SentInOrder DEF OutInv
  <2>3. TypeOK'
    BY <2>1, <2>2 DEF TypeOK
  <2>4. ServerInv' /\ NetInv'
    BY <2>1 DEF ServerInv, NetInv
  <2>5. OutInv'
    BY <2>1, <2>2 DEF OutInv, InOrder
  <2>6. WorkerInv'
    BY <2>1 DEF WorkerInv
  <2>7. StreamInv'
    <3>1. SUFFICES ASSUME bound = sess
                   PROVE  (WireOwn /\ Prefix /\ WireOrder /\ WireWhole /\ AllTaken)'
      BY <2>1 DEF StreamInv
    <3>2. (WireOwn /\ Prefix /\ WireOrder /\ WireWhole)'
      BY <2>1, <3>1, SameStream DEF StreamInv
    <3>3. AllTaken'
      BY <2>1 DEF AllTaken
    <3> QED
      BY <3>2, <3>3
  <2> QED
    BY <2>3, <2>4, <2>5, <2>6, <2>7
<1>2. CASE TcpRead
  <2>1. PICK n \in 1..Len(rx) : /\ got' = got \o SubSeq(rx, 1, n)
                                /\ rx' = SubSeq(rx, n + 1, Len(rx))
    BY <1>2 DEF TcpRead
  <2>2. /\ pc = "reading" /\ pc' \in {"reading", "closing"} /\ rx # <<>>
        /\ UNCHANGED <<ready, backoff, tcp, sess, bound, eof, up, out, net,
                       conn, asked, sent, closed, faults>>
    BY <1>2 DEF TcpRead, server
  <2>3. TypeOK'
    <3>1. n \in 0..Len(rx) /\ n \in Nat /\ Len(rx) \in Nat
      BY Types
    <3>2. /\ rx' \in Seq(Sess \X (1..Chunks)) /\ Len(rx') = Len(rx) - n
          /\ got' \in Seq(Sess \X (1..Chunks))
      <4>1. rx \in Seq(Sess \X (1..Chunks)) /\ got \in Seq(Sess \X (1..Chunks))
        BY Types
      <4>2. /\ SubSeq(rx, n + 1, Len(rx)) \in Seq(Sess \X (1..Chunks))
            /\ Len(SubSeq(rx, n + 1, Len(rx))) = Len(rx) - n
            /\ got \o SubSeq(rx, 1, n) \in Seq(Sess \X (1..Chunks))
        BY <4>1, ReadFacts
      <4> QED
        BY <2>1, <4>2, Zenon
    <3>3. Len(rx') <= RxCap
      <4>1. Len(rx) <= RxCap /\ RxCap \in Nat
        BY ElProxyAssumption DEF TypeOK
      <4> QED
        BY <3>1, <3>2, <4>1
    <3> QED
      BY <2>2, <3>2, <3>3 DEF TypeOK
  <2>4. ready
    BY <2>2 DEF ServerInv
  <2>5. ServerInv' /\ NetInv' /\ OutInv'
    BY <2>2, <2>4 DEF ServerInv, NetInv, OutInv, InOrder
  <2>6. WorkerInv'
    BY <2>2 DEF WorkerInv
  <2>7. StreamInv'
    <3>1. SUFFICES ASSUME bound = sess
                   PROVE  (WireOwn /\ Prefix /\ WireOrder /\ WireWhole /\ AllTaken)'
      BY <2>2 DEF StreamInv
    <3>2. Prefix' /\ Taken' = Taken
      BY <2>1, <2>2, <3>1, ReadPrefix
    <3>3. WireOwn /\ WireOrder /\ WireWhole /\ AllTaken
      BY <2>2, <3>1 DEF StreamInv
    <3>4. WireOwn' /\ WireOrder' /\ WireWhole'
      BY <2>2, <3>2, <3>3 DEF WireOwn, WireOrder, WireWhole
    <3>5. AllTaken'
      BY <2>2, <3>2, <3>3 DEF AllTaken
    <3> QED
      BY <3>2, <3>4, <3>5
  <2> QED
    BY <2>3, <2>5, <2>6, <2>7
<1>3. CASE TcpClose
  <2>1. /\ pc = "closing" /\ pc' = "idle" /\ tcp' = "DISC" /\ rx' = <<>>
        /\ out' = out \/ (ready /\ out' = Sent(out, Frame("CLOSE", sess, 0)))
        /\ UNCHANGED <<ready, backoff, sess, bound, got, eof, up, net,
                       conn, asked, sent, closed, faults>>
    BY <1>3 DEF TcpClose, history, server
  <2>2. out' \in Seq(ToProxy) /\ InOrder(out')
    BY <2>1, Types, SentInOrder DEF OutInv
  <2>3. TypeOK'
    <3>1. rx' \in Seq(Sess \X (1..Chunks)) /\ Len(rx') <= RxCap
      BY <2>1, EmptySeq, ElProxyAssumption
    <3> QED
      BY <2>1, <2>2, <3>1 DEF TypeOK
  <2>4. ServerInv' /\ NetInv'
    BY <2>1 DEF ServerInv, NetInv
  <2>5. OutInv'
    BY <2>1, <2>2 DEF OutInv, InOrder
  <2>6. WorkerInv' /\ StreamInv'
    BY <2>1 DEF WorkerInv, StreamInv
  <2> QED
    BY <2>3, <2>4, <2>5, <2>6
<1> QED
  BY <1>1, <1>2, <1>3


-----------------------------------------------------------------------------
(* The proxy and the directory *)

(* A frame is put on the wire to the client. *)
LEMMA NetAppend ==
  ASSUME TypeOK, NEW f \in ToClient, net' = Append(net, f)
  PROVE  /\ net' \in Seq(ToClient) /\ Len(net') = Len(net) + 1
         /\ net'[Len(net) + 1] = f /\ Len(net) + 1 \in DOMAIN net'
         /\ \A p \in DOMAIN net : p \in DOMAIN net' /\ net'[p] = net[p]
         /\ \A p \in DOMAIN net' : p \in DOMAIN net \/ p = Len(net) + 1
         /\ \A p \in DOMAIN net : p \in Nat /\ p < Len(net) + 1
         /\ Len(net) \in Nat
  BY Types, AppendFacts

\* A frame put at the end leaves the chunks on the wire where they are.
LEMMA OnWireAppend ==
  ASSUME TypeOK, NEW f \in ToClient, net' = Append(net, f), NEW k, NEW n,
         OnWire(net, k, n)
  PROVE  OnWire(net', k, n)
  BY NetAppend DEF OnWire

(* It keeps the frames in order if its channel is none or the latest. *)
LEMMA AppendInv ==
  ASSUME Inv, NEW f \in ToClient, net' = Append(net, f), sess' = sess,
         f.s <= sess,
         f.s = 0 \/ \A p \in DOMAIN net : net[p].s <= f.s,
         f.type \notin {"UDP", "SYSTEM"} => f.s \in Sess,
         \A s \in Sess : /\ sent[s] <= sent'[s] /\ sent'[s] \in Nat
                         /\ closed[s] => closed'[s],
         f.type = "DATA" => f.i \in 1..sent'[f.s],
         f.type = "CLOSE" => closed'[f.s]
  PROVE  NetInv'
<1> USE DEF Inv
<1>1. /\ net'[Len(net) + 1] = f
      /\ \A p \in DOMAIN net : net'[p] = net[p]
      /\ \A p \in DOMAIN net' : p \in DOMAIN net \/ p = Len(net) + 1
      /\ \A p \in DOMAIN net : p \in Nat /\ p < Len(net) + 1
      /\ Len(net) \in Nat
  BY NetAppend
<1>2. \A p \in DOMAIN net' : net'[p].s <= sess
  BY <1>1 DEF NetInv
<1>3. ASSUME NEW p \in DOMAIN net', NEW q \in DOMAIN net', p < q,
             net'[p].s # 0, net'[q].s # 0
      PROVE  net'[p].s <= net'[q].s
  <2>1. p \in DOMAIN net
    BY <1>1, <1>3
  <2>2. CASE q \in DOMAIN net
    BY <1>1, <1>3, <2>1, <2>2 DEF NetInv
  <2>3. CASE q = Len(net) + 1
    BY <1>1, <1>3, <2>1, <2>3
  <2> QED
    BY <1>1, <2>2, <2>3
<1>4. ASSUME NEW p \in DOMAIN net'
      PROVE  /\ net'[p].type \notin {"UDP", "SYSTEM"} => net'[p].s \in Sess
             /\ net'[p].type = "DATA" => net'[p].i \in 1..sent'[net'[p].s]
             /\ net'[p].type = "CLOSE" => closed'[net'[p].s]
  <2>1. CASE p \in DOMAIN net
    <3>1. net'[p] = net[p]
      BY <1>1, <2>1
    <3>2. CASE net[p].type = "DATA"
      <4>1. net[p].s \in Sess /\ net[p].i \in 1..sent[net[p].s]
        BY <2>1, <3>2 DEF NetInv
      <4>2. /\ sent[net[p].s] \in Nat /\ sent'[net[p].s] \in Nat
            /\ sent[net[p].s] <= sent'[net[p].s]
        BY <4>1, Types
      <4>3. \A a \in Nat, b \in Nat : a <= b => \A k \in 1..a : k \in 1..b
        OBVIOUS
      <4>4. net[p].i \in 1..sent'[net[p].s]
        BY <4>1, <4>2, <4>3
      <4> QED
        BY <3>1, <3>2, <4>1, <4>4
    <3>3. CASE net[p].type # "DATA"
      BY <2>1, <3>1, <3>3 DEF NetInv
    <3> QED
      BY <3>2, <3>3
  <2>2. CASE p = Len(net) + 1
    BY <1>1, <2>2
  <2> QED
    BY <1>1, <2>1, <2>2
<1> QED
  BY <1>2, <1>3, <1>4 DEF NetInv

(* A frame of the conference, or one that turns the client away. *)
LEMMA AppendOther ==
  ASSUME Inv, up, NEW t \in {"UDP", "SYSTEM"}, net' = Append(net, Frame(t, 0, 0)),
         faults' \in 0..MaxFaults,
         UNCHANGED <<ready, backoff, tcp, rx, pc, sess, bound, got, eof, up, out,
                     conn, asked, sent, closed>>
  PROVE  Inv'
<1> USE DEF Inv
<1> DEFINE f == Frame(t, 0, 0)
<1>1. f \in ToClient /\ f.s = 0 /\ f.type \in {"UDP", "SYSTEM"}
  BY ElProxyAssumption DEF Frame, ToClient
<1>2. net' = Append(net, f)
  OBVIOUS
<1> HIDE DEF f
<1>3. /\ net' \in Seq(ToClient)
      /\ net'[Len(net) + 1] = f
      /\ \A p \in DOMAIN net : net'[p] = net[p]
      /\ \A p \in DOMAIN net' : p \in DOMAIN net \/ p = Len(net) + 1
      /\ Len(net) \in Nat /\ Len(net') = Len(net) + 1
      /\ \A p \in DOMAIN net : p \in Nat /\ p < Len(net) + 1
  BY <1>1, <1>2, NetAppend
<1>4. TypeOK'
  BY <1>3 DEF TypeOK
<1>5. ready
  BY DEF ServerInv
<1>6. ServerInv'
  <2>1. \A p \in DOMAIN net' : conn # 0 => net'[p].s <= conn
    BY <1>1, <1>3, Types DEF ServerInv
  <2> QED
    BY <1>5, <2>1 DEF ServerInv
<1>7. OutInv'
  <2>1. ASSUME NEW q \in DOMAIN out, out[q].type = "OPEN", NEW p \in DOMAIN net'
        PROVE  net'[p].s < out[q].s
    <3>1. 0 < out[q].s
      BY <2>1 DEF OutInv, InOrder, Sess
    <3> QED
      BY <1>1, <1>3, <2>1, <3>1 DEF OutInv, InOrder
  <2> QED
    BY <2>1 DEF OutInv, InOrder
<1>8. NetInv'
  <2>1. 0 <= sess /\ \A s \in Sess : sent[s] <= sent[s] /\ sent[s] \in Nat
    BY Types
  <2> QED
    BY <1>1, <1>2, <2>1, AppendInv
<1>9. WorkerInv'
  BY DEF WorkerInv
<1>10. StreamInv'
  <2>1. SUFFICES ASSUME bound = sess, pc # "idle"
                 PROVE  (WireOwn /\ Prefix /\ WireOrder /\ WireWhole /\ AllTaken)'
    BY DEF StreamInv
  <2>2. WireOwn /\ Prefix /\ WireOrder /\ WireWhole /\ AllTaken
    BY <2>1 DEF StreamInv
  <2>3. Taken' = Taken
    BY DEF Taken
  <2>4. WireOwn' /\ Prefix' /\ AllTaken'
    BY <1>1, <1>3, <2>2, <2>3 DEF WireOwn, Prefix, AllTaken
  <2>5. \A k, n : OnWire(net, k, n) => OnWire(net', k, n)
    BY <1>1, <1>2, OnWireAppend
  <2>6. \A p \in DOMAIN net' : net'[p].type \in {"DATA", "CLOSE"} =>
          p \in DOMAIN net /\ net'[p] = net[p]
    BY <1>1, <1>3
  <2>7. WireOrder'
    BY <2>2, <2>3, <2>5, <2>6 DEF WireOrder
  <2>8. WireWhole'
    <3>1. \A k : OnWire(net, k, Len(net) + 1) => OnWire(net', k, Len(net') + 1)
      <4>1. SUFFICES ASSUME NEW k, OnWire(net, k, Len(net) + 1)
                     PROVE  OnWire(net', k, Len(net') + 1)
        OBVIOUS
      <4>2. PICK q \in DOMAIN net' : q < Len(net) + 1 /\ net'[q].type = "DATA" /\ net'[q].i = k
        BY <2>5, <4>1 DEF OnWire
      <4>3. q < Len(net') + 1
        BY <1>3, <4>2, Types
      <4> QED
        BY <4>2, <4>3 DEF OnWire
    <3> QED
      BY <2>2, <2>3, <2>5, <2>6, <3>1 DEF WireWhole
  <2> QED
    BY <2>4, <2>7, <2>8
<1> QED
  BY <1>4, <1>6, <1>7, <1>8, <1>9, <1>10

(* The proxy takes an OPEN, a DATA or a CLOSE. *)
LEMMA ReceiveStep ==
  ASSUME Inv, ProxyReceive
  PROVE  Inv'
<1> USE DEF Inv
<1> DEFINE m == Head(out)
<1>1. /\ out # <<>> /\ out' = Tail(out)
      /\ UNCHANGED <<ready, backoff, tcp, rx, pc, sess, bound, got, eof, up,
                     sent, closed, faults>>
  BY DEF ProxyReceive, client, history
<1>2. /\ m = out[1] /\ 1 \in DOMAIN out /\ m \in ToProxy /\ out' \in Seq(ToProxy)
      /\ \A p \in DOMAIN out' :
           p \in Nat \ {0} /\ p + 1 \in DOMAIN out /\ out'[p] = out[p + 1]
  BY <1>1, Types, TailFacts
<1>3. \/ /\ m.type = "OPEN" /\ asked' = FALSE
         /\ \/ conn' = m.s /\ net' = Append(net, Frame("STATUS_OK", m.s, 0))
            \/ conn' = 0 /\ net' = Append(net, Frame("STATUS_FAIL", m.s, 0))
      \/ m.type = "DATA" /\ asked' = (conn # 0) /\ UNCHANGED <<conn, net>>
      \/ m.type = "CLOSE" /\ conn' = 0 /\ asked' = FALSE /\ net' = net
  BY DEF ProxyReceive
<1> HIDE DEF m
<1>4. ready
  BY <1>1 DEF ServerInv
<1>5. m.s \in 0..MaxSess /\ m.s \in Nat /\ conn <= m.s /\ m.s <= sess
  BY <1>2, Types DEF ToProxy, OutInv, InOrder
<1>6. TypeOK' /\ conn' \in Nat
  <2>1. asked' \in BOOLEAN
    BY <1>3
  <2>2. conn' \in 0..MaxSess
    BY <1>3, <1>5, ElProxyAssumption DEF TypeOK
  <2>3. net' \in Seq(ToClient)
    <3>1. /\ Frame("STATUS_OK", m.s, 0) \in ToClient
          /\ Frame("STATUS_FAIL", m.s, 0) \in ToClient
      BY <1>5, ElProxyAssumption DEF Frame, ToClient
    <3>2. /\ net \in Seq(ToClient)
          /\ Append(net, Frame("STATUS_OK", m.s, 0)) \in Seq(ToClient)
          /\ Append(net, Frame("STATUS_FAIL", m.s, 0)) \in Seq(ToClient)
      BY <3>1, Types, AppendFacts
    <3> QED
      BY <1>3, <3>2
  <2> QED
    BY <1>1, <1>2, <2>1, <2>2, <2>3 DEF TypeOK
<1>7. WorkerInv'
  <2>1. SUFFICES ASSUME pc = "opening"
                 PROVE  /\ asked' => conn' # sess
                        /\ \A p \in DOMAIN out' : out'[p].type = "DATA" => out'[p].s < sess
    BY <1>1 DEF WorkerInv
  <2>2. \A p \in DOMAIN out' : out'[p].type = "DATA" => out'[p].s < sess
    BY <1>2, <2>1 DEF WorkerInv
  <2>3. asked' => conn' # sess
    <3>1. SUFFICES ASSUME m.type = "DATA", conn' = conn
                   PROVE  conn' # sess
      BY <1>3
    <3>2. m.s < sess
      BY <1>2, <2>1, <3>1 DEF WorkerInv
    <3> QED
      BY <1>5, <3>1, <3>2, Types
  <2> QED
    BY <2>2, <2>3
<1>8. CASE m.type = "OPEN"
  <2>1. PICK f \in ToClient : /\ net' = Append(net, f) /\ f.s = m.s
                              /\ f.type \in {"STATUS_OK", "STATUS_FAIL"}
                              /\ conn' \in {0, m.s}
    <3>1. /\ Frame("STATUS_OK", m.s, 0) \in ToClient
          /\ Frame("STATUS_FAIL", m.s, 0) \in ToClient
          /\ Frame("STATUS_OK", m.s, 0).s = m.s
          /\ Frame("STATUS_FAIL", m.s, 0).s = m.s
          /\ Frame("STATUS_OK", m.s, 0).type = "STATUS_OK"
          /\ Frame("STATUS_FAIL", m.s, 0).type = "STATUS_FAIL"
      BY <1>5, ElProxyAssumption DEF Frame, ToClient
    <3>2. CASE net' = Append(net, Frame("STATUS_OK", m.s, 0)) /\ conn' = m.s
      BY <3>1, <3>2
    <3>3. CASE net' = Append(net, Frame("STATUS_FAIL", m.s, 0)) /\ conn' = 0
      BY <3>1, <3>3
    <3> QED
      BY <1>3, <1>8, <3>2, <3>3
  <2>2. /\ m.s \in Sess /\ bound < m.s /\ ~closed[m.s]
        /\ \A p \in DOMAIN net : net[p].s < m.s
    BY <1>2, <1>8 DEF OutInv, InOrder
  <2>3. /\ net'[Len(net) + 1] = f
        /\ \A p \in DOMAIN net : net'[p] = net[p]
        /\ \A p \in DOMAIN net' : p \in DOMAIN net \/ p = Len(net) + 1
    BY <2>1, NetAppend
  <2>4. \A p \in DOMAIN net' : net'[p].s <= m.s
    BY <1>5, <2>1, <2>2, <2>3, Types
  <2>5. ServerInv'
    <3>1. conn' <= sess
      BY <1>5, <2>1, Types
    <3>2. conn' # 0 => ~closed'[conn'] /\ \A p \in DOMAIN net' : net'[p].s <= conn'
      BY <1>1, <2>1, <2>2, <2>4
    <3> QED
      BY <1>1, <1>4, <3>1, <3>2 DEF ServerInv
  <2>6. OutInv'
    <3>1. ASSUME NEW p \in DOMAIN out' PROVE conn' <= out'[p].s /\ out'[p].s <= sess
      <4>1. p + 1 \in DOMAIN out /\ out'[p] = out[p + 1] /\ 1 < p + 1
        BY <1>2
      <4>2. m.s <= out[p + 1].s /\ out[p + 1].s <= sess /\ out[p + 1].s \in Nat
        BY <1>2, <4>1, Types DEF OutInv, InOrder
      <4> QED
        BY <1>5, <2>1, <4>1, <4>2
    <3>2. ASSUME NEW p \in DOMAIN out', NEW q \in DOMAIN out', p < q
          PROVE  /\ out'[p].s <= out'[q].s
                 /\ out'[q].type = "OPEN" => out'[p].s < out'[q].s
      <4>1. p + 1 < q + 1
        BY <1>2, <3>2
      <4> QED
        BY <1>2, <4>1 DEF OutInv, InOrder
    <3>3. ASSUME NEW q \in DOMAIN out', out'[q].type = "OPEN"
          PROVE  /\ out'[q].s \in Sess /\ conn' < out'[q].s /\ bound < out'[q].s
                 /\ sent[out'[q].s] = 0 /\ ~closed[out'[q].s]
                 /\ \A p \in DOMAIN net' : net'[p].s < out'[q].s
      <4>1. q + 1 \in DOMAIN out /\ out'[q] = out[q + 1] /\ 1 < q + 1
        BY <1>2
      <4>2. /\ out'[q].s \in Sess /\ bound < out'[q].s
            /\ sent[out'[q].s] = 0 /\ ~closed[out'[q].s] /\ m.s < out'[q].s
        BY <1>2, <3>3, <4>1 DEF OutInv, InOrder
      <4>3. out'[q].s \in Nat /\ 0 < out'[q].s
        BY <4>2 DEF Sess
      <4>4. \A p \in DOMAIN net' : net'[p].s < out'[q].s
        <5>1. \A p \in DOMAIN net' : p \in DOMAIN net \/ net'[p].s = m.s
          BY <2>1, <2>3
        <5>2. \A p \in DOMAIN net : net'[p] = net[p] /\ net[p].s \in Nat /\ net[p].s < m.s
          BY <2>2, <2>3, Types
        <5> QED
          BY <1>5, <4>2, <4>3, <5>1, <5>2
      <4> QED
        BY <2>1, <4>2, <4>3, <4>4
    <3> QED
      BY <1>1, <3>1, <3>2, <3>3 DEF OutInv, InOrder
  <2>7. NetInv'
    <3>1. f.s <= sess /\ \A p \in DOMAIN net : net[p].s <= f.s
      BY <1>5, <2>1, <2>2, Types
    <3>2. \A s \in Sess : /\ sent[s] <= sent'[s] /\ sent'[s] \in Nat
                          /\ closed[s] => closed'[s]
      BY <1>1, Types
    <3> QED
      BY <1>1, <2>1, <2>2, <3>1, <3>2, AppendInv
  <2>8. StreamInv'
    <3>1. bound # sess
      BY <1>5, <2>2, Types
    <3> QED
      BY <1>1, <3>1 DEF StreamInv
  <2> QED
    BY <1>6, <1>7, <2>5, <2>6, <2>7, <2>8
<1>9. CASE m.type # "OPEN"
  <2>1. net' = net /\ conn' \in {0, conn}
    BY <1>3, <1>9
  <2>2. ServerInv' /\ NetInv'
    <3>1. conn' <= sess
      BY <2>1, Types DEF ServerInv
    <3> QED
      BY <1>1, <1>4, <2>1, <3>1 DEF ServerInv, NetInv
  <2>3. OutInv'
    <3>1. ASSUME NEW p \in DOMAIN out' PROVE conn' <= out'[p].s /\ out'[p].s <= sess
      <4>1. p + 1 \in DOMAIN out /\ out'[p] = out[p + 1]
        BY <1>2
      <4>2. conn <= out[p + 1].s /\ out[p + 1].s <= sess /\ out[p + 1].s \in Nat
        BY <4>1, Types DEF OutInv, InOrder
      <4> QED
        BY <2>1, <4>1, <4>2
    <3>2. ASSUME NEW p \in DOMAIN out', NEW q \in DOMAIN out', p < q
          PROVE  /\ out'[p].s <= out'[q].s
                 /\ out'[q].type = "OPEN" => out'[p].s < out'[q].s
      <4>1. p + 1 < q + 1
        BY <1>2, <3>2
      <4> QED
        BY <1>2, <4>1 DEF OutInv, InOrder
    <3>3. ASSUME NEW q \in DOMAIN out', out'[q].type = "OPEN"
          PROVE  /\ out'[q].s \in Sess /\ conn' < out'[q].s /\ bound < out'[q].s
                 /\ sent[out'[q].s] = 0 /\ ~closed[out'[q].s]
                 /\ \A p \in DOMAIN net : net[p].s < out'[q].s
      <4>1. /\ out'[q].s \in Sess /\ conn < out'[q].s /\ bound < out'[q].s
            /\ sent[out'[q].s] = 0 /\ ~closed[out'[q].s]
            /\ \A p \in DOMAIN net : net[p].s < out'[q].s
        BY <1>2, <3>3 DEF OutInv, InOrder
      <4>2. 0 < out'[q].s
        BY <4>1 DEF Sess
      <4> QED
        BY <2>1, <4>1, <4>2
    <3> QED
      BY <1>1, <2>1, <3>1, <3>2, <3>3 DEF OutInv, InOrder
  <2>4. StreamInv'
    <3>1. SUFFICES ASSUME bound = sess, pc # "idle"
                   PROVE  (WireOwn /\ Prefix /\ WireOrder /\ WireWhole /\ AllTaken)'
      BY <1>1 DEF StreamInv
    <3>2. WireOwn /\ Prefix /\ WireOrder /\ WireWhole /\ AllTaken
      BY <3>1 DEF StreamInv
    <3>3. Taken' = Taken
      BY <1>1 DEF Taken
    <3>4. WireOwn' /\ Prefix' /\ AllTaken'
      BY <1>1, <2>1, <3>2, <3>3 DEF WireOwn, Prefix, AllTaken
    <3>5. conn' = sess => conn = sess
      <4>1. sess # 0
        BY <3>1 DEF WorkerInv, Sess
      <4> QED
        BY <2>1, <4>1
    <3>6. WireOrder' /\ WireWhole'
      BY <1>1, <2>1, <3>2, <3>3, <3>5 DEF WireOrder, WireWhole
    <3> QED
      BY <3>4, <3>6
  <2> QED
    BY <1>6, <1>7, <2>2, <2>3, <2>4
<1> QED
  BY <1>8, <1>9

(* The directory answers: its chunk is the next of the present channel. *)
LEMMA AnswerStep ==
  ASSUME Inv, DirectorySends
  PROVE  Inv'
<1> USE DEF Inv
<1> DEFINE f == Frame("DATA", conn, sent[conn] + 1)
<1>1. /\ conn # 0 /\ asked /\ sent[conn] < Chunks /\ net' = Append(net, f)
      /\ sent' = [sent EXCEPT ![conn] = @ + 1]
      /\ UNCHANGED <<ready, backoff, tcp, rx, pc, sess, bound, got, eof, up, out,
                     conn, asked, closed, faults>>
  BY DEF DirectorySends, client, history
<1>2. /\ conn \in Sess /\ conn <= sess /\ sent[conn] \in Nat /\ Chunks \in Nat
      /\ ~closed[conn] /\ \A p \in DOMAIN net : net[p].s <= conn
      /\ ready
  <2>1. conn \in Sess /\ Chunks \in Nat
    BY <1>1, ElProxyAssumption DEF TypeOK, Sess
  <2> QED
    BY <1>1, <2>1, Types DEF ServerInv
<1>3. f \in ToClient /\ f.type = "DATA" /\ f.s = conn /\ f.i = sent[conn] + 1
  <2>1. sent[conn] + 1 \in 0..Chunks /\ conn \in 0..MaxSess
    BY <1>1, <1>2 DEF Sess
  <2> QED
    BY <2>1 DEF Frame, ToClient
<1> HIDE DEF f
<1>4. /\ net' \in Seq(ToClient) /\ Len(net') = Len(net) + 1
      /\ net'[Len(net) + 1] = f /\ Len(net) + 1 \in DOMAIN net'
      /\ \A p \in DOMAIN net : net'[p] = net[p]
      /\ \A p \in DOMAIN net' : p \in DOMAIN net \/ p = Len(net) + 1
      /\ \A p \in DOMAIN net : p \in Nat /\ p < Len(net) + 1
      /\ Len(net) \in Nat
  BY <1>1, <1>3, NetAppend
<1>5. /\ sent'[conn] = sent[conn] + 1
      /\ \A s \in Sess : s # conn => sent'[s] = sent[s]
  BY <1>1, <1>2 DEF TypeOK
<1>6. TypeOK'
  <2>1. sent[conn] + 1 \in 0..Chunks
    BY <1>1, <1>2
  <2>2. sent' \in [Sess -> 0..Chunks]
    BY <1>1, <1>2, <2>1 DEF TypeOK
  <2> QED
    BY <1>1, <1>4, <2>2 DEF TypeOK
<1>7. ServerInv'
  <2>1. \A p \in DOMAIN net' : net'[p].s <= conn
    <3>1. conn <= conn
      BY Types
    <3> QED
      BY <1>2, <1>3, <1>4, <3>1
  <2>2. \A s \in Sess : s > sess => s # conn
    BY <1>2, Types DEF Sess
  <2> QED
    BY <1>1, <1>2, <1>5, <2>1, <2>2 DEF ServerInv
<1>8. OutInv'
  <2>1. ASSUME NEW q \in DOMAIN out, out[q].type = "OPEN"
        PROVE  sent'[out[q].s] = 0 /\ \A p \in DOMAIN net' : net'[p].s < out[q].s
    <3>1. /\ out[q].s \in Sess /\ conn < out[q].s /\ sent[out[q].s] = 0
          /\ \A p \in DOMAIN net : net[p].s < out[q].s
      BY <2>1 DEF OutInv, InOrder
    <3>2. out[q].s # conn
      BY <3>1, Types
    <3> QED
      BY <1>3, <1>4, <1>5, <3>1, <3>2
  <2> QED
    BY <1>1, <2>1 DEF OutInv, InOrder
<1>9. NetInv'
  <2>1. \A s \in Sess : /\ sent[s] <= sent'[s] /\ sent'[s] \in Nat
                        /\ closed[s] => closed'[s]
    BY <1>1, <1>2, <1>5, Types
  <2>2. f.i \in 1..sent'[f.s]
    BY <1>2, <1>3, <1>5
  <2> QED
    BY <1>1, <1>2, <1>3, <2>1, <2>2, AppendInv
<1>10. WorkerInv'
  <2>1. pc = "opening" => sent'[sess] = 0
    BY <1>1, <1>5 DEF WorkerInv
  <2> QED
    BY <1>1, <2>1 DEF WorkerInv
<1>11. StreamInv'
  <2>1. SUFFICES ASSUME bound = sess, pc # "idle"
                 PROVE  (WireOwn /\ Prefix /\ WireOrder /\ WireWhole /\ AllTaken)'
    BY <1>1 DEF StreamInv
  <2>2. WireOwn /\ Prefix /\ WireOrder /\ WireWhole /\ AllTaken
    BY <2>1 DEF StreamInv
  <2>3. conn = sess /\ sess # 0
    BY <1>1, <2>2 DEF WireOwn
  <2>4. /\ Taken' = Taken /\ Taken \in Nat /\ sent[sess] \in Nat /\ Taken <= sent[sess]
        /\ sent'[sess] = sent[sess] + 1
    <3>1. Taken' = Taken
      BY <1>1 DEF Taken
    <3> QED
      BY <1>2, <1>5, <2>2, <2>3, <3>1, Types DEF Prefix
  <2>5. \A k, n : OnWire(net, k, n) => OnWire(net', k, n)
    BY <1>1, <1>3, OnWireAppend
  <2>6. WireOwn'
    BY <1>1, <1>3, <1>4, <2>2, <2>3 DEF WireOwn
  <2>7. Prefix'
    <3>1. Taken' <= sent'[sess]
      BY <2>4
    <3> QED
      BY <1>1, <2>2, <3>1 DEF Prefix
  <2>8. \A k \in (Taken + 1)..sent[sess] : OnWire(net, k, Len(net) + 1)
    BY <2>2, <2>3 DEF WireWhole
  <2>9. \A p \in DOMAIN net : net[p].type = "DATA" => net[p].i < sent[sess] + 1
    <3>1. ASSUME NEW p \in DOMAIN net, net[p].type = "DATA"
          PROVE  net[p].i < sent[sess] + 1
      <4>1. net[p].s \in Sess /\ net[p].i \in 1..sent[net[p].s]
        BY <3>1 DEF NetInv
      <4>2. net[p].s = sess
        BY <2>2, <4>1 DEF WireOwn, Sess
      <4> QED
        BY <2>4, <4>1, <4>2
    <3> QED
      BY <3>1
  <2>10. WireOrder'
    <3>1. ASSUME NEW p \in DOMAIN net', net'[p].type = "DATA"
          PROVE  net'[p].i > Taken /\ (net'[p].i = Taken + 1 \/ OnWire(net', net'[p].i - 1, p))
      <4>1. CASE p \in DOMAIN net
        BY <1>4, <2>2, <2>5, <3>1, <4>1 DEF WireOrder
      <4>2. CASE p = Len(net) + 1
        <5>1. net'[p].i = sent[sess] + 1
          BY <1>3, <1>4, <2>3, <4>2
        <5>2. CASE Taken = sent[sess]
          BY <2>4, <5>1, <5>2
        <5>3. CASE Taken # sent[sess]
          <6>1. sent[sess] \in (Taken + 1)..sent[sess] /\ (sent[sess] + 1) - 1 = sent[sess]
            BY <2>4, <5>3
          <6>2. OnWire(net', sent[sess], Len(net) + 1)
            BY <2>5, <2>8, <6>1
          <6>3. sent[sess] + 1 > Taken
            BY <2>4
          <6> QED
            BY <4>2, <5>1, <6>1, <6>2, <6>3
        <5> QED
          BY <5>2, <5>3
      <4> QED
        BY <1>4, <4>1, <4>2
    <3>2. ASSUME NEW p \in DOMAIN net', NEW q \in DOMAIN net', p < q,
                 net'[p].type = "DATA", net'[q].type = "DATA"
          PROVE  net'[p].i < net'[q].i
      <4>1. p \in DOMAIN net /\ net'[p] = net[p]
        BY <1>4, <3>2
      <4>2. CASE q \in DOMAIN net
        BY <1>4, <2>2, <3>2, <4>1, <4>2 DEF WireOrder
      <4>3. CASE q = Len(net) + 1
        BY <1>3, <1>4, <2>3, <2>9, <3>2, <4>1, <4>3
      <4> QED
        BY <1>4, <4>2, <4>3
    <3> QED
      BY <2>4, <3>1, <3>2 DEF WireOrder
  <2>11. WireWhole'
    <3>1. ASSUME NEW k \in (Taken + 1)..(sent[sess] + 1)
          PROVE  OnWire(net', k, Len(net') + 1)
      <4>1. CASE k = sent[sess] + 1
        <5>1. Len(net) + 1 < Len(net') + 1
          BY <1>4
        <5> QED
          BY <1>3, <1>4, <2>3, <4>1, <5>1 DEF OnWire
      <4>2. CASE k # sent[sess] + 1
        <5>1. k \in (Taken + 1)..sent[sess]
          BY <2>4, <4>2
        <5>2. PICK q \in DOMAIN net : q < Len(net) + 1 /\ net[q].type = "DATA" /\ net[q].i = k
          BY <2>8, <5>1 DEF OnWire
        <5>3. q \in DOMAIN net' /\ net'[q] = net[q] /\ q < Len(net') + 1
          <6>1. q \in DOMAIN net' /\ net'[q] = net[q]
            BY <1>1, <1>3, NetAppend
          <6> QED
            BY <1>4, <6>1
        <5> QED
          BY <5>2, <5>3 DEF OnWire
      <4> QED
        BY <4>1, <4>2
    <3>2. \A p \in DOMAIN net' : net'[p].type # "CLOSE"
      <4>1. \A p \in DOMAIN net : net[p].type = "CLOSE" => net[p].s = sess /\ closed[net[p].s]
        BY <2>2 DEF NetInv, WireOwn, Sess
      <4> QED
        BY <1>2, <1>3, <1>4, <2>3, <4>1
    <3> QED
      BY <1>1, <2>4, <3>1, <3>2 DEF WireWhole
  <2>12. AllTaken'
    BY <1>1, <1>2, <2>2, <2>3 DEF AllTaken
  <2> QED
    BY <2>6, <2>7, <2>10, <2>11, <2>12
<1> QED
  BY <1>6, <1>7, <1>8, <1>9, <1>10, <1>11

(* The directory closes: its TCP_CLOSE comes after all of its chunks. *)
LEMMA CloseStep ==
  ASSUME Inv, DirectoryCloses
  PROVE  Inv'
<1> USE DEF Inv
<1> DEFINE f == Frame("CLOSE", conn, 0)
<1>1. /\ conn # 0 /\ net' = Append(net, f)
      /\ closed' = [closed EXCEPT ![conn] = TRUE]
      /\ conn' = 0 /\ asked' = FALSE
      /\ UNCHANGED <<ready, backoff, tcp, rx, pc, sess, bound, got, eof, up, out,
                     sent, faults>>
  BY DEF DirectoryCloses, client, history
<1>2. /\ conn \in Sess /\ conn <= sess
      /\ ~closed[conn] /\ \A p \in DOMAIN net : net[p].s <= conn
      /\ ready
  <2>1. conn \in Sess
    BY <1>1, ElProxyAssumption DEF TypeOK, Sess
  <2> QED
    BY <1>1, <2>1 DEF ServerInv
<1>3. f \in ToClient /\ f.type = "CLOSE" /\ f.s = conn
  BY <1>2, ElProxyAssumption DEF Frame, ToClient, Sess
<1> HIDE DEF f
<1>4. /\ net' \in Seq(ToClient) /\ Len(net') = Len(net) + 1
      /\ net'[Len(net) + 1] = f
      /\ \A p \in DOMAIN net : net'[p] = net[p]
      /\ \A p \in DOMAIN net' : p \in DOMAIN net \/ p = Len(net) + 1
      /\ \A p \in DOMAIN net : p \in Nat /\ p < Len(net) + 1
      /\ Len(net) \in Nat
  BY <1>1, <1>3, NetAppend
<1>5. closed'[conn] /\ \A s \in Sess : s # conn => closed'[s] = closed[s]
  BY <1>1, <1>2 DEF TypeOK
<1>6. TypeOK'
  <2>1. closed' \in [Sess -> BOOLEAN]
    BY <1>1, <1>2 DEF TypeOK
  <2>2. conn' \in 0..MaxSess
    BY <1>1, ElProxyAssumption
  <2>3. asked' \in BOOLEAN
    BY <1>1
  <2> QED
    BY <1>1, <1>4, <2>1, <2>2, <2>3 DEF TypeOK
<1>7. ServerInv'
  <2>1. \A s \in Sess : s > sess => s # conn
    BY <1>2, Types DEF Sess
  <2>2. conn' <= sess
    BY <1>1, Types
  <2> QED
    BY <1>1, <1>2, <1>5, <2>1, <2>2 DEF ServerInv
<1>8. OutInv'
  <2>1. ASSUME NEW q \in DOMAIN out, out[q].type = "OPEN"
        PROVE  /\ ~closed'[out[q].s] /\ conn' < out[q].s
               /\ \A p \in DOMAIN net' : net'[p].s < out[q].s
    <3>1. /\ out[q].s \in Sess /\ conn < out[q].s /\ ~closed[out[q].s]
          /\ \A p \in DOMAIN net : net[p].s < out[q].s
      BY <2>1 DEF OutInv, InOrder
    <3>2. out[q].s # conn /\ 0 < out[q].s
      BY <3>1, Types DEF Sess
    <3> QED
      BY <1>1, <1>3, <1>4, <1>5, <3>1, <3>2
  <2>2. \A p \in DOMAIN out : conn' <= out[p].s
    BY <1>1, Types
  <2> QED
    BY <1>1, <2>1, <2>2 DEF OutInv, InOrder
<1>9. NetInv'
  <2>1. \A s \in Sess : /\ sent[s] <= sent'[s] /\ sent'[s] \in Nat
    BY <1>1, Types
  <2>2. \A s \in Sess : closed[s] => closed'[s]
    BY <1>5
  <2> QED
    BY <1>1, <1>2, <1>3, <1>5, <2>1, <2>2, AppendInv
<1>10. WorkerInv'
  BY <1>1 DEF WorkerInv
<1>11. StreamInv'
  <2>1. SUFFICES ASSUME bound = sess, pc # "idle"
                 PROVE  (WireOwn /\ Prefix /\ WireOrder /\ WireWhole /\ AllTaken)'
    BY <1>1 DEF StreamInv
  <2>2. WireOwn /\ Prefix /\ WireOrder /\ WireWhole /\ AllTaken
    BY <2>1 DEF StreamInv
  <2>3. conn = sess /\ sess # 0
    BY <1>1, <2>2 DEF WireOwn
  <2>4. Taken' = Taken
    BY <1>1 DEF Taken
  <2>5. \A k, n : OnWire(net, k, n) => OnWire(net', k, n)
    BY <1>1, <1>3, OnWireAppend
  <2>6. WireOwn'
    BY <1>1, <1>3, <1>4, <2>2, <2>3 DEF WireOwn
  <2>7. Prefix'
    BY <1>1, <2>2, <2>4 DEF Prefix
  <2>8. WireOrder'
    <3>1. \A p \in DOMAIN net' : net'[p].type = "DATA" =>
            p \in DOMAIN net /\ net'[p] = net[p]
      BY <1>3, <1>4
    <3> QED
      BY <2>2, <2>4, <2>5, <3>1 DEF WireOrder
  <2>9. WireWhole'
    <3>1. \A k \in (Taken + 1)..sent[sess] : OnWire(net', k, Len(net) + 1)
      BY <2>2, <2>3, <2>5 DEF WireWhole
    <3>2. ASSUME NEW p \in DOMAIN net', net'[p].type = "CLOSE",
                 NEW k \in (Taken + 1)..sent[sess]
          PROVE  OnWire(net', k, p)
      <4>1. CASE p \in DOMAIN net
        BY <1>4, <2>2, <2>5, <3>2, <4>1 DEF WireWhole
      <4>2. CASE p = Len(net) + 1
        BY <3>1, <4>2
      <4> QED
        BY <1>4, <4>1, <4>2
    <3> QED
      BY <1>1, <2>3, <2>4, <3>2 DEF WireWhole
  <2>10. AllTaken'
    BY <1>1, <1>2, <2>2, <2>3 DEF AllTaken
  <2> QED
    BY <2>6, <2>7, <2>8, <2>9, <2>10
<1> QED
  BY <1>6, <1>7, <1>8, <1>9, <1>10, <1>11

(* The connection breaks: a beginning of what was on its way still arrives. *)
LEMMA BreakStep ==
  ASSUME Inv, up, NEW n \in 0..Len(net), net' = SubSeq(net, 1, n),
         up' = FALSE, out' = <<>>, conn' = 0, asked' = FALSE,
         faults' \in 0..MaxFaults,
         UNCHANGED <<ready, backoff, tcp, rx, pc, sess, bound, got, eof, sent, closed>>
  PROVE  Inv'
<1> USE DEF Inv
<1>1. /\ net' \in Seq(ToClient) /\ Len(net') = n
      /\ \A p \in DOMAIN net' : p \in 1..n /\ p \in DOMAIN net /\ net'[p] = net[p]
      /\ \A p \in 1..n : p \in DOMAIN net'
      /\ n \in Nat
  <2>1. /\ SubSeq(net, 1, n) \in Seq(ToClient)
        /\ Len(SubSeq(net, 1, n)) = n
        /\ \A p \in DOMAIN SubSeq(net, 1, n) :
             p \in 1..n /\ p \in DOMAIN net /\ SubSeq(net, 1, n)[p] = net[p]
        /\ \A p \in 1..n : p \in DOMAIN SubSeq(net, 1, n)
    BY Types, PartFacts
  <2>2. n \in Nat
    BY Types
  <2> QED
    BY <2>1, <2>2, Zenon
<1>2. DOMAIN out' = {} /\ out' \in Seq(ToProxy)
  BY EmptySeq
<1>3. ready
  BY DEF ServerInv
<1>4. TypeOK'
  <2>1. conn' \in 0..MaxSess
    BY ElProxyAssumption
  <2>2. asked' \in BOOLEAN /\ up' \in BOOLEAN
    OBVIOUS
  <2> QED
    BY <1>1, <1>2, <2>1, <2>2 DEF TypeOK
<1>5. ServerInv'
  <2>1. conn' <= sess
    BY Types
  <2> QED
    BY <1>3, <2>1 DEF ServerInv
<1>6. OutInv' /\ WorkerInv'
  BY <1>2 DEF OutInv, InOrder, WorkerInv
<1>7. NetInv'
  BY <1>1 DEF NetInv
<1>8. StreamInv'
  <2>1. SUFFICES ASSUME bound = sess, pc # "idle"
                 PROVE  (WireOwn /\ Prefix /\ WireOrder /\ WireWhole /\ AllTaken)'
    BY DEF StreamInv
  <2>2. WireOwn /\ Prefix /\ WireOrder /\ WireWhole /\ AllTaken
    BY <2>1 DEF StreamInv
  <2>3. Taken' = Taken
    BY DEF Taken
  <2>4. WireOwn' /\ Prefix' /\ AllTaken'
    BY <1>1, <2>2, <2>3 DEF WireOwn, Prefix, AllTaken
  <2>5. ASSUME NEW k, NEW p \in DOMAIN net', OnWire(net, k, p)
        PROVE  OnWire(net', k, p)
    <3>1. PICK q \in DOMAIN net : q < p /\ net[q].type = "DATA" /\ net[q].i = k
      BY <2>5 DEF OnWire
    <3>2. q \in 1..n
      <4>1. q \in Nat /\ 1 <= q /\ p \in 1..n
        BY <1>1, Types
      <4> QED
        BY <1>1, <3>1, <4>1
    <3>3. q \in DOMAIN net' /\ net'[q] = net[q]
      BY <1>1, <3>2
    <3> QED
      BY <3>1, <3>3 DEF OnWire
  <2>6. WireOrder'
    BY <1>1, <2>2, <2>3, <2>5 DEF WireOrder
  <2>7. WireWhole'
    <3>1. conn' # sess'
      BY <2>1 DEF WorkerInv, Sess
    <3> QED
      BY <1>1, <2>2, <2>3, <2>5, <3>1 DEF WireWhole
  <2> QED
    BY <2>4, <2>6, <2>7
<1> QED
  BY <1>4, <1>5, <1>6, <1>7, <1>8

\* UDP frames and failures of the proxy are no part of a directory stream.
LEMMA ProxyStep ==
  ASSUME Inv, ProxyUdp \/ ProxyFails
  PROVE  Inv'
<1> USE DEF Inv
<1>1. CASE ProxyUdp
  <2>1. /\ up /\ net' = Append(net, Frame("UDP", 0, 0)) /\ faults' = faults
        /\ UNCHANGED <<ready, backoff, tcp, rx, pc, sess, bound, got, eof, up, out,
                       conn, asked, sent, closed>>
    BY <1>1 DEF ProxyUdp, client, history, server
  <2>2. faults' \in 0..MaxFaults
    BY <2>1 DEF TypeOK
  <2> QED
    BY <2>1, <2>2, AppendOther
<1>2. CASE ProxyFails
  <2>1. /\ up
        /\ UNCHANGED <<ready, backoff, tcp, rx, pc, sess, bound, got, eof, sent, closed>>
        /\ \/ /\ net' = Append(net, Frame("SYSTEM", 0, 0))
              /\ UNCHANGED <<up, out, conn, asked>>
           \/ /\ up' = FALSE /\ out' = <<>> /\ conn' = 0 /\ asked' = FALSE
              /\ \E n \in 0..Len(net) : net' = SubSeq(net, 1, n)
    BY <1>2 DEF ProxyFails, client, history
  <2>2. faults' \in 0..MaxFaults
    <3>1. faults \in 0..MaxFaults /\ MaxFaults \in Nat
      BY ElProxyAssumption DEF TypeOK
    <3>2. faults < MaxFaults /\ faults' = faults + 1
      BY <1>2 DEF ProxyFails
    <3> QED
      BY <3>1, <3>2
  <2>3. CASE net' = Append(net, Frame("SYSTEM", 0, 0)) /\ UNCHANGED <<up, out, conn, asked>>
    BY <2>1, <2>2, <2>3, AppendOther
  <2>4. CASE /\ up' = FALSE /\ out' = <<>> /\ conn' = 0 /\ asked' = FALSE
             /\ \E n \in 0..Len(net) : net' = SubSeq(net, 1, n)
    BY <2>1, <2>2, <2>4, BreakStep
  <2> QED
    BY <2>1, <2>3, <2>4
<1> QED
  BY <1>1, <1>2

-----------------------------------------------------------------------------
(* Every step keeps the invariant *)

\* Before the first connection.
LEMMA Initially ==
  ASSUME Init
  PROVE  Inv
<1> USE DEF Init
<1>1. /\ DOMAIN net = {} /\ DOMAIN out = {} /\ DOMAIN rx = {} /\ DOMAIN got = {}
      /\ Len(rx) = 0
  OBVIOUS
<1>2. \A s \in Sess : sent[s] = 0 /\ ~closed[s]
  OBVIOUS
<1>3. TypeOK
  <2>1. /\ rx \in Seq(Sess \X (1..Chunks)) /\ got \in Seq(Sess \X (1..Chunks))
        /\ out \in Seq(ToProxy) /\ net \in Seq(ToClient)
    BY EmptySeq
  <2>2. /\ sess \in 0..MaxSess /\ bound \in 0..MaxSess /\ conn \in 0..MaxSess
        /\ faults \in 0..MaxFaults /\ Len(rx) <= RxCap
    BY <1>1, ElProxyAssumption
  <2>3. sent \in [Sess -> 0..Chunks]
    BY ElProxyAssumption
  <2>4. closed \in [Sess -> BOOLEAN]
    OBVIOUS
  <2> QED
    BY <2>1, <2>2, <2>3, <2>4 DEF TypeOK
<1>4. ServerInv /\ OutInv /\ NetInv /\ WorkerInv
  BY <1>1, <1>2 DEF ServerInv, OutInv, InOrder, NetInv, WorkerInv
<1>5. StreamInv
  BY DEF StreamInv
<1> QED
  BY <1>3, <1>4, <1>5 DEF Inv

\* Every step of both threads, the proxy and the directory keeps the invariant.
LEMMA Inductive ==
  ASSUME Inv, [Next]_vars
  PROVE  Inv'
<1>1. CASE ConnectAuth \/ BackoffOver \/ Disconnected
  BY <1>1, ConnectStep
<1>2. CASE HandleMsg
  BY <1>2, HandleStep
<1>3. CASE Worker
  BY <1>3, OpenStep, QuietWorkerStep, BusyWorkerStep DEF Worker
<1>4. CASE ProxyReceive
  BY <1>4, ReceiveStep
<1>5. CASE DirectorySends
  BY <1>5, AnswerStep
<1>6. CASE DirectoryCloses
  BY <1>6, CloseStep
<1>7. CASE ProxyUdp \/ ProxyFails
  BY <1>7, ProxyStep
<1>8. CASE UNCHANGED vars
  <2>1. UNCHANGED <<ready, backoff, tcp, rx, pc, sess, bound, got, eof, up, out, net,
                    conn, asked, sent, closed, faults>>
    BY <1>8 DEF vars, client, history, server
  <2>2. TypeOK' /\ ServerInv' /\ OutInv' /\ NetInv' /\ WorkerInv'
    <3>1. TypeOK'
      BY <2>1 DEF Inv, TypeOK
    <3>2. ServerInv' /\ NetInv'
      BY <2>1 DEF Inv, ServerInv, NetInv
    <3>3. OutInv'
      BY <2>1 DEF Inv, OutInv, InOrder
    <3>4. WorkerInv'
      BY <2>1 DEF Inv, WorkerInv
    <3> QED
      BY <3>1, <3>2, <3>3, <3>4
  <2>3. StreamInv'
    <3>1. Taken' = Taken
      BY <2>1 DEF Taken
    <3> QED
      BY <2>1, <3>1 DEF Inv, StreamInv, WireOwn, Prefix, WireOrder, WireWhole, AllTaken
  <2> QED
    BY <2>2, <2>3 DEF Inv
<1> QED
  BY <1>1, <1>2, <1>3, <1>4, <1>5, <1>6, <1>7, <1>8 DEF Next

(* The proxy client's variables keep their types: the directory buffer     *)
(* never holds more than EL_PROXY_DIR_RX_CAP.                              *)
THEOREM TypeCorrect == Spec => []TypeOK
<1>1. Init => Inv
  BY Initially
<1>2. Inv /\ [Next]_vars => Inv'
  BY Inductive
<1>3. Inv => TypeOK
  BY DEF Inv
<1> QED
  BY <1>1, <1>2, <1>3, PTL DEF Spec

-----------------------------------------------------------------------------
(* Every step is a step of the stream, or none *)

\* What the refinement mapping makes of the state.
StreamGot == IF bound = sess THEN got ELSE <<>>
StreamSent == IF sess = 0 THEN 0 ELSE sent[sess]
StreamClosed == IF sess = 0 THEN FALSE ELSE closed[sess]

\* Steps that touch none of the mapped variables.
LEMMA Stutters ==
  ASSUME UNCHANGED <<sess, eof, StreamGot, StreamSent, StreamClosed>>,
         pc = "idle" <=> pc' = "idle"
  PROVE  UNCHANGED Stream!vars
<1>1. (pc # "idle") = (pc' # "idle")
  OBVIOUS
<1> QED
  BY <1>1 DEF Stream!vars, StreamGot, StreamSent, StreamClosed

\* el_proxy_tcp_open begins a connection of DirStream.
LEMMA SimulateOpen ==
  ASSUME Inv, TcpOpen
  PROVE  Stream!Begin
<1> USE DEF Inv
<1>1. /\ pc = "idle" /\ sess < MaxSess /\ pc' = "opening" /\ sess' = sess + 1
      /\ got' = <<>> /\ eof' = FALSE
      /\ UNCHANGED <<bound, sent, closed>>
  BY DEF TcpOpen, server
<1>2. /\ sess \in Nat /\ sess + 1 \in Sess /\ sess + 1 # 0
      /\ sent[sess + 1] = 0 /\ closed[sess + 1] = FALSE
  <2>1. sess \in Nat /\ sess + 1 \in Sess /\ sess + 1 # 0
    BY <1>1, Types, ElProxyAssumption DEF Sess
  <2>2. closed[sess + 1] \in BOOLEAN
    BY <2>1 DEF TypeOK
  <2> QED
    BY <2>1, <2>2 DEF ServerInv
<1>3. /\ (IF bound' = sess' THEN got' ELSE <<>>) = <<>>
      /\ (IF sess' = 0 THEN 0 ELSE sent'[sess']) = 0
      /\ (IF sess' = 0 THEN FALSE ELSE closed'[sess']) = FALSE
  BY <1>1, <1>2
<1>4. (pc' # "idle") = TRUE /\ ~(pc # "idle")
  BY <1>1
<1> QED
  BY <1>1, <1>3, <1>4 DEF Stream!Begin

\* Giving up or closing ends one.
LEMMA SimulateEnd ==
  ASSUME TcpOpenReturn \/ TcpOpenTimeout \/ TcpReadTimeout \/ TcpClose
  PROVE  Stream!End \/ UNCHANGED Stream!vars
<1>1. pc # "idle" /\ UNCHANGED <<sess, bound, got, eof, sent, closed>>
  BY DEF TcpOpenReturn, TcpOpenTimeout, TcpReadTimeout, TcpClose, history, server
<1>2. UNCHANGED <<StreamGot, StreamSent, StreamClosed>>
  BY <1>1 DEF StreamGot, StreamSent, StreamClosed
<1>3. CASE pc' = "idle"
  <2>1. (pc' # "idle") = FALSE
    BY <1>3
  <2> QED
    BY <1>1, <1>2, <2>1 DEF Stream!End, StreamGot, StreamSent, StreamClosed
<1>4. CASE pc' # "idle"
  BY <1>1, <1>2, <1>4, Stutters
<1> QED
  BY <1>3, <1>4

\* el_proxy_tcp_read returns the next chunks of its own stream.
LEMMA SimulateRead ==
  ASSUME Inv, TcpRead
  PROVE  Stream!Deliver \/ UNCHANGED Stream!vars
<1> USE DEF Inv
<1>1. PICK n \in 1..Len(rx) : /\ got' = got \o SubSeq(rx, 1, n)
                              /\ rx' = SubSeq(rx, n + 1, Len(rx))
  BY DEF TcpRead
<1>2. /\ pc = "reading" /\ pc' \in {"reading", "closing"}
      /\ UNCHANGED <<sess, bound, eof, sent, closed>>
  BY DEF TcpRead, server
<1>3. UNCHANGED <<StreamSent, StreamClosed>>
  BY <1>2 DEF StreamSent, StreamClosed
<1>4. CASE bound = sess
  <2>1. /\ got' = got \o [i \in 1..n |-> <<sess, Len(got) + i>>]
        /\ Len(got) + n <= sent[sess]
    BY <1>1, <1>2, <1>4, ReadPrefix
  <2>2. sess \in Sess /\ sess # 0 /\ sent[sess] \in Nat
    <3>1. sess \in Sess
      BY <1>2 DEF WorkerInv
    <3>2. sess # 0
      BY <3>1 DEF Sess
    <3>3. sent[sess] \in 0..Chunks
      BY <3>1 DEF TypeOK
    <3> QED
      BY <3>1, <3>2, <3>3, ElProxyAssumption
  <2>3. n \in 1..(sent[sess] - Len(got))
    <3>1. n \in Nat /\ 1 <= n /\ Len(got) \in Nat
      BY Types
    <3> QED
      BY <2>1, <2>2, <3>1
  <2>4. /\ StreamGot = got /\ StreamGot' = got' /\ StreamSent = sent[sess]
    BY <1>2, <1>4, <2>2 DEF StreamGot, StreamSent
  <2>5. \E k \in 1..(StreamSent - Len(StreamGot)) :
          StreamGot' = StreamGot \o [i \in 1..k |-> <<sess, Len(StreamGot) + i>>]
    BY <2>1, <2>3, <2>4
  <2>6. (pc # "idle") = (pc' # "idle") /\ pc # "idle"
    BY <1>2
  <2> QED
    BY <1>2, <1>3, <2>5, <2>6 DEF Stream!Deliver, StreamGot, StreamSent, StreamClosed
<1>5. CASE bound # sess
  <2>1. StreamGot' = StreamGot
    BY <1>2, <1>5 DEF StreamGot
  <2> QED
    BY <1>2, <1>3, <2>1, Stutters
<1> QED
  BY <1>4, <1>5

\* An end of file is reported only after the last chunk.
LEMMA SimulateEof ==
  ASSUME Inv, TcpReadEof
  PROVE  Stream!Eof \/ UNCHANGED Stream!vars
<1> USE DEF Inv
<1>1. /\ pc = "reading" /\ rx = <<>> /\ pc' = "closing"
      /\ ~ready \/ tcp # "CONNECTED"
      /\ eof' = (ready /\ bound = sess)
      /\ UNCHANGED <<sess, bound, got, sent, closed>>
  BY DEF TcpReadEof, server
<1>2. UNCHANGED <<StreamGot, StreamSent, StreamClosed>>
  BY <1>1 DEF StreamGot, StreamSent, StreamClosed
<1>3. CASE ready /\ bound = sess
  <2>1. sess \in Sess /\ sess # 0 /\ closed[sess] /\ Taken = sent[sess]
    <3>1. sess \in Sess
      BY <1>1 DEF WorkerInv
    <3>2. AllTaken
      BY <1>1, <1>3 DEF StreamInv
    <3> QED
      BY <1>1, <1>3, <3>1, <3>2 DEF AllTaken, Sess
  <2>2. Len(got) = sent[sess]
    BY <1>1, <2>1, Types DEF Taken
  <2>3. /\ StreamGot = got /\ StreamSent = sent[sess] /\ StreamClosed
    BY <1>3, <2>1 DEF StreamGot, StreamSent, StreamClosed
  <2>4. Len(StreamGot) = StreamSent
    BY <2>2, <2>3
  <2>5. eof' = TRUE
    BY <1>1, <1>3
  <2>6. (pc # "idle") = (pc' # "idle") /\ pc # "idle"
    BY <1>1
  <2> QED
    BY <1>1, <1>2, <2>3, <2>4, <2>5, <2>6
    DEF Stream!Eof, StreamGot, StreamSent, StreamClosed
<1>4. CASE ~(ready /\ bound = sess)
  <2>1. eof' = eof
    <3>1. eof = FALSE
      BY <1>1 DEF WorkerInv, TypeOK
    <3>2. eof' = FALSE
      BY <1>1, <1>4
    <3> QED
      BY <3>1, <3>2
  <2> QED
    BY <1>1, <1>2, <2>1, Stutters
<1> QED
  BY <1>3, <1>4

(* A frame changes what the reader has seen of nothing; a TCP_STATUS comes *)
(* before anything was read. *)
LEMMA SimulateFrame ==
  ASSUME Inv, HandleMsg
  PROVE  UNCHANGED Stream!vars
<1> USE DEF Inv
<1> DEFINE m == Head(net)
<1>1. net # <<>> /\ UNCHANGED <<pc, sess, got, eof>>
  BY DEF HandleMsg
<1>2. m.type \in {"STATUS_OK", "STATUS_FAIL", "DATA", "CLOSE", "UDP", "SYSTEM"}
  <2>1. m \in ToClient
    BY <1>1, Types, TailFacts
  <2> QED
    BY <2>1 DEF ToClient
<1> HIDE DEF m
<1>3. UNCHANGED <<sent, closed>> /\ (bound' = bound \/ tcp = "CONNECTING")
  <2>1. CASE m.type = "DATA"
    BY <2>1 DEF HandleMsg, m, DirRxAppend, server
  <2>2. CASE m.type = "CLOSE"
    BY <2>2 DEF HandleMsg, m, server
  <2>3. CASE m.type \in {"STATUS_OK", "STATUS_FAIL"}
    <3>1. TcpStatus(m) /\ UNCHANGED <<sent, closed>>
      BY <2>3 DEF HandleMsg, m, server
    <3> QED
      BY <3>1 DEF TcpStatus
  <2>4. CASE m.type = "UDP"
    BY <2>4 DEF HandleMsg, m, server
  <2>5. CASE m.type = "SYSTEM"
    BY <2>5 DEF HandleMsg, m
  <2> QED
    BY <1>2, <2>1, <2>2, <2>3, <2>4, <2>5
<1>4. UNCHANGED <<StreamSent, StreamClosed>>
  BY <1>1, <1>3 DEF StreamSent, StreamClosed
<1>5. tcp = "CONNECTING" => got = <<>>
  BY DEF WorkerInv
<1>6. StreamGot' = StreamGot
  BY <1>1, <1>3, <1>5 DEF StreamGot
<1> QED
  BY <1>1, <1>4, <1>6, Stutters

\* A chunk the directory sends is a reply of DirStream.
LEMMA SimulateAnswer ==
  ASSUME Inv, DirectorySends
  PROVE  Stream!Reply \/ UNCHANGED Stream!vars
<1> USE DEF Inv
<1>1. /\ conn # 0 /\ sent' = [sent EXCEPT ![conn] = @ + 1]
      /\ UNCHANGED <<pc, sess, bound, got, eof, closed>>
  BY DEF DirectorySends, client, history
<1>2. conn \in Sess /\ ~closed[conn]
  BY <1>1, ElProxyAssumption DEF TypeOK, Sess, ServerInv
<1>3. UNCHANGED <<StreamGot, StreamClosed>>
  BY <1>1 DEF StreamGot, StreamClosed
<1>4. CASE conn = sess
  <2>1. StreamSent' = StreamSent + 1 /\ ~StreamClosed
    BY <1>1, <1>2, <1>4 DEF StreamSent, StreamClosed, TypeOK
  <2>2. (pc # "idle") = (pc' # "idle")
    BY <1>1
  <2> QED
    BY <1>1, <1>3, <2>1, <2>2 DEF Stream!Reply, StreamGot, StreamSent, StreamClosed
<1>5. CASE conn # sess
  <2>1. StreamSent' = StreamSent
    <3>1. sess # 0 => sess \in Sess
      BY ElProxyAssumption DEF TypeOK, Sess
    <3> QED
      BY <1>1, <1>2, <1>5, <3>1 DEF StreamSent, TypeOK
  <2> QED
    BY <1>1, <1>3, <2>1, Stutters
<1> QED
  BY <1>4, <1>5

\* The directory's end of the channel is its close in DirStream.
LEMMA SimulateClose ==
  ASSUME Inv, DirectoryCloses
  PROVE  Stream!Close \/ UNCHANGED Stream!vars
<1> USE DEF Inv
<1>1. /\ conn # 0 /\ closed' = [closed EXCEPT ![conn] = TRUE]
      /\ UNCHANGED <<pc, sess, bound, got, eof, sent>>
  BY DEF DirectoryCloses, client, history
<1>2. conn \in Sess /\ ~closed[conn]
  BY <1>1, ElProxyAssumption DEF TypeOK, Sess, ServerInv
<1>3. UNCHANGED <<StreamGot, StreamSent>>
  BY <1>1 DEF StreamGot, StreamSent
<1>4. CASE conn = sess
  <2>1. StreamClosed' = TRUE /\ ~StreamClosed
    BY <1>1, <1>2, <1>4 DEF StreamClosed, TypeOK
  <2>2. (pc # "idle") = (pc' # "idle")
    BY <1>1
  <2> QED
    BY <1>1, <1>3, <2>1, <2>2 DEF Stream!Close, StreamGot, StreamSent, StreamClosed
<1>5. CASE conn # sess
  <2>1. StreamClosed' = StreamClosed
    <3>1. sess # 0 => sess \in Sess
      BY ElProxyAssumption DEF TypeOK, Sess
    <3> QED
      BY <1>1, <1>2, <1>5, <3>1 DEF StreamClosed, TypeOK
  <2> QED
    BY <1>1, <1>3, <2>1, Stutters
<1> QED
  BY <1>4, <1>5

(* The other steps leave the reader, the answers and the closings alone. *)
LEMMA SimulateOther ==
  ASSUME \/ ConnectAuth \/ BackoffOver \/ Disconnected \/ TcpWrite
         \/ ProxyReceive \/ ProxyUdp \/ ProxyFails \/ UNCHANGED vars
  PROVE  UNCHANGED Stream!vars
<1>1. UNCHANGED <<sess, bound, got, eof, sent, closed>> /\ (pc = "idle" <=> pc' = "idle")
  <2>1. CASE ConnectAuth \/ BackoffOver \/ Disconnected
    BY <2>1 DEF ConnectAuth, BackoffOver, Disconnected, history, server
  <2>2. CASE TcpWrite
    BY <2>2 DEF TcpWrite, history, server
  <2>3. CASE ProxyReceive \/ ProxyUdp \/ ProxyFails
    BY <2>3 DEF ProxyReceive, ProxyUdp, ProxyFails, client, history, server
  <2>4. CASE UNCHANGED vars
    BY <2>4 DEF vars, client, history, server
  <2> QED
    BY <2>1, <2>2, <2>3, <2>4
<1>2. UNCHANGED <<StreamGot, StreamSent, StreamClosed>>
  BY <1>1 DEF StreamGot, StreamSent, StreamClosed
<1> QED
  BY <1>1, <1>2, Stutters

\* Step simulation, all actions together.
LEMMA Simulates ==
  ASSUME Inv, [Next]_vars
  PROVE  [Stream!Next]_(Stream!vars)
<1>1. CASE TcpOpen
  BY <1>1, SimulateOpen DEF Stream!Next
<1>2. CASE TcpOpenReturn \/ TcpOpenTimeout \/ TcpReadTimeout \/ TcpClose
  BY <1>2, SimulateEnd DEF Stream!Next
<1>3. CASE TcpRead
  BY <1>3, SimulateRead DEF Stream!Next
<1>4. CASE TcpReadEof
  BY <1>4, SimulateEof DEF Stream!Next
<1>5. CASE HandleMsg
  BY <1>5, SimulateFrame
<1>6. CASE DirectorySends
  BY <1>6, SimulateAnswer DEF Stream!Next
<1>7. CASE DirectoryCloses
  BY <1>7, SimulateClose DEF Stream!Next
<1>8. CASE \/ ConnectAuth \/ BackoffOver \/ Disconnected \/ TcpWrite
           \/ ProxyReceive \/ ProxyUdp \/ ProxyFails \/ UNCHANGED vars
  BY <1>8, SimulateOther
<1> QED
  BY <1>1, <1>2, <1>3, <1>4, <1>5, <1>6, <1>7, <1>8 DEF Next, Worker

(* A reader of the directory through the proxy gets the chunks of its own  *)
(* connection, in order and without a gap, and is told of the end only     *)
(* after the last of them, however many connections are opened, abandoned, *)
(* refused or lost, and whichever thread reads the frames                  *)
(* (el_proxy_tcp_open, _read and _close against handle_msg_locked).        *)
THEOREM ImplementsDirStream == Spec => IsDirStream
<1>1. Init => Inv
  BY Initially
<1>2. Inv /\ [Next]_vars => Inv'
  BY Inductive
<1>3. Init => Stream!Init
  <2>1. SUFFICES ASSUME Init PROVE Stream!Init
    OBVIOUS
  <2>2. (pc # "idle") = FALSE
    BY <2>1 DEF Init
  <2> QED
    BY <2>1, <2>2 DEF Init, Stream!Init
<1>4. Inv /\ [Next]_vars => [Stream!Next]_(Stream!vars)
  BY Simulates
<1> QED
  BY <1>1, <1>2, <1>3, <1>4, PTL DEF Spec, IsDirStream, Stream!Spec
=============================================================================
