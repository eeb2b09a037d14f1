------------------------------ MODULE ModeConv ------------------------------
(***************************************************************************)
(* The frame repacker of src/mmdvm/ModeConv.cpp over src/mmdvm/RingBuffer.h*)
(* as operators on one of its two lanes, the one towards DMR (m_DMR,       *)
(* m_dmrN) or the one towards YSF (m_YSF, m_ysfN).                         *)
(*                                                                         *)
(* A lane is a ring buffer of tagged AMBE units and a counter of them,     *)
(* kept separately by the code: [buf |-> tags in the ring, n |-> counter]. *)
(* The AMBE bits of a unit are abstracted away, silence counts as DATA.    *)
(* g is the number of units a frame of the outgoing mode is made of (3 for *)
(* DMR, 5 for YSF); cap is the number of whole units the 5000-byte ring    *)
(* takes before addData clears it (499 of 10 bytes, 357 of 14 bytes).      *)
(***************************************************************************)
EXTENDS Naturals, Sequences

Tags == {"HEADER", "DATA", "EOT"}

Lanes == [buf : Seq(Tags), n : Nat]

\* modeconv_reset: a new CModeConv.
EmptyLane == [buf |-> <<>>, n |-> 0]

\* k units of DATA.
DataUnits(k) == [i \in 1..k |-> "DATA"]

\* addData of one tagged unit: a full ring is cleared and the unit lost, and
\* the counter, which the ring knows nothing of, goes on counting.
PutUnit(q, tag, cap) ==
  [buf |-> IF Len(q.buf) < cap THEN Append(q.buf, tag) ELSE <<>>,
   n   |-> q.n + 1]

\* k calls of PutUnit(_, "DATA", cap), k <= cap: at most one clears the ring.
PutData(q, k, cap) ==
  [buf |-> IF Len(q.buf) + k <= cap
           THEN q.buf \o DataUnits(k)
           ELSE DataUnits(Len(q.buf) + k - cap - 1),
   n   |-> q.n + k]

\* putDMR: the three AMBE frames of a DMR burst, re-coded for YSF.
PutDmrVoice(q, cap) == PutData(q, 3, cap)

\* putYSF: the five of a YSF frame, re-coded for DMR.
PutYsfVoice(q, cap) == PutData(q, 5, cap)

\* Fault: a header is not counted.
PutHeaderUncounted(q, cap) ==
  [q EXCEPT !.buf = IF Len(q.buf) < cap THEN Append(q.buf, "HEADER") ELSE <<>>]

\* putDMRHeader, putYSFHeader.
PutHeader(q, cap) == PutUnit(q, "HEADER", cap)

\* Fault: the padding is worked out from an already aligned counter's zero.
PutEotShort(q, g, cap) ==
  PutUnit(PutData(q, (g - (q.n % g)) - 1, cap), "EOT", cap)

\* putDMREOT, putYSFEOT: pad with 1..g units of silence, then the EOT tag.
PutEot(q, g, cap) ==
  PutUnit(PutData(q, g - (q.n % g), cap), "EOT", cap)

\* The unit at the head is a tag of its own (or cannot be read at all: the
\* counter says there is one, the ring is empty and peek fails).
HeadIsTag(q) == q.n >= 1 /\ (q.buf = <<>> \/ Head(q.buf) # "DATA")

\* Fault: a frame is taken as soon as there is one unit of it.
HasFrameEager(q, g) == ~HeadIsTag(q) /\ q.n >= 1

\* A whole frame of g units can be taken, by the counter's word.
HasFrame(q, g) == ~HeadIsTag(q) /\ q.n >= g

\* getDMR, getYSF: the tag returned.
GetTag(q, g) ==
  IF HeadIsTag(q)
  THEN IF q.buf = <<>> THEN "NODATA" ELSE Head(q.buf)
  ELSE IF HasFrame(q, g) THEN "DATA" ELSE "NODATA"

\* What k calls of getData leave in the ring: an underflow takes nothing.
Dropped(s, k) == SubSeq(s, k + 1, Len(s))

\* getDMR, getYSF: the lane afterwards.  The tags of the second to the last
\* unit of a frame are read into the same byte and not looked at.
GetRest(q, g) ==
  IF HeadIsTag(q)
  THEN [buf |-> Dropped(q.buf, 1), n |-> q.n - 1]
  ELSE IF HasFrame(q, g)
       THEN [buf |-> Dropped(q.buf, g), n |-> q.n - g]
       ELSE q

\* The next get takes an EOT for voice: it is one of the unread tags.
EotInFrame(q, g) ==
  /\ HasFrame(q, g)
  /\ \E i \in 2..g : i <= Len(q.buf) /\ q.buf[i] = "EOT"
=============================================================================
