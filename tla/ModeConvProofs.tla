--------------------------- MODULE ModeConvProofs ---------------------------
(***************************************************************************)
(* Lemmas about the lane operators of ModeConv: the types they preserve,   *)
(* the counter against the ring, what a put without overflow adds and what *)
(* a get takes away.  The bridges' proofs rest on them, and so do the      *)
(* theorems about a lane on its own, ModeConvLane.                         *)
(***************************************************************************)
EXTENDS ModeConvLane, SequenceTheorems, TLAPS

\* A run of voice units is a sequence of tags of that length.
LEMMA DataUnitsType ==
  ASSUME NEW k \in Nat
  PROVE  /\ DataUnits(k) \in Seq(Tags)
         /\ Len(DataUnits(k)) = k
         /\ \A i \in 1..k : DataUnits(k)[i] = "DATA"
BY DEF DataUnits, Tags

\* Putting one unit, overflow included, gives a lane.
LEMMA PutUnitType ==
  ASSUME NEW l \in Lanes, NEW tag \in Tags, NEW cap \in Nat
  PROVE  PutUnit(l, tag, cap) \in Lanes
BY DEF PutUnit, Lanes

\* Putting a frame of voice, overflow included, gives a lane.
LEMMA PutDataType ==
  ASSUME NEW l \in Lanes, NEW k \in Nat, NEW cap \in Nat, k <= cap
  PROVE  PutData(l, k, cap) \in Lanes
<1> DEFINE rest == Len(l.buf) + k - cap - 1
<1>1. l.buf \in Seq(Tags) /\ Len(l.buf) \in Nat /\ l.n + k \in Nat
  BY DEF Lanes
<1>2. CASE Len(l.buf) + k <= cap
  <2>0. DataUnits(k) \in Seq(Tags)
    BY DataUnitsType
  <2>1. l.buf \o DataUnits(k) \in Seq(Tags)
    BY <1>1, <2>0
  <2>2. PutData(l, k, cap) = [buf |-> l.buf \o DataUnits(k), n |-> l.n + k]
    BY <1>2 DEF PutData
  <2> QED
    BY <1>1, <2>1, <2>2 DEF Lanes
<1>3. CASE ~(Len(l.buf) + k <= cap)
  <2>1. rest \in Nat
    BY <1>1, <1>3
  <2>2. PutData(l, k, cap) = [buf |-> DataUnits(rest), n |-> l.n + k]
    BY <1>3 DEF PutData
  <2> HIDE DEF rest
  <2>3. DataUnits(rest) \in Seq(Tags)
    BY <2>1, DataUnitsType
  <2> QED
    BY <1>1, <2>2, <2>3 DEF Lanes
<1> QED
  BY <1>2, <1>3

\* Putting a header gives a lane.
LEMMA PutHeaderType ==
  ASSUME NEW l \in Lanes, NEW cap \in Nat
  PROVE  PutHeader(l, cap) \in Lanes
BY PutUnitType DEF PutHeader, Tags

\* Putting the padding and the EOT gives a lane.
LEMMA PutEotType ==
  ASSUME NEW l \in Lanes, NEW g \in {3, 5}, NEW cap \in Nat, cap >= 5
  PROVE  PutEot(l, g, cap) \in Lanes
<1>1. /\ g - (l.n % g) \in Nat
      /\ g - (l.n % g) <= cap
  BY DEF Lanes
<1> QED
  BY <1>1, PutDataType, PutUnitType DEF PutEot, Tags

\* What k reads leave of a ring, an underflow included.
LEMMA DroppedLen ==
  ASSUME NEW s \in Seq(Tags), NEW k \in Nat
  PROVE  /\ Dropped(s, k) \in Seq(Tags)
         /\ Len(Dropped(s, k)) = IF k <= Len(s) THEN Len(s) - k ELSE 0
         /\ \A i \in 1..Len(Dropped(s, k)) : Dropped(s, k)[i] = s[i + k]
BY DEF Dropped

\* Reading gives a lane: neither part of it goes below zero.
LEMMA GetRestType ==
  ASSUME NEW l \in Lanes, NEW g \in {3, 5}
  PROVE  GetRest(l, g) \in Lanes
<1>1. Dropped(l.buf, 1) \in Seq(Tags) /\ Dropped(l.buf, g) \in Seq(Tags)
  BY DEF Dropped, Lanes
<1>2. HeadIsTag(l) => l.n - 1 \in Nat
  BY DEF HeadIsTag, Lanes
<1>3. HasFrame(l, g) => l.n - g \in Nat
  BY DEF HasFrame, Lanes
<1> QED
  BY <1>1, <1>2, <1>3 DEF GetRest, Lanes

\* A read returns a tag, or NODATA.
LEMMA GetTagType ==
  ASSUME NEW l \in Lanes, NEW g \in {3, 5}
  PROVE  GetTag(l, g) \in Tags \cup {"NODATA"}
<1>1. l.buf # <<>> => Head(l.buf) \in Tags
  BY DEF Lanes
<1> QED
  BY <1>1 DEF GetTag, Tags

\* One unit keeps the counter ahead of the ring.
LEMMA PutUnitCount ==
  ASSUME NEW l \in Lanes, NEW tag \in Tags, NEW cap \in Nat, l.n >= Len(l.buf)
  PROVE  PutUnit(l, tag, cap).n >= Len(PutUnit(l, tag, cap).buf)
BY DEF PutUnit, Lanes

\* A frame of voice keeps the counter ahead of the ring.
LEMMA PutDataCount ==
  ASSUME NEW l \in Lanes, NEW k \in Nat, NEW cap \in Nat, k <= cap,
         l.n >= Len(l.buf)
  PROVE  PutData(l, k, cap).n >= Len(PutData(l, k, cap).buf)
<1> DEFINE rest == Len(l.buf) + k - cap - 1
<1>1. l.buf \in Seq(Tags) /\ Len(l.buf) \in Nat /\ l.n \in Nat
  BY DEF Lanes
<1>2. CASE Len(l.buf) + k <= cap
  <2>0. DataUnits(k) \in Seq(Tags) /\ Len(DataUnits(k)) = k
    BY DataUnitsType
  <2>1. Len(l.buf \o DataUnits(k)) = Len(l.buf) + k
    BY <1>1, <2>0
  <2>2. PutData(l, k, cap) = [buf |-> l.buf \o DataUnits(k), n |-> l.n + k]
    BY <1>2 DEF PutData
  <2> QED
    BY <1>1, <2>1, <2>2
<1>3. CASE ~(Len(l.buf) + k <= cap)
  <2>1. rest \in Nat /\ l.n + k >= rest
    BY <1>1, <1>3
  <2>2. PutData(l, k, cap) = [buf |-> DataUnits(rest), n |-> l.n + k]
    BY <1>3 DEF PutData
  <2> HIDE DEF rest
  <2>3. Len(DataUnits(rest)) = rest
    BY <2>1, DataUnitsType
  <2> QED
    BY <2>1, <2>2, <2>3
<1> QED
  BY <1>2, <1>3

\* A lane that does not overflow takes k units of voice at its end.
LEMMA PutDataAppends ==
  ASSUME NEW l \in Lanes, NEW k \in Nat, NEW cap \in Nat,
         Len(l.buf) + k <= cap
  PROVE  LET r == PutData(l, k, cap) IN
         /\ r \in Lanes
         /\ r.n = l.n + k
         /\ Len(r.buf) = Len(l.buf) + k
         /\ \A i \in 1..Len(l.buf) : r.buf[i] = l.buf[i]
         /\ \A i \in (Len(l.buf) + 1)..(Len(l.buf) + k) : r.buf[i] = "DATA"
<1> DEFINE d == DataUnits(k)
<1>1. d \in Seq(Tags) /\ Len(d) = k /\ \A i \in 1..k : d[i] = "DATA"
  BY DataUnitsType
<1>2. l.buf \in Seq(Tags) /\ l.n \in Nat
  BY DEF Lanes
<1>3. PutData(l, k, cap) = [buf |-> l.buf \o d, n |-> l.n + k]
  BY DEF PutData
<1> HIDE DEF d
<1>4. /\ l.buf \o d \in Seq(Tags)
      /\ Len(l.buf \o d) = Len(l.buf) + k
      /\ \A i \in 1..(Len(l.buf) + k) :
           (l.buf \o d)[i] = IF i <= Len(l.buf) THEN l.buf[i]
                                               ELSE d[i - Len(l.buf)]
  <2>1. /\ l.buf \o d \in Seq(Tags)
        /\ Len(l.buf \o d) = Len(l.buf) + Len(d)
        /\ \A i \in 1..(Len(l.buf) + Len(d)) :
             (l.buf \o d)[i] = IF i <= Len(l.buf) THEN l.buf[i]
                                                 ELSE d[i - Len(l.buf)]
    BY <1>1, <1>2, ConcatProperties, Zenon
  <2> QED
    BY <1>1, <2>1, Zenon
<1>5. Len(l.buf) \in Nat
  BY <1>2
<1>6. \A i \in 1..Len(l.buf) : (l.buf \o d)[i] = l.buf[i]
  BY <1>4, <1>5
<1>7. \A i \in (Len(l.buf) + 1)..(Len(l.buf) + k) : (l.buf \o d)[i] = "DATA"
  <2> TAKE i \in (Len(l.buf) + 1)..(Len(l.buf) + k)
  <2>1. i \in 1..(Len(l.buf) + k) /\ ~(i <= Len(l.buf)) /\ i - Len(l.buf) \in 1..k
    BY <1>5
  <2> QED
    BY <1>1, <1>4, <2>1
<1> QED
  BY <1>2, <1>3, <1>4, <1>6, <1>7 DEF Lanes
-----------------------------------------------------------------------------
(* A lane whose counter and ring agree, and that does not overflow *)

\* The units of p come first in r, and u is the first of those added.
Extends(p, r, u) ==
  /\ r \in Lanes
  /\ r.n = Len(r.buf)
  /\ Len(r.buf) > Len(p.buf)
  /\ \A i \in 1..Len(p.buf) : r.buf[i] = p.buf[i]
  /\ r.buf[Len(p.buf) + 1] = u

\* A put to a lane leaves its head, or is it.
LEMMA HeadKept ==
  ASSUME NEW l \in Lanes, NEW r, NEW u, Extends(l, r, u)
  PROVE  /\ r.buf # <<>>
         /\ r.buf[1] = IF l.buf = <<>> THEN u ELSE l.buf[1]
<1>1. l.buf \in Seq(Tags) /\ r.buf \in Seq(Tags)
  BY DEF Extends, Lanes
<1>2. r.buf # <<>>
  BY <1>1 DEF Extends
<1>3. l.buf # <<>> => 1 \in 1..Len(l.buf)
  BY <1>1
<1> QED
  BY <1>2, <1>3 DEF Extends

\* One unit goes to the end.
LEMMA PutUnitExtends ==
  ASSUME NEW l \in Lanes, NEW tag \in Tags, NEW cap \in Nat,
         l.n = Len(l.buf), l.n < cap
  PROVE  Extends(l, PutUnit(l, tag, cap), tag) /\ PutUnit(l, tag, cap).n = l.n + 1
<1>1. l.buf \in Seq(Tags) /\ l.n \in Nat
  BY DEF Lanes
<1>2. PutUnit(l, tag, cap) = [buf |-> Append(l.buf, tag), n |-> l.n + 1]
  BY DEF PutUnit
<1>3. /\ Append(l.buf, tag) \in Seq(Tags)
      /\ Len(Append(l.buf, tag)) = Len(l.buf) + 1
      /\ \A i \in 1..Len(l.buf) : Append(l.buf, tag)[i] = l.buf[i]
      /\ Append(l.buf, tag)[Len(l.buf) + 1] = tag
  BY <1>1
<1> QED
  BY <1>1, <1>2, <1>3 DEF Extends, Lanes

\* Voice goes to the end.
LEMMA PutDataExtends ==
  ASSUME NEW l \in Lanes, NEW k \in Nat, NEW cap \in Nat, k > 0,
         l.n = Len(l.buf), l.n + k <= cap
  PROVE  Extends(l, PutData(l, k, cap), "DATA") /\ PutData(l, k, cap).n = l.n + k
<1>1. l.buf \in Seq(Tags) /\ l.n \in Nat /\ Len(l.buf) + k <= cap
  BY DEF Lanes
<1> DEFINE r == PutData(l, k, cap)
<1>2. /\ r \in Lanes
      /\ r.n = l.n + k
      /\ Len(r.buf) = Len(l.buf) + k
      /\ \A i \in 1..Len(l.buf) : r.buf[i] = l.buf[i]
      /\ \A i \in (Len(l.buf) + 1)..(Len(l.buf) + k) : r.buf[i] = "DATA"
  BY <1>1, PutDataAppends
<1> HIDE DEF r
<1>3. r.buf[Len(l.buf) + 1] = "DATA" /\ r.n = Len(r.buf) /\ Len(r.buf) > Len(l.buf)
  BY <1>1, <1>2
<1> QED
  BY <1>2, <1>3 DEF Extends, r

\* A header goes to the end.
LEMMA PutHeaderExtends ==
  ASSUME NEW l \in Lanes, NEW cap \in Nat, l.n = Len(l.buf), l.n < cap
  PROVE  Extends(l, PutHeader(l, cap), "HEADER") /\ PutHeader(l, cap).n = l.n + 1
BY PutUnitExtends DEF PutHeader, Tags

\* The padding before an EOT is at least one unit, at most a frame.
LEMMA PaddingRange ==
  ASSUME NEW n \in Nat, NEW g \in {3, 5}
  PROVE  g - (n % g) \in 1..g
<1>1. CASE g = 3
  BY <1>1
<1>2. CASE g = 5
  BY <1>2
<1> QED
  BY <1>1, <1>2

\* An EOT goes to the end, silence before it.
LEMMA PutEotExtends ==
  ASSUME NEW l \in Lanes, NEW g \in {3, 5}, NEW cap \in Nat,
         l.n = Len(l.buf), l.n + g + 1 <= cap
  PROVE  /\ Extends(l, PutEot(l, g, cap), "DATA")
         /\ PutEot(l, g, cap).n <= l.n + g + 1
<1> DEFINE k == g - (l.n % g)
           d == PutData(l, k, cap)
           r == PutUnit(d, "EOT", cap)
<1>1. l.buf \in Seq(Tags) /\ l.n \in Nat
  BY DEF Lanes
<1>2. k \in 1..g
  BY <1>1, PaddingRange
<1>3. r = PutEot(l, g, cap)
  BY DEF PutEot
<1> HIDE DEF k
<1>4. Extends(l, d, "DATA") /\ d.n = l.n + k
  BY <1>1, <1>2, PutDataExtends
<1> HIDE DEF d
<1>5. d \in Lanes /\ d.n = Len(d.buf) /\ d.n < cap /\ "EOT" \in Tags
  BY <1>1, <1>2, <1>4 DEF Extends, Tags
<1>6. Extends(d, r, "EOT") /\ r.n = d.n + 1
  BY <1>5, PutUnitExtends
<1> HIDE DEF r
<1>7. Extends(l, r, "DATA")
  <2>1. Len(l.buf) \in Nat /\ Len(d.buf) \in Nat /\ Len(d.buf) > Len(l.buf)
    BY <1>4, <1>5, <1>1 DEF Lanes, Extends
  <2>2. \A i \in 1..Len(l.buf) : i \in 1..Len(d.buf)
    BY <2>1
  <2>3. Len(l.buf) + 1 \in 1..Len(d.buf)
    BY <2>1
  <2>4. Len(r.buf) \in Nat /\ Len(r.buf) > Len(l.buf)
    BY <1>6, <2>1 DEF Extends, Lanes
  <2> QED
    BY <1>4, <1>6, <2>2, <2>3, <2>4 DEF Extends
<1>8. r.n <= l.n + g + 1
  BY <1>1, <1>2, <1>4, <1>6
<1> QED
  BY <1>3, <1>7, <1>8

\* The distance to the next frame boundary.
LEMMA FillAligns ==
  ASSUME NEW n \in Nat, NEW g \in {3, 5}
  PROVE  (n + (g - (n % g)) + 1) % g = 1
<1>1. CASE g = 3
  BY <1>1
<1>2. CASE g = 5
  BY <1>2
<1> QED
  BY <1>1, <1>2

\* The padding and the EOT of a lane that keeps step fit the ring.
LEMMA RoomForPadding ==
  ASSUME NEW len \in Nat, NEW f \in Nat, NEW g \in Nat, NEW cap \in Nat,
         f <= g, len + (g + 1) <= cap
  PROVE  len + f <= cap /\ len + f < cap
OBVIOUS

\* Where the units of a lane are once its EOT is put: the padding ends on a
\* frame boundary, and the EOT is the first unit after it.
EotPut(l, g, r) ==
  /\ r \in Lanes /\ r.n = Len(r.buf)
  /\ r.n = l.n + (g - (l.n % g)) + 1 /\ r.n % g = 1
  /\ \A i \in 1..Len(l.buf) : r.buf[i] = l.buf[i]
  /\ \A i \in (Len(l.buf) + 1)..(Len(r.buf) - 1) : r.buf[i] = "DATA"
  /\ r.buf[Len(r.buf)] = "EOT"

\* putYSFEOT and putDMREOT leave the lane so, when padding and EOT fit.
LEMMA PutEotShape ==
  ASSUME NEW l \in Lanes, NEW g \in {3, 5}, NEW cap \in Nat,
         l.n = Len(l.buf), l.n + (g + 1) <= cap
  PROVE  EotPut(l, g, PutEot(l, g, cap))
<1> DEFINE r == PutEot(l, g, cap)
<1> DEFINE k == g - (l.n % g)
           d == PutData(l, k, cap)
<1>1. l.buf \in Seq(Tags) /\ l.n \in Nat
  BY DEF Lanes
<1>2. k \in 1..g /\ (l.n + k + 1) % g = 1
  BY <1>1, PaddingRange, FillAligns
<1>3. r = PutUnit(d, "EOT", cap)
  BY DEF PutEot
<1> HIDE DEF k, r
<1>4. k \in Nat /\ l.n + k < cap /\ Len(l.buf) + k <= cap
  <2>1. g \in Nat /\ k \in Nat /\ k <= g
    BY <1>2
  <2>2. l.n + k <= cap /\ l.n + k < cap
    BY <1>1, <2>1, RoomForPadding
  <2> QED
    BY <2>1, <2>2
<1>5. /\ d \in Lanes /\ d.n = l.n + k /\ Len(d.buf) = Len(l.buf) + k
      /\ \A i \in 1..Len(l.buf) : d.buf[i] = l.buf[i]
      /\ \A i \in (Len(l.buf) + 1)..(Len(l.buf) + k) : d.buf[i] = "DATA"
  BY <1>4, PutDataAppends
<1> HIDE DEF d
<1>6. d.n = Len(d.buf) /\ d.n < cap /\ "EOT" \in Tags
  BY <1>4, <1>5 DEF Tags
<1>7. Extends(d, r, "EOT") /\ r.n = d.n + 1
  BY <1>3, <1>5, <1>6, PutUnitExtends
<1>8. /\ r \in Lanes /\ r.n = Len(r.buf) /\ r.n = l.n + k + 1
      /\ Len(r.buf) = Len(d.buf) + 1
      /\ \A i \in 1..Len(d.buf) : r.buf[i] = d.buf[i]
      /\ r.buf[Len(r.buf)] = "EOT"
  <2>1. /\ r \in Lanes /\ r.n = Len(r.buf) /\ r.buf[Len(d.buf) + 1] = "EOT"
        /\ \A i \in 1..Len(d.buf) : r.buf[i] = d.buf[i]
    BY <1>7 DEF Extends
  <2>2. Len(r.buf) = Len(d.buf) + 1 /\ r.n = l.n + k + 1
    BY <1>1, <1>4, <1>5, <1>6, <1>7, <2>1
  <2> QED
    BY <2>1, <2>2
<1>9. /\ \A i \in 1..Len(l.buf) : r.buf[i] = l.buf[i]
      /\ \A i \in (Len(l.buf) + 1)..(Len(r.buf) - 1) : r.buf[i] = "DATA"
  <2>1. Len(l.buf) \in Nat /\ Len(d.buf) = Len(l.buf) + k /\ Len(r.buf) - 1 = Len(d.buf)
    BY <1>1, <1>4, <1>5, <1>8
  <2>2. /\ \A i \in 1..Len(l.buf) : i \in 1..Len(d.buf)
        /\ \A i \in (Len(l.buf) + 1)..(Len(r.buf) - 1) :
             i \in 1..Len(d.buf) /\ i \in (Len(l.buf) + 1)..(Len(l.buf) + k)
    BY <1>4, <2>1
  <2> QED
    BY <1>5, <1>8, <2>2
<1>10. r.n % g = 1
  BY <1>2, <1>8
<1> QED
  BY <1>8, <1>9, <1>10 DEF EotPut, k, r

\* A read takes as many units from the ring as from the counter, and says
\* which: the tag at the head, voice, or none (and then nothing is taken).
LEMMA GetInStep ==
  ASSUME NEW l \in Lanes, NEW g \in {3, 5}, l.n = Len(l.buf)
  PROVE  /\ GetRest(l, g).n = Len(GetRest(l, g).buf)
         /\ GetRest(l, g).n <= l.n
         /\ GetTag(l, g) = "NODATA" => GetRest(l, g) = l
         /\ GetTag(l, g) # "NODATA" => l.buf # <<>>
         /\ l.buf # <<>> /\ l.buf[1] # "DATA" => GetTag(l, g) = l.buf[1]
         /\ l.buf # <<>> /\ l.buf[1] = "DATA" => GetTag(l, g) \in {"DATA", "NODATA"}
<1>1. l.buf \in Seq(Tags) /\ l.n \in Nat
  BY DEF Lanes
<1>2. /\ l.buf = <<>> <=> l.n = 0
      /\ l.buf # <<>> => Head(l.buf) = l.buf[1] /\ Head(l.buf) \in Tags
  BY <1>1
<1>3. CASE HeadIsTag(l)
  <2>1. l.buf # <<>> /\ Head(l.buf) # "DATA"
    BY <1>1, <1>2, <1>3 DEF HeadIsTag
  <2>2. GetTag(l, g) = l.buf[1] /\ GetTag(l, g) # "NODATA"
    BY <1>2, <1>3, <2>1 DEF GetTag, Tags
  <2>3. GetRest(l, g) = [buf |-> Dropped(l.buf, 1), n |-> l.n - 1]
    BY <1>3 DEF GetRest
  <2>4. Len(Dropped(l.buf, 1)) = l.n - 1
    BY <1>1, <1>2, <2>1, DroppedLen
  <2>5. l.buf[1] # "DATA"
    BY <1>2, <2>1
  <2> QED
    BY <1>1, <2>1, <2>2, <2>3, <2>4, <2>5
<1>4. CASE ~HeadIsTag(l) /\ HasFrame(l, g)
  <2>1. GetTag(l, g) = "DATA" /\ l.n >= g
    BY <1>4 DEF GetTag, HasFrame
  <2>2. GetRest(l, g) = [buf |-> Dropped(l.buf, g), n |-> l.n - g]
    BY <1>4 DEF GetRest
  <2>3. Len(Dropped(l.buf, g)) = l.n - g
    BY <1>1, <2>1, DroppedLen
  <2>4. l.buf # <<>> /\ l.buf[1] = "DATA"
    BY <1>1, <1>2, <1>4, <2>1 DEF HeadIsTag
  <2> QED
    BY <1>1, <2>1, <2>2, <2>3, <2>4
<1>5. CASE ~HeadIsTag(l) /\ ~HasFrame(l, g)
  <2>1. GetTag(l, g) = "NODATA" /\ GetRest(l, g) = l
    BY <1>5 DEF GetTag, GetRest
  <2>2. l.buf # <<>> => l.buf[1] = "DATA"
    BY <1>1, <1>2, <1>5 DEF HeadIsTag
  <2> QED
    BY <1>1, <2>1, <2>2
<1> QED
  BY <1>3, <1>4, <1>5

\* A whole frame of voice at the head is what a read takes.
LEMMA GetFrame ==
  ASSUME NEW l \in Lanes, NEW g \in {3, 5}, l.n = Len(l.buf), l.n >= g,
         l.buf[1] = "DATA"
  PROVE  /\ GetTag(l, g) = "DATA"
         /\ GetRest(l, g) \in Lanes
         /\ GetRest(l, g).n = l.n - g
         /\ Len(GetRest(l, g).buf) = l.n - g
         /\ \A i \in 1..(l.n - g) : GetRest(l, g).buf[i] = l.buf[i + g]
<1>1. l.buf \in Seq(Tags) /\ l.n \in Nat
  BY DEF Lanes
<1>2. l.buf # <<>> /\ Head(l.buf) = "DATA"
  BY <1>1
<1>3. ~HeadIsTag(l) /\ HasFrame(l, g)
  BY <1>2 DEF HeadIsTag, HasFrame
<1>4. /\ GetTag(l, g) = "DATA"
      /\ GetRest(l, g) = [buf |-> Dropped(l.buf, g), n |-> l.n - g]
  BY <1>3 DEF GetTag, GetRest
<1>5. /\ Len(Dropped(l.buf, g)) = l.n - g
      /\ \A i \in 1..Len(Dropped(l.buf, g)) : Dropped(l.buf, g)[i] = l.buf[i + g]
  BY <1>1, DroppedLen
<1> QED
  BY <1>4, <1>5, GetRestType

\* A read that returns something takes it.
LEMMA GetTakes ==
  ASSUME NEW l \in Lanes, NEW g \in {3, 5}, l.n = Len(l.buf),
         GetTag(l, g) # "NODATA"
  PROVE  l.n > 0 /\ GetRest(l, g).n < l.n /\ GetRest(l, g) # l
<1>1. l.buf \in Seq(Tags) /\ l.n \in Nat
  BY DEF Lanes
<1>2. l.n > 0
  BY <1>1, GetInStep
<1>3. CASE HeadIsTag(l)
  BY <1>1, <1>2, <1>3 DEF GetRest
<1>4. CASE ~HeadIsTag(l)
  <2>1. HasFrame(l, g)
    BY <1>4 DEF GetTag
  <2> QED
    BY <1>1, <1>2, <1>4, <2>1 DEF GetRest
<1> QED
  BY <1>3, <1>4

\* An EOT is at place i of the ring.
EotAt(l, i) == i \in 1..Len(l.buf) /\ l.buf[i] = "EOT"

\* On a frame boundary, with nothing but voice before it, an EOT is read next
\* or a frame of voice is, and then it is a frame nearer to the head.
LEMMA EotNearer ==
  ASSUME NEW l \in Lanes, NEW g \in {3, 5}, l.n = Len(l.buf), NEW i \in Nat,
         EotAt(l, i), i % g = 1, \A j \in 1..(i - 1) : l.buf[j] = "DATA"
  PROVE  \/ i = 1 /\ GetTag(l, g) = "EOT"
         \/ /\ i > g /\ GetTag(l, g) = "DATA"
            /\ EotAt(GetRest(l, g), i - g)
            /\ (i - g) % g = 1
            /\ \A j \in 1..(i - g - 1) : GetRest(l, g).buf[j] = "DATA"
<1>1. l.buf \in Seq(Tags) /\ l.n \in Nat /\ i \in 1..l.n /\ l.buf[i] = "EOT"
  BY DEF Lanes, EotAt
<1>2. CASE i = 1
  <2>1. l.buf # <<>> /\ l.buf[1] # "DATA"
    BY <1>1, <1>2
  <2> QED
    BY <1>1, <1>2, <2>1, GetInStep
<1>3. CASE i # 1
  <2>1. i > g /\ (i - g) % g = 1 /\ i - g \in Nat
    <3>1. CASE g = 3
      BY <1>1, <1>3, <3>1
    <3>2. CASE g = 5
      BY <1>1, <1>3, <3>2
    <3> QED
      BY <3>1, <3>2
  <2>2. l.n >= g /\ l.buf[1] = "DATA"
    <3>1. 1 \in 1..(i - 1) /\ l.n >= g
      BY <1>1, <1>3, <2>1
    <3> QED
      BY <3>1
  <2> DEFINE r == GetRest(l, g)
  <2>3. /\ GetTag(l, g) = "DATA" /\ r \in Lanes /\ Len(r.buf) = l.n - g
        /\ \A j \in 1..(l.n - g) : r.buf[j] = l.buf[j + g]
    BY <2>2, GetFrame
  <2> HIDE DEF r
  <2>4. i - g \in 1..(l.n - g) /\ (i - g) + g = i
    BY <1>1, <2>1
  <2>5. r.buf[i - g] = "EOT"
    BY <1>1, <2>3, <2>4
  <2>6. \A j \in 1..(i - g - 1) : j \in 1..(l.n - g) /\ j + g \in 1..(i - 1)
    BY <1>1, <2>1
  <2>7. \A j \in 1..(i - g - 1) : r.buf[j] = "DATA"
    BY <2>3, <2>6
  <2> QED
    BY <2>1, <2>3, <2>4, <2>5, <2>7 DEF EotAt, r
<1> QED
  BY <1>2, <1>3

\* An EOT in the lane is due: counter and ring agree, it is on a frame
\* boundary, and there is nothing but voice before it.
Due(l, g) ==
  /\ l.n = Len(l.buf)
  /\ \A i \in Nat :
       EotAt(l, i) => i % g = 1 /\ \A j \in 1..(i - 1) : l.buf[j] = "DATA"

\* The units of l come first in r, and no EOT is added.
Grown(l, r) ==
  /\ r \in Lanes /\ r.n = Len(r.buf) /\ Len(r.buf) >= Len(l.buf)
  /\ \A i \in 1..Len(l.buf) : r.buf[i] = l.buf[i]
  /\ \A i \in (Len(l.buf) + 1)..Len(r.buf) : r.buf[i] # "EOT"

\* An empty lane owes nothing.
LEMMA EmptyDue == ASSUME NEW g PROVE Due(EmptyLane, g) /\ EmptyLane \in Lanes
BY DEF Due, EotAt, EmptyLane, Lanes

\* putYSFHeader and putDMRHeader add no EOT.
LEMMA HeaderGrows ==
  ASSUME NEW l \in Lanes, NEW cap \in Nat, l.n = Len(l.buf), l.n < cap
  PROVE  Grown(l, PutHeader(l, cap))
<1> DEFINE r == PutHeader(l, cap)
<1>1. Extends(l, r, "HEADER") /\ r.n = l.n + 1
  BY PutHeaderExtends
<1> HIDE DEF r
<1>2. /\ r \in Lanes /\ r.n = Len(r.buf) /\ Len(r.buf) = Len(l.buf) + 1
      /\ \A i \in 1..Len(l.buf) : r.buf[i] = l.buf[i]
      /\ r.buf[Len(l.buf) + 1] = "HEADER" /\ Len(l.buf) \in Nat
  BY <1>1 DEF Extends, Lanes
<1>3. \A i \in (Len(l.buf) + 1)..Len(r.buf) : r.buf[i] # "EOT"
  BY <1>2
<1>4. Len(r.buf) >= Len(l.buf)
  BY <1>2
<1> QED
  BY <1>2, <1>3, <1>4 DEF Grown, r

\* putYSF and putDMR add no EOT.
LEMMA DataGrows ==
  ASSUME NEW l \in Lanes, NEW k \in Nat, NEW cap \in Nat, l.n = Len(l.buf),
         l.n + k <= cap
  PROVE  Grown(l, PutData(l, k, cap))
<1> DEFINE r == PutData(l, k, cap)
<1>1. /\ r \in Lanes /\ r.n = l.n + k /\ Len(r.buf) = Len(l.buf) + k
      /\ \A i \in 1..Len(l.buf) : r.buf[i] = l.buf[i]
      /\ \A i \in (Len(l.buf) + 1)..(Len(l.buf) + k) : r.buf[i] = "DATA"
  BY PutDataAppends
<1> HIDE DEF r
<1>2. Len(l.buf) \in Nat /\ r.n = Len(r.buf) /\ Len(r.buf) >= Len(l.buf)
  BY <1>1 DEF Lanes
<1>3. \A i \in (Len(l.buf) + 1)..Len(r.buf) : r.buf[i] # "EOT"
  BY <1>1
<1> QED
  BY <1>1, <1>2, <1>3 DEF Grown, r

\* A lane that grows keeps its EOT, and owes no other.
LEMMA GrownDue ==
  ASSUME NEW l \in Lanes, NEW r, NEW g, Due(l, g), Grown(l, r)
  PROVE  Due(r, g) /\ \A i \in Nat : EotAt(l, i) => EotAt(r, i)
<1>1. /\ Len(l.buf) \in Nat /\ Len(r.buf) \in Nat
      /\ r.n = Len(r.buf) /\ Len(r.buf) >= Len(l.buf)
  BY DEF Grown, Lanes
<1>2. \A i \in Nat : EotAt(l, i) <=> EotAt(r, i)
  <2> SUFFICES ASSUME NEW i \in Nat PROVE EotAt(l, i) <=> EotAt(r, i)
    OBVIOUS
  <2>1. CASE i \in 1..Len(l.buf)
    BY <1>1, <2>1 DEF EotAt, Grown
  <2>2. CASE i \in (Len(l.buf) + 1)..Len(r.buf)
    BY <1>1, <2>2 DEF EotAt, Grown
  <2>3. CASE i \notin 1..Len(r.buf)
    BY <1>1, <2>3 DEF EotAt
  <2> QED
    BY <1>1, <2>1, <2>2, <2>3
<1>3. ASSUME NEW i \in Nat, EotAt(r, i)
      PROVE  i % g = 1 /\ \A j \in 1..(i - 1) : r.buf[j] = "DATA"
  <2>1. /\ i \in 1..Len(l.buf) /\ i % g = 1
        /\ \A j \in 1..(i - 1) : l.buf[j] = "DATA"
    BY <1>2, <1>3 DEF EotAt, Due
  <2>2. \A j \in 1..(i - 1) : j \in 1..Len(l.buf)
    BY <1>1, <2>1
  <2> QED
    BY <2>1, <2>2 DEF Grown
<1> QED
  BY <1>1, <1>2, <1>3 DEF Due

\* An EOT put behind nothing but voice is due.
LEMMA EotPutDue ==
  ASSUME NEW l \in Lanes, NEW r, NEW g, EotPut(l, g, r),
         \A i \in 1..Len(l.buf) : l.buf[i] = "DATA"
  PROVE  Due(r, g)
<1>1. Len(l.buf) \in Nat /\ Len(r.buf) \in Nat /\ r.n = Len(r.buf) /\ r.n % g = 1
  BY DEF EotPut, Lanes
<1>2. \A j \in 1..(Len(r.buf) - 1) : r.buf[j] = "DATA"
  <2> SUFFICES ASSUME NEW j \in 1..(Len(r.buf) - 1) PROVE r.buf[j] = "DATA"
    OBVIOUS
  <2>1. CASE j \in 1..Len(l.buf)
    BY <2>1 DEF EotPut
  <2>2. CASE j \notin 1..Len(l.buf)
    <3>1. j \in (Len(l.buf) + 1)..(Len(r.buf) - 1)
      BY <1>1, <2>2
    <3> QED
      BY <3>1 DEF EotPut
  <2> QED
    BY <2>1, <2>2
<1>3. \A i \in Nat : EotAt(r, i) => i = Len(r.buf)
  <2> SUFFICES ASSUME NEW i \in Nat, EotAt(r, i), i # Len(r.buf) PROVE FALSE
    OBVIOUS
  <2>1. i \in 1..Len(r.buf) /\ r.buf[i] = "EOT"
    BY DEF EotAt
  <2>2. i \in 1..(Len(r.buf) - 1)
    BY <1>1, <2>1
  <2> QED
    BY <1>2, <2>1, <2>2
<1> QED
  BY <1>1, <1>2, <1>3 DEF Due

\* Taking what is at the head leaves a later EOT due.
LEMMA GetDue ==
  ASSUME NEW l \in Lanes, NEW g \in {3, 5}, Due(l, g), GetTag(l, g) # "EOT"
  PROVE  Due(GetRest(l, g), g)
<1> DEFINE r == GetRest(l, g)
<1>1. /\ l.buf \in Seq(Tags) /\ l.n \in Nat /\ l.n = Len(l.buf)
      /\ r \in Lanes /\ r.n = Len(r.buf)
  BY GetRestType, GetInStep DEF Due, Lanes
<1> SUFFICES ASSUME NEW i \in Nat, EotAt(r, i)
             PROVE  i % g = 1 /\ \A j \in 1..(i - 1) : r.buf[j] = "DATA"
  BY <1>1 DEF Due
<1>2. CASE HeadIsTag(l)
  <2>1. l.buf # <<>> /\ Head(l.buf) # "DATA"
    BY <1>1, <1>2 DEF HeadIsTag
  <2>2. /\ Len(r.buf) = Len(l.buf) - 1
        /\ \A j \in 1..Len(r.buf) : r.buf[j] = l.buf[j + 1]
    <3>1. r.buf = Dropped(l.buf, 1)
      BY <1>2 DEF GetRest
    <3>2. Len(l.buf) \in Nat /\ Len(l.buf) >= 1
      BY <1>1, <2>1
    <3> HIDE DEF r
    <3> QED
      BY <1>1, <3>1, <3>2, DroppedLen
  <2>3. EotAt(l, i + 1) /\ i \in 1..Len(r.buf)
    BY <1>1, <2>2 DEF EotAt
  <2>4. \A j \in 1..((i + 1) - 1) : l.buf[j] = "DATA"
    BY <2>3 DEF Due
  <2>5. 1 \in 1..((i + 1) - 1)
    BY <1>1, <2>2, <2>3
  <2>6. l.buf[1] = "DATA" /\ l.buf[1] = Head(l.buf)
    BY <1>1, <2>1, <2>4, <2>5
  <2> QED
    BY <2>1, <2>6
<1>3. CASE ~HeadIsTag(l) /\ HasFrame(l, g)
  <2>1. r = [buf |-> Dropped(l.buf, g), n |-> l.n - g] /\ l.n >= g
    BY <1>3 DEF HasFrame, GetRest
  <2>2. /\ Len(r.buf) = Len(l.buf) - g
        /\ \A j \in 1..Len(r.buf) : r.buf[j] = l.buf[j + g]
    BY <1>1, <2>1, DroppedLen
  <2>3. EotAt(l, i + g) /\ i \in 1..Len(r.buf) /\ i + g \in Nat
    BY <1>1, <2>2 DEF EotAt
  <2>4. (i + g) % g = 1 /\ \A j \in 1..((i + g) - 1) : l.buf[j] = "DATA"
    BY <2>3 DEF Due
  <2>5. \A j \in 1..(i - 1) : j + g \in 1..((i + g) - 1) /\ j \in 1..Len(r.buf)
    BY <1>1, <2>2, <2>3
  <2>6. i % g = 1
    <3>1. CASE g = 3
      BY <2>4, <3>1
    <3>2. CASE g = 5
      BY <2>4, <3>2
    <3> QED
      BY <3>1, <3>2
  <2> QED
    BY <2>2, <2>4, <2>5, <2>6
<1>4. CASE ~HeadIsTag(l) /\ ~HasFrame(l, g)
  <2>1. r = l
    BY <1>4 DEF GetRest
  <2> HIDE DEF r
  <2> QED
    BY <2>1 DEF Due
<1> QED
  BY <1>2, <1>3, <1>4

-----------------------------------------------------------------------------
(* One lane as a state machine *)

\* What the assumption on the constants gives the arithmetic below.
LEMMA GroupFrame ==
  Group \in {3, 5} /\ Frame \in {3, 5} /\ Cap \in Nat /\ Cap >= 5
BY LaneAssumption

-----------------------------------------------------------------------------
(* The counter and the ring *)

CountInv == LaneTypeOK /\ CountCoversRing

\* The types of the lane, of what a get returns and of steady are kept.
LEMMA LaneStep == LaneTypeOK /\ [LaneNext]_laneVars => LaneTypeOK'
<1> SUFFICES ASSUME LaneTypeOK, [LaneNext]_laneVars
             PROVE  LaneTypeOK'
  OBVIOUS
<1> USE GroupFrame DEF LaneTypeOK
<1>1. CASE Header
  BY <1>1, PutHeaderType DEF Header
<1>2. CASE Voice
  BY <1>2, PutDataType DEF Voice
<1>3. CASE Eot
  BY <1>3, PutEotType DEF Eot
<1>4. CASE Get
  BY <1>4, GetRestType, GetTagType DEF Get
<1>5. CASE Reset
  BY <1>5 DEF Reset, EmptyLane, Lanes, Tags
<1>6. CASE UNCHANGED laneVars
  BY <1>6 DEF laneVars
<1> QED
  BY <1>1, <1>2, <1>3, <1>4, <1>5, <1>6 DEF LaneNext

\* The lane starts with nothing in the ring and nothing counted.
LEMMA InitCount == LaneInit => CountInv
BY DEF LaneInit, CountInv, LaneTypeOK, CountCoversRing, EmptyLane, Lanes, Tags

\* No operation leaves more in the ring than the counter knows of.
LEMMA StepCount == CountInv /\ [LaneNext]_laneVars => CountInv'
<1> SUFFICES ASSUME CountInv, [LaneNext]_laneVars
             PROVE  CountInv'
  OBVIOUS
<1> USE GroupFrame DEF CountInv, LaneTypeOK, CountCoversRing
<1>1. CASE Header
  <2>1. PutHeader(q, Cap) \in Lanes /\ PutHeader(q, Cap).n >= Len(PutHeader(q, Cap).buf)
    BY PutHeaderType, PutUnitCount DEF PutHeader, Tags
  <2> QED
    BY <1>1, <2>1 DEF Header
<1>2. CASE Voice
  BY <1>2, PutDataType, PutDataCount DEF Voice
<1>3. CASE Eot
  <2> DEFINE fill == Group - (q.n % Group)
             padded == PutData(q, fill, Cap)
  <2>1. fill \in Nat /\ fill <= Cap
    BY DEF Lanes
  <2>2. padded \in Lanes /\ padded.n >= Len(padded.buf)
    BY <2>1, PutDataType, PutDataCount
  <2>3. "EOT" \in Tags
    BY DEF Tags
  <2> HIDE DEF fill, padded
  <2>4. PutUnit(padded, "EOT", Cap).n >= Len(PutUnit(padded, "EOT", Cap).buf)
    BY <2>2, <2>3, PutUnitCount
  <2>5. PutUnit(padded, "EOT", Cap) \in Lanes
    BY <2>2, <2>3, PutUnitType
  <2> QED
    BY <1>3, <2>4, <2>5 DEF Eot, PutEot, fill, padded
<1>4. CASE Get
  <2>1. q' \in Lanes /\ got' \in Tags \cup {"NODATA"}
    BY <1>4, GetRestType, GetTagType DEF Get
  <2>2. q.n \in Nat /\ q.buf \in Seq(Tags)
    BY DEF Lanes
  <2>3. CASE HeadIsTag(q)
    BY <1>4, <2>1, <2>2, <2>3, DroppedLen DEF Get, GetRest, HeadIsTag
  <2>4. CASE ~HeadIsTag(q) /\ HasFrame(q, Group)
    BY <1>4, <2>1, <2>2, <2>4, DroppedLen DEF Get, GetRest, HasFrame
  <2>5. CASE ~HeadIsTag(q) /\ ~HasFrame(q, Group)
    BY <1>4, <2>1, <2>5 DEF Get, GetRest
  <2> QED
    BY <2>3, <2>4, <2>5
<1>5. CASE Reset
  BY <1>5 DEF Reset, EmptyLane, Lanes, Tags
<1>6. CASE UNCHANGED laneVars
  BY <1>6 DEF laneVars
<1> QED
  BY <1>1, <1>2, <1>3, <1>4, <1>5, <1>6 DEF LaneNext

\* Whatever the pace of producer and consumer, and across overflows of the
\* ring (RingBuffer.h addData), the counter never falls below the ring.
THEOREM CountAlwaysCoversRing == LaneSpec => []CountCoversRing
<1>1. CountInv => CountCoversRing
  BY DEF CountInv
<1> QED
  BY <1>1, InitCount, StepCount, PTL DEF LaneSpec

-----------------------------------------------------------------------------
(* The EOT stays on a frame boundary *)

\* The parts of the invariant behind EotIntact, for producers that keep step:
\* counter and ring agree, an EOT is on a frame boundary and alone, and a
\* header, whose removal would shift the boundary, is at the head and before
\* no EOT.
EotAligned(s) == \A i \in 1..Len(s) : s[i] = "EOT" => i % Group = 1
EotAlone(s)   == \A i, j \in 1..Len(s) : s[i] = "EOT" /\ s[j] = "EOT" => i = j
HeaderAtHead(s) ==
  \A i \in 1..Len(s) :
    s[i] = "HEADER" => i = 1 /\ \A j \in 1..Len(s) : s[j] # "EOT"
AlignInv ==
  /\ LaneTypeOK
  /\ q.n = Len(q.buf)
  /\ EotAligned(q.buf)
  /\ EotAlone(q.buf)
  /\ HeaderAtHead(q.buf)

\* The lane starts aligned.
LEMMA InitAlign == LaneInit => AlignInv
BY DEF LaneInit, AlignInv, LaneTypeOK, EmptyLane, Lanes, Tags, EotAligned, EotAlone,
       HeaderAtHead

\* Taking a whole frame leaves every later boundary a boundary.
LEMMA FrameShift ==
  ASSUME NEW i \in Nat, (i + Group) % Group = 1
  PROVE  i % Group = 1
<1>1. CASE Group = 3
  BY <1>1
<1>2. CASE Group = 5
  BY <1>2
<1> QED
  BY <1>1, <1>2, GroupFrame

\* Voice of either mode leaves the place of a queued EOT alone.
LEMMA AlignVoice ==
  ASSUME AlignInv, Voice, steady'
  PROVE  AlignInv'
<1>0. Len(q.buf) + Frame <= Cap
  BY DEF Voice, Fits
<1>1. Frame \in Nat /\ Len(q.buf) + Frame <= Cap /\ q \in Lanes /\ Cap \in Nat
  BY <1>0, GroupFrame DEF AlignInv, LaneTypeOK
<1>2. q' = PutData(q, Frame, Cap) /\ got' = "NODATA"
  BY DEF Voice
<1>3. /\ q' \in Lanes
      /\ q'.n = q.n + Frame
      /\ Len(q'.buf) = Len(q.buf) + Frame
      /\ \A i \in 1..Len(q.buf) : q'.buf[i] = q.buf[i]
      /\ \A i \in (Len(q.buf) + 1)..(Len(q.buf) + Frame) : q'.buf[i] = "DATA"
  BY <1>1, <1>2, PutDataAppends
<1>4. Len(q.buf) \in Nat
  BY <1>1 DEF Lanes
<1>5. \A i \in 1..Len(q'.buf) :
        q'.buf[i] # "DATA" => i \in 1..Len(q.buf) /\ q'.buf[i] = q.buf[i]
  BY <1>1, <1>3, <1>4
<1>6. EotAligned(q'.buf)
  BY <1>5 DEF AlignInv, EotAligned
<1>7. EotAlone(q'.buf)
  BY <1>5 DEF AlignInv, EotAlone
<1>8. HeaderAtHead(q'.buf)
  BY <1>5 DEF AlignInv, HeaderAtHead
<1>9. q'.n = Len(q'.buf) /\ LaneTypeOK'
  BY <1>2, <1>3 DEF AlignInv, LaneTypeOK
<1> QED
  BY <1>6, <1>7, <1>8, <1>9 DEF AlignInv

\* A header is put into an empty lane and holds no EOT.
LEMMA AlignHeader ==
  ASSUME AlignInv, Header, steady'
  PROVE  AlignInv'
<1>1. q.buf = <<>> /\ q \in Lanes /\ Cap \in Nat /\ Cap >= 5
  BY GroupFrame DEF Header, AlignInv, LaneTypeOK
<1>2. q' = PutHeader(q, Cap) /\ got' = "NODATA"
  BY DEF Header
<1>3. q' = [buf |-> <<"HEADER">>, n |-> q.n + 1]
  BY <1>1, <1>2 DEF PutHeader, PutUnit
<1>4. Len(q'.buf) = 1 /\ q'.buf[1] = "HEADER"
  BY <1>3
<1>5. LaneTypeOK'
  BY <1>1, <1>2, PutHeaderType DEF LaneTypeOK
<1>6. q'.n = Len(q'.buf)
  BY <1>1, <1>3, <1>4 DEF AlignInv
<1> QED
  BY <1>4, <1>5, <1>6 DEF AlignInv, EotAligned, EotAlone, HeaderAtHead

\* The padding puts the EOT at the start of a frame.
LEMMA AlignEot ==
  ASSUME AlignInv, Eot, steady'
  PROVE  AlignInv'
<1>1. /\ q \in Lanes /\ Cap \in Nat /\ Group \in {3, 5}
      /\ q.n \in Nat /\ q.n = Len(q.buf)
  BY GroupFrame DEF AlignInv, LaneTypeOK, Lanes
<1>2. Len(q.buf) + (Group + 1) <= Cap
  BY DEF Eot, Fits
<1>3. q' = PutEot(q, Group, Cap) /\ got' = "NODATA"
  BY DEF Eot
<1>4. \A i \in 1..Len(q.buf) : q.buf[i] = "DATA"
  BY DEF Eot, TagsIn, AlignInv, LaneTypeOK, Lanes
<1>5. q.n + (Group + 1) <= Cap
  BY <1>1, <1>2, Zenon
<1>6. /\ q' \in Lanes /\ q'.n = Len(q'.buf) /\ q'.n % Group = 1
      /\ \A i \in 1..Len(q.buf) : q'.buf[i] = q.buf[i]
      /\ \A i \in (Len(q.buf) + 1)..(Len(q'.buf) - 1) : q'.buf[i] = "DATA"
      /\ q'.buf[Len(q'.buf)] = "EOT"
  <2>1. q \in Lanes /\ Group \in {3, 5} /\ Cap \in Nat /\ q.n = Len(q.buf)
    BY <1>1
  <2>2. EotPut(q, Group, PutEot(q, Group, Cap))
    BY <1>5, <2>1, PutEotShape
  <2>3. EotPut(q, Group, q')
    BY <1>3, <2>2, Zenon
  <2> QED
    BY <2>3, Zenon DEF EotPut
<1>7. Len(q'.buf) \in Nat /\ Len(q.buf) \in Nat
  BY <1>1, <1>6 DEF Lanes
<1>8. \A i \in 1..(Len(q'.buf) - 1) : q'.buf[i] = "DATA"
  BY <1>4, <1>6, <1>7
<1>9. \A i \in 1..Len(q'.buf) :
        IF i = Len(q'.buf) THEN q'.buf[i] = "EOT" ELSE q'.buf[i] = "DATA"
  BY <1>6, <1>7, <1>8
<1>10. EotAligned(q'.buf) /\ EotAlone(q'.buf) /\ HeaderAtHead(q'.buf)
  BY <1>6, <1>9 DEF EotAligned, EotAlone, HeaderAtHead
<1>11. LaneTypeOK'
  <2>1. got' \in Tags \cup {"NODATA"}
    BY <1>3
  <2>2. steady' \in BOOLEAN
    BY DEF Eot
  <2> QED
    BY <1>6, <2>1, <2>2 DEF LaneTypeOK
<1> QED
  BY <1>6, <1>10, <1>11 DEF AlignInv

\* Taking a frame or a tag keeps the EOT at a frame boundary.
LEMMA AlignGet ==
  ASSUME AlignInv, Get
  PROVE  AlignInv'
<1>1. /\ q \in Lanes /\ Group \in {3, 5}
      /\ q.n \in Nat /\ q.n = Len(q.buf) /\ q.buf \in Seq(Tags)
  BY GroupFrame DEF AlignInv, LaneTypeOK, Lanes
<1>2. q' = GetRest(q, Group) /\ q.n > 0
  BY DEF Get
<1>3. LaneTypeOK'
  BY LaneStep DEF AlignInv, LaneNext
<1>4. CASE HeadIsTag(q)
  <2>1. q' = [buf |-> Dropped(q.buf, 1), n |-> q.n - 1]
    BY <1>2, <1>4 DEF GetRest
  <2>2. /\ q'.n = Len(q'.buf)
        /\ Len(q'.buf) = Len(q.buf) - 1
        /\ \A i \in 1..Len(q'.buf) : q'.buf[i] = q.buf[i + 1]
    BY <1>1, <1>2, <2>1, DroppedLen
  <2>3. q.buf # <<>> /\ q.buf[1] \in {"HEADER", "EOT"}
    BY <1>1, <1>2, <1>4 DEF HeadIsTag, Tags
  <2>4. \A i \in 1..Len(q'.buf) : i + 1 \in 1..Len(q.buf) /\ i + 1 # 1
    BY <1>1, <2>2
  <2>5. 1 \in 1..Len(q.buf)
    BY <1>1, <1>2
  <2>6. \A i \in 1..Len(q'.buf) : q'.buf[i] # "EOT" /\ q'.buf[i] # "HEADER"
    BY <2>2, <2>3, <2>4, <2>5 DEF AlignInv, EotAlone, HeaderAtHead
  <2> QED
    BY <1>3, <2>2, <2>6 DEF AlignInv, EotAligned, EotAlone, HeaderAtHead
<1>5. CASE ~HeadIsTag(q) /\ HasFrame(q, Group)
  <2>1. q' = [buf |-> Dropped(q.buf, Group), n |-> q.n - Group]
    BY <1>2, <1>5 DEF GetRest
  <2>2. q.n >= Group
    BY <1>5 DEF HasFrame
  <2>3. /\ q'.n = Len(q'.buf)
        /\ Len(q'.buf) = Len(q.buf) - Group
        /\ \A i \in 1..Len(q'.buf) : q'.buf[i] = q.buf[i + Group]
    BY <1>1, <2>1, <2>2, DroppedLen
  <2>4. \A i \in 1..Len(q'.buf) : i \in Nat /\ i + Group \in 1..Len(q.buf) /\ i + Group # 1
    BY <1>1, <2>3
  <2>5. EotAligned(q'.buf)
    <3> SUFFICES ASSUME NEW i \in 1..Len(q'.buf), q'.buf[i] = "EOT"
                 PROVE  i % Group = 1
      BY DEF EotAligned
    <3>1. (i + Group) % Group = 1
      BY <2>3, <2>4 DEF AlignInv, EotAligned
    <3> QED
      BY <2>4, <3>1, FrameShift
  <2>6. EotAlone(q'.buf)
    <3> SUFFICES ASSUME NEW i \in 1..Len(q'.buf), NEW j \in 1..Len(q'.buf),
                        q'.buf[i] = "EOT", q'.buf[j] = "EOT"
                 PROVE  i = j
      BY DEF EotAlone
    <3>1. i + Group = j + Group
      BY <2>3, <2>4 DEF AlignInv, EotAlone
    <3> QED
      BY <1>1, <2>4, <3>1
  <2>7. HeaderAtHead(q'.buf)
    BY <2>3, <2>4 DEF AlignInv, HeaderAtHead
  <2> QED
    BY <1>3, <2>3, <2>5, <2>6, <2>7 DEF AlignInv
<1>6. CASE ~HeadIsTag(q) /\ ~HasFrame(q, Group)
  BY <1>2, <1>3, <1>6 DEF GetRest, AlignInv
<1> QED
  BY <1>4, <1>5, <1>6

\* An EOT at a frame boundary is never inside the next frame.
LEMMA AlignIntact == AlignInv => EotLeaves
<1> SUFFICES ASSUME AlignInv, NEW i \in 2..Group, i <= Len(q.buf), q.buf[i] = "EOT"
             PROVE  FALSE
  BY DEF EotLeaves, EotInFrame
<1>1. i % Group = 1
  BY GroupFrame DEF AlignInv, EotAligned
<1>2. CASE Group = 3
  BY <1>1, <1>2
<1>3. CASE Group = 5
  BY <1>1, <1>3
<1> QED
  BY <1>2, <1>3, GroupFrame

\* In step the lane is aligned; out of step only its type is known.
LaneStepInv == LaneTypeOK /\ (steady => AlignInv)

\* The steps of both sides keep the lane aligned for as long as they keep step.
LEMMA StepAlign == LaneStepInv /\ [LaneNext]_laneVars => LaneStepInv'
<1> SUFFICES ASSUME LaneStepInv, [LaneNext]_laneVars
             PROVE  LaneStepInv'
  OBVIOUS
<1>1. LaneTypeOK'
  BY LaneStep DEF LaneStepInv
<1>2. ASSUME steady' PROVE AlignInv'
  <2>1. CASE Reset
    BY <1>1, <2>1 DEF Reset, AlignInv, EmptyLane, EotAligned, EotAlone,
       HeaderAtHead
  <2>2. CASE UNCHANGED laneVars
    BY <1>2, <2>2 DEF laneVars, LaneStepInv, AlignInv, LaneTypeOK
  <2>3. CASE Header
    BY <1>2, <2>3, AlignHeader DEF LaneStepInv, Header
  <2>4. CASE Voice
    BY <1>2, <2>4, AlignVoice DEF LaneStepInv, Voice
  <2>5. CASE Eot
    BY <1>2, <2>5, AlignEot DEF LaneStepInv, Eot
  <2>6. CASE Get
    BY <1>2, <2>6, AlignGet DEF LaneStepInv, Get
  <2> QED
    BY <2>1, <2>2, <2>3, <2>4, <2>5, <2>6 DEF LaneNext
<1> QED
  BY <1>1, <1>2 DEF LaneStepInv

\* Between a producer and a consumer that keep step no EOT is ever swallowed by
\* a voice frame: the padding of putDMREOT and putYSFEOT and the grouping of
\* getYSF and getDMR agree, for both lanes and every size of the ring; and a
\* reset (modeconv_reset) puts a lane that got out of step right again.
THEOREM EotAlwaysIntact == LaneSpec => []EotIntact
<1>1. LaneInit => LaneStepInv
  BY InitAlign DEF LaneStepInv, AlignInv
<1>2. LaneStepInv => EotIntact
  BY AlignIntact DEF LaneStepInv, EotIntact
<1> QED
  BY <1>1, <1>2, StepAlign, PTL DEF LaneSpec

-----------------------------------------------------------------------------
(* An EOT that waits is on its way *)

\* Before a queued EOT there is nothing but voice.
LEMMA VoiceBeforeEot ==
  ASSUME AlignInv, NEW i \in Nat, EotAt(q, i)
  PROVE  i % Group = 1 /\ \A j \in 1..(i - 1) : q.buf[j] = "DATA"
<1>1. q.buf \in Seq(Tags) /\ Len(q.buf) \in Nat /\ i \in 1..Len(q.buf) /\ q.buf[i] = "EOT"
  BY DEF AlignInv, LaneTypeOK, Lanes, EotAt
<1>2. \A j \in 1..(i - 1) : j \in 1..Len(q.buf) /\ j # i
  BY <1>1
<1>3. \A j \in 1..Len(q.buf) : q.buf[j] \in {"DATA", "HEADER", "EOT"}
  BY <1>1 DEF Tags
<1>4. \A j \in 1..(i - 1) : q.buf[j] # "EOT" /\ q.buf[j] # "HEADER"
  BY <1>1, <1>2 DEF AlignInv, EotAlone, HeaderAtHead
<1> QED
  BY <1>1, <1>2, <1>3, <1>4 DEF AlignInv, EotAligned

\* What one step may do to a queued EOT: a reset wipes it, the consumer takes
\* it, or takes the whole frame before it, and nothing else moves it.
EotComesNearer(i) ==
  \/ ~steady' \/ q' = EmptyLane \/ got' = "EOT"
  \/ Get /\ i > Group /\ EotAt(q', i - Group)
  \/ ~Get /\ EotAt(q', i)

\* An EOT in a lane whose sides keep step never gets stuck there.  Whoever
\* calls getDMR or getYSF is handed the frame before it or the EOT itself,
\* never "no data"; every such call brings it one frame nearer, and no other
\* operation of the converter moves it back.  This is the safety half of
\* EotDelivered: with a consumer that comes round, the EOT comes out after
\* (i - 1) / Group frames.
THEOREM EotNeverStuck ==
  LaneSpec => /\ [](\A i \in Nat : steady /\ EotAt(q, i) =>
                       GetTag(q, Group) = IF i = 1 THEN "EOT" ELSE "DATA")
              /\ [][\A i \in Nat : steady /\ EotAt(q, i) => EotComesNearer(i)]_laneVars
<1>1. LaneInit => LaneStepInv
  BY InitAlign DEF LaneStepInv, AlignInv
<1>2. ASSUME LaneStepInv, steady, NEW i \in Nat, EotAt(q, i)
      PROVE  \/ i = 1 /\ GetTag(q, Group) = "EOT"
             \/ i > Group /\ GetTag(q, Group) = "DATA" /\ EotAt(GetRest(q, Group), i - Group)
  <2>1. AlignInv /\ q \in Lanes /\ q.n = Len(q.buf) /\ Group \in {3, 5}
    BY <1>2, GroupFrame DEF LaneStepInv, AlignInv, LaneTypeOK
  <2>2. i % Group = 1 /\ \A j \in 1..(i - 1) : q.buf[j] = "DATA"
    BY <1>2, <2>1, VoiceBeforeEot
  <2> QED
    BY <1>2, <2>1, <2>2, EotNearer
<1>3. LaneStepInv => \A i \in Nat : steady /\ EotAt(q, i) =>
                       GetTag(q, Group) = IF i = 1 THEN "EOT" ELSE "DATA"
  BY <1>2, GroupFrame
<1>4. ASSUME LaneStepInv, LaneNext, NEW i \in Nat, steady, EotAt(q, i)
      PROVE  EotComesNearer(i)
  <2>1. /\ AlignInv /\ q \in Lanes /\ q.n = Len(q.buf) /\ q.n \in Nat
        /\ Cap \in Nat /\ Group \in {3, 5} /\ Frame \in Nat
    BY <1>4, GroupFrame DEF LaneStepInv, AlignInv, LaneTypeOK, Lanes
  <2>2. CASE Get
    BY <1>2, <1>4, <2>2 DEF Get, EotComesNearer
  <2>3. CASE Reset
    BY <2>3 DEF Reset, EotComesNearer
  <2>4. CASE Header
    <3>1. q.buf # <<>>
      BY <1>4, <2>1 DEF EotAt
    <3> QED
      BY <2>4, <3>1 DEF Header, EotComesNearer
  <2>5. CASE Eot
    <3>1. TagsIn(q.buf) # {}
      BY <1>4 DEF EotAt, TagsIn
    <3> QED
      BY <2>5, <3>1 DEF Eot, EotComesNearer
  <2>6. CASE Voice /\ ~Get /\ steady'
    <3>1. Len(q.buf) + Frame <= Cap /\ q' = PutData(q, Frame, Cap)
      BY <2>6 DEF Voice, Fits
    <3>2. Due(q, Group)
      BY <2>1, VoiceBeforeEot DEF Due
    <3>3. Grown(q, q')
      BY <2>1, <3>1, DataGrows
    <3>4. EotAt(q', i)
      BY <1>4, <2>1, <3>2, <3>3, GrownDue
    <3> QED
      BY <2>6, <3>4 DEF EotComesNearer
  <2>7. CASE Voice /\ ~Get /\ ~steady'
    BY <2>7 DEF EotComesNearer
  <2> QED
    BY <1>4, <2>2, <2>3, <2>4, <2>5, <2>6, <2>7 DEF LaneNext
<1>5. LaneStepInv /\ [LaneNext]_laneVars =>
        [\A i \in Nat : steady /\ EotAt(q, i) => EotComesNearer(i)]_laneVars
  BY <1>4
<1> QED
  BY <1>1, <1>3, <1>5, StepAlign, PTL DEF LaneSpec
=============================================================================
