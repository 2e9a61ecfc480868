--------------------------- MODULE TelemetryProofs ---------------------------
(***************************************************************************)
(* Theorems about the telemetry that the workbench shows: the ring of      *)
(* samples behind the oscilloscope (SignalHistory) and the frames of the   *)
(* twin's two arms (TwinFrames).                                           *)
(***************************************************************************)
EXTENDS SignalHistory, TwinFrames, SetInduction

-----------------------------------------------------------------------------
(* Positions of a ring.                                                    *)

LEMMA WrapLow ==
  ASSUME NEW M \in Nat \ {0}, NEW x \in 0 .. M - 1
  PROVE  x % M = x
  OBVIOUS

LEMMA WrapHigh ==
  ASSUME NEW M \in Nat \ {0}, NEW x \in M .. 2 * M - 1
  PROVE  x % M = x - M
  OBVIOUS

\* Where a position of the ring lies, whether or not it has wrapped.
LEMMA Wrap ==
  ASSUME NEW M \in Nat \ {0}, NEW s \in 0 .. M - 1, NEW k \in 0 .. M
  PROVE  /\ (s + k) % M = IF s + k < M THEN s + k ELSE s + k - M
         /\ (s + k) % M \in 0 .. M - 1
<1>1. CASE s + k < M
    <2>1. s + k \in 0 .. M - 1
        BY <1>1
    <2> QED
        BY <1>1, <2>1, WrapLow
<1>2. CASE ~(s + k < M)
    <2>1. s + k \in M .. 2 * M - 1
        BY <1>2
    <2>2. (s + k) % M = s + k - M
        BY <2>1, WrapHigh
    <2> QED
        BY <1>2, <2>2
<1> QED
    BY <1>1, <1>2

Sample == [seq : Int, ts : Int]

RingShape(b) ==
  /\ DOMAIN b = {"slots", "start", "count", "latest"}
  /\ b.slots \in [0 .. maxSamples - 1 -> Sample]
  /\ b.start \in 0 .. maxSamples - 1 /\ b.count \in 0 .. maxSamples /\ b.latest \in Int

\* The slot at a distance from another one.
Place(s, k) == IF s + k < maxSamples THEN s + k ELSE s + k - maxSamples

LEMMA PlaceIsWrap ==
  ASSUME NEW s \in 0 .. maxSamples - 1, NEW k \in 0 .. maxSamples
  PROVE  (s + k) % maxSamples = Place(s, k) /\ Place(s, k) \in 0 .. maxSamples - 1
<1>1. maxSamples \in Nat \ {0}
    BY HistoryAssumption
<1>2. /\ (s + k) % maxSamples = IF s + k < maxSamples THEN s + k ELSE s + k - maxSamples
      /\ (s + k) % maxSamples \in 0 .. maxSamples - 1
    BY <1>1, Wrap
<1> QED
    BY <1>2 DEF Place

\* Distances add up, and different ones lead to different slots.
LEMMA PlaceAdds ==
  ASSUME NEW s \in 0 .. maxSamples - 1, NEW n \in 0 .. maxSamples, NEW i \in 0 .. maxSamples - n
  PROVE  Place(Place(s, n), i) = Place(s, i + n)
BY HistoryAssumption DEF Place

LEMMA PlaceDiffers ==
  ASSUME NEW s \in 0 .. maxSamples - 1, NEW i \in 0 .. maxSamples - 1,
         NEW k \in 0 .. maxSamples - 1, i # k
  PROVE  Place(s, i) # Place(s, k)
BY HistoryAssumption DEF Place

\* A stored sample is read where it was stored.
LEMMA AtSlot ==
  ASSUME NEW b, RingShape(b), NEW i \in 0 .. maxSamples
  PROVE  At(b, i) = b.slots[Place(b.start, i)] /\ At(b, i) \in Sample
<1>1. b.start \in 0 .. maxSamples - 1 /\ b.slots \in [0 .. maxSamples - 1 -> Sample]
    BY DEF RingShape
<1>2. (b.start + i) % maxSamples = Place(b.start, i) /\ Place(b.start, i) \in 0 .. maxSamples - 1
    BY <1>1, PlaceIsWrap
<1> QED
    BY <1>1, <1>2 DEF At

-----------------------------------------------------------------------------
(* BoundedSignalBuffer.                                                    *)

\* evictOlderThan drops a prefix, the samples before the first young one.
LEMMA Evicts ==
  ASSUME NEW b, RingShape(b), NEW cutoff \in Int
  PROVE  LET e == evictOlderThan(b, cutoff)
         IN  \E old \in 0 .. b.count :
               /\ RingShape(e) /\ e.count = b.count - old /\ e.latest = b.latest
               /\ \A i \in 0 .. b.count - old - 1 : At(e, i) = At(b, i + old)
               /\ \A k \in 0 .. old - 1 : At(b, k).ts < cutoff
               /\ old < b.count => At(b, old).ts >= cutoff
<1> SUFFICES ASSUME NEW e, e = evictOlderThan(b, cutoff)
             PROVE \E old \in 0 .. b.count :
               /\ RingShape(e) /\ e.count = b.count - old /\ e.latest = b.latest
               /\ \A i \in 0 .. b.count - old - 1 : At(e, i) = At(b, i + old)
               /\ \A k \in 0 .. old - 1 : At(b, k).ts < cutoff
               /\ old < b.count => At(b, old).ts >= cutoff
    OBVIOUS
<1> DEFINE Young == {k \in 0 .. b.count : k = b.count \/ At(b, k).ts >= cutoff}
           old == Min(Young)
           gone == {(b.start + k) % maxSamples : k \in 0 .. old - 1}
<1>0. /\ maxSamples \in Nat \ {0} /\ b.start \in 0 .. maxSamples - 1
      /\ b.count \in 0 .. maxSamples /\ b.slots \in [0 .. maxSamples - 1 -> Sample]
      /\ b.latest \in Int
    BY HistoryAssumption DEF RingShape
<1>1. old \in Young /\ \A k \in Young : old <= k
    <2>1. Young \in SUBSET Nat /\ b.count \in Young
        BY <1>0
    <2>2. \E m \in Young : \A k \in Young : m <= k
        BY <2>1, LeastNatural
    <2> QED
        BY <2>2 DEF Min
<1>2. /\ DOMAIN e = {"slots", "start", "count", "latest"}
      /\ e.slots = [i \in DOMAIN b.slots |-> IF i \in gone THEN NoSample ELSE b.slots[i]]
      /\ e.start = (b.start + old) % maxSamples
      /\ e.count = b.count - old /\ e.latest = b.latest
    BY DEF evictOlderThan, RingShape
<1> HIDE DEF old
<1>3. old \in 0 .. b.count
    BY <1>1
<1>4. \A k \in 0 .. old - 1 : At(b, k).ts < cutoff
    <2> SUFFICES ASSUME NEW k \in 0 .. old - 1 PROVE At(b, k).ts < cutoff
        OBVIOUS
    <2>1. k \in 0 .. b.count /\ k # b.count /\ ~(old <= k)
        BY <1>0, <1>3
    <2>2. k \notin Young
        BY <1>1, <2>1
    <2>3. At(b, k).ts \in Int
        <3>1. k \in 0 .. maxSamples
            BY <1>0, <2>1
        <3> QED
            BY <3>1, AtSlot DEF Sample
    <2> QED
        BY <2>1, <2>2, <2>3
<1>5. old < b.count => At(b, old).ts >= cutoff
    BY <1>0, <1>1
<1>6. e.start \in 0 .. maxSamples - 1 /\ e.start = Place(b.start, old)
    <2>1. old \in 0 .. maxSamples
        BY <1>0, <1>3
    <2>2. (b.start + old) % maxSamples = Place(b.start, old)
          /\ Place(b.start, old) \in 0 .. maxSamples - 1
        BY <1>0, <2>1, PlaceIsWrap
    <2> QED
        BY <1>2, <2>2
<1>7. e.slots \in [0 .. maxSamples - 1 -> Sample]
    <2>1. NoSample \in Sample
        BY DEF NoSample, Sample, NoTime
    <2> QED
        BY <1>0, <1>2, <2>1
<1>8. RingShape(e)
    <2>1. e.count \in 0 .. maxSamples /\ e.latest \in Int
        BY <1>0, <1>2, <1>3
    <2> QED
        BY <1>2, <1>6, <1>7, <2>1 DEF RingShape
<1>9. ASSUME NEW i \in 0 .. b.count - old - 1 PROVE At(e, i) = At(b, i + old)
    <2>1. /\ i \in 0 .. maxSamples /\ i + old \in 0 .. maxSamples - 1
          /\ i + old \in 0 .. maxSamples
          /\ old \in 0 .. maxSamples /\ i \in 0 .. maxSamples - old
        BY <1>0, <1>3
    <2>2. Place(e.start, i) = Place(b.start, i + old)
        BY <1>0, <1>6, <2>1, PlaceAdds
    <2>3. At(b, i + old) = b.slots[Place(b.start, i + old)]
        BY <2>1, AtSlot
    <2>4. At(e, i) = e.slots[Place(e.start, i)]
        BY <1>8, <2>1, AtSlot
    <2>5. Place(b.start, i + old) \in 0 .. maxSamples - 1
        BY <1>0, <2>1, PlaceIsWrap
    <2>6. Place(b.start, i + old) \notin gone
        <3> SUFFICES ASSUME NEW k \in 0 .. old - 1
                     PROVE  (b.start + k) % maxSamples # Place(b.start, i + old)
            OBVIOUS
        <3>1. k \in 0 .. maxSamples /\ k \in 0 .. maxSamples - 1 /\ k # i + old
            BY <1>0, <1>3
        <3>2. (b.start + k) % maxSamples = Place(b.start, k)
            BY <1>0, <3>1, PlaceIsWrap
        <3>3. Place(b.start, k) # Place(b.start, i + old)
            BY <1>0, <2>1, <3>1, PlaceDiffers
        <3> QED
            BY <3>2, <3>3
    <2> HIDE DEF gone
    <2> QED
        BY <1>0, <1>2, <2>2, <2>3, <2>4, <2>5, <2>6
<1> QED
    BY <1>2, <1>3, <1>4, <1>5, <1>8, <1>9

\* The ring after a sample is stored and before the old ones are evicted.
Stored(b, s) ==
  LET full == b.count = maxSamples
      at   == IF full THEN b.start ELSE (b.start + b.count) % maxSamples
  IN  [b EXCEPT !.slots[at] = s,
                !.start = IF full THEN (@ + 1) % maxSamples ELSE @,
                !.count = IF full THEN @ ELSE @ + 1,
                !.latest = s.ts]

\* Storing puts the sample last, and drops the first one from a full ring.
LEMMA Stores ==
  ASSUME NEW b, RingShape(b), NEW s \in Sample
  PROVE  LET c == Stored(b, s)
             lost == IF b.count = maxSamples THEN 1 ELSE 0
         IN  /\ RingShape(c) /\ c.count = b.count + 1 - lost /\ c.latest = s.ts
             /\ At(c, b.count - lost) = s
             /\ \A i \in 0 .. b.count - lost - 1 : At(c, i) = At(b, i + lost)
<1> SUFFICES ASSUME NEW c, c = Stored(b, s), NEW lost, lost = IF b.count = maxSamples THEN 1 ELSE 0
             PROVE /\ RingShape(c) /\ c.count = b.count + 1 - lost /\ c.latest = s.ts
                   /\ At(c, b.count - lost) = s
                   /\ \A i \in 0 .. b.count - lost - 1 : At(c, i) = At(b, i + lost)
    OBVIOUS
<1> DEFINE at == IF b.count = maxSamples THEN b.start ELSE (b.start + b.count) % maxSamples
<1>0. /\ maxSamples \in Nat \ {0} /\ b.start \in 0 .. maxSamples - 1
      /\ b.count \in 0 .. maxSamples /\ b.slots \in [0 .. maxSamples - 1 -> Sample]
      /\ b.latest \in Int
    BY HistoryAssumption DEF RingShape
<1>1. /\ DOMAIN c = {"slots", "start", "count", "latest"}
      /\ c.slots = [b.slots EXCEPT ![at] = s]
      /\ c.start = (IF b.count = maxSamples THEN (b.start + 1) % maxSamples ELSE b.start)
      /\ c.count = (IF b.count = maxSamples THEN b.count ELSE b.count + 1)
      /\ c.latest = s.ts
    BY DEF Stored, RingShape
<1>2. at \in 0 .. maxSamples - 1 /\ at = Place(b.start, b.count)
    <2>1. (b.start + b.count) % maxSamples = Place(b.start, b.count)
          /\ Place(b.start, b.count) \in 0 .. maxSamples - 1
        BY <1>0, PlaceIsWrap
    <2>2. Place(b.start, maxSamples) = b.start
        BY <1>0 DEF Place
    <2> QED
        BY <2>1, <2>2
<1> HIDE DEF at
<1>3. c.start \in 0 .. maxSamples - 1 /\ c.start = Place(b.start, lost)
    <2>1. 1 \in 0 .. maxSamples
        BY <1>0
    <2>2. (b.start + 1) % maxSamples = Place(b.start, 1) /\ Place(b.start, 1) \in 0 .. maxSamples - 1
        BY <1>0, <2>1, PlaceIsWrap
    <2>3. Place(b.start, 0) = b.start
        BY <1>0 DEF Place
    <2> QED
        BY <1>0, <1>1, <2>2, <2>3
<1>4. RingShape(c)
    <2>1. c.slots \in [0 .. maxSamples - 1 -> Sample]
        BY <1>0, <1>1, <1>2
    <2>2. c.count \in 0 .. maxSamples /\ c.latest \in Int
        BY SMTT(30), <1>0, <1>1 DEF Sample
    <2> QED
        BY <1>1, <1>3, <2>1, <2>2 DEF RingShape
<1>a. lost \in 0 .. maxSamples /\ b.count - lost \in 0 .. maxSamples - lost
      /\ b.count - lost \in 0 .. maxSamples
    BY <1>0
<1>5. At(c, b.count - lost) = s
    <2>1. Place(c.start, b.count - lost) = Place(b.start, (b.count - lost) + lost)
        BY <1>0, <1>3, <1>a, PlaceAdds
    <2>2. (b.count - lost) + lost = b.count
        BY <1>0
    <2>3. At(c, b.count - lost) = c.slots[at]
        BY <1>2, <1>4, <1>a, <2>1, <2>2, AtSlot
    <2> QED
        BY <1>0, <1>1, <1>2, <2>3
<1>6. ASSUME NEW i \in 0 .. b.count - lost - 1 PROVE At(c, i) = At(b, i + lost)
    <2>1. /\ i \in 0 .. maxSamples /\ i + lost \in 0 .. maxSamples /\ i \in 0 .. maxSamples - lost
          /\ i + lost \in 0 .. maxSamples - 1
        BY <1>0
    <2>2. Place(c.start, i) = Place(b.start, i + lost)
        <3>1. Place(Place(b.start, lost), i) = Place(b.start, i + lost)
            BY <1>0, <1>a, <2>1, PlaceAdds
        <3> QED
            BY <1>3, <3>1
    <2>3. Place(b.start, i + lost) \in 0 .. maxSamples - 1
        BY <1>0, <2>1, PlaceIsWrap
    <2>4. Place(b.start, i + lost) # at
        <3>1. CASE b.count = maxSamples
            <4>1. Place(b.start, maxSamples) = b.start /\ Place(b.start, 0) = b.start
                BY <1>0 DEF Place
            <4>2. 0 \in 0 .. maxSamples - 1 /\ i + lost # 0
                BY <1>0, <3>1
            <4> QED
                BY <1>0, <1>2, <2>1, <3>1, <4>1, <4>2, PlaceDiffers
        <3>2. CASE b.count # maxSamples
            <4>1. b.count \in 0 .. maxSamples - 1 /\ i + lost # b.count
                BY <1>0, <3>2
            <4> QED
                BY <1>0, <1>2, <2>1, <4>1, PlaceDiffers
        <3> QED
            BY <3>1, <3>2
    <2>5. At(c, i) = c.slots[Place(c.start, i)] /\ At(b, i + lost) = b.slots[Place(b.start, i + lost)]
        BY <1>4, <2>1, AtSlot
    <2> QED
        BY <1>0, <1>1, <1>2, <2>2, <2>3, <2>4, <2>5
<1> QED
    BY <1>0, <1>1, <1>4, <1>5, <1>6
-----------------------------------------------------------------------------
(* LiveSignalHistory.                                                      *)

Frame == [seq : Nat, ts : Nat]

\* Of two positions of a longer sequence, those before the last one.
LEMMA BeforeLast ==
  \A n \in Nat : \A i, j \in 1 .. n + 1 :
    /\ i < j => (j # n + 1 => j \in 1 .. n)
    /\ (i <= j /\ i # j /\ j # n + 1) => i \in 1 .. n /\ j \in 1 .. n /\ i < j
  OBVIOUS

\* The ring is the end of the accepted frames, as far as the window reaches.
RingHolds(b, q, last) ==
  /\ RingShape(b) /\ b.count <= Len(q)
  /\ \A i \in 0 .. b.count - 1 : At(b, i) = q[Len(q) - b.count + 1 + i]
  /\ \A k \in 1 .. Len(q) :
       k >= Len(q) - b.count + 1 <=> k > Len(q) - maxSamples /\ q[k].ts >= last - maxAgeMs

HistoryIInv ==
  /\ kept \in Seq(Frame)
  /\ \A i, j \in 1 .. Len(kept) : i < j => kept[i].ts <= kept[j].ts
  /\ {"sid", "lastSeq", "lastTs", "accepted", "dropped"} = DOMAIN history
  /\ history.accepted = Len(kept) /\ history.dropped \in Int
  /\ history.lastTs \in Int /\ history.lastSeq \in Int
  /\ kept = <<>> => history.lastSeq = NoTime /\ history.lastTs = NoTime /\ history.dropped = 0
  /\ kept # <<>> => history.lastSeq = kept[Len(kept)].seq /\ history.lastTs = kept[Len(kept)].ts
  /\ kept # <<>> => Len(kept) + history.dropped = history.lastSeq - kept[1].seq + 1
  /\ ring.latest = history.lastTs
  /\ RingHolds(ring, kept, history.lastTs)

\* A frame accepted last leaves the ring the window of all that were accepted.
LEMMA PushHolds ==
  ASSUME NEW b, NEW q \in Seq(Frame), NEW last \in Int, RingHolds(b, q, last),
         NEW f \in Frame, f.ts >= last, b.latest = NoTime \/ f.ts >= b.latest,
         \A i, j \in 1 .. Len(q) : i < j => q[i].ts <= q[j].ts,
         \A k \in 1 .. Len(q) : q[k].ts <= f.ts
  PROVE  RingHolds(push(b, f), Append(q, f), f.ts) /\ push(b, f).latest = f.ts
<1> DEFINE c == Stored(b, f)
           lost == IF b.count = maxSamples THEN 1 ELSE 0
           cutoff == f.ts - maxAgeMs
           e == evictOlderThan(c, cutoff)
           p == Append(q, f)
<1>0. /\ maxSamples \in Nat \ {0} /\ maxAgeMs \in Nat /\ f.ts \in Nat /\ cutoff \in Int
      /\ f \in Sample /\ RingShape(b) /\ b.count \in 0 .. maxSamples /\ b.latest \in Int
      /\ b.count <= Len(q) /\ Len(q) \in Nat
    BY SMTT(30), HistoryAssumption DEF RingHolds, RingShape, Frame, Sample
<1>1. push(b, f) = e
    <2>1. ~(b.latest # NoTime /\ f.ts < b.latest)
        BY <1>0
    <2> QED
        BY <2>1 DEF push, Stored
<1>2. /\ RingShape(c) /\ c.count = b.count + 1 - lost /\ c.latest = f.ts
      /\ At(c, b.count - lost) = f
      /\ \A i \in 0 .. b.count - lost - 1 : At(c, i) = At(b, i + lost)
    BY <1>0, Stores
<1> HIDE DEF c
<1>3. PICK old \in 0 .. c.count :
        /\ RingShape(e) /\ e.count = c.count - old /\ e.latest = c.latest
        /\ \A i \in 0 .. c.count - old - 1 : At(e, i) = At(c, i + old)
        /\ \A k \in 0 .. old - 1 : At(c, k).ts < cutoff
        /\ old < c.count => At(c, old).ts >= cutoff
    BY <1>0, <1>2, Evicts
<1>4. /\ p \in Seq(Frame) /\ Len(p) = Len(q) + 1 /\ p[Len(p)] = f
      /\ \A k \in 1 .. Len(q) : p[k] = q[k]
      /\ \A k \in 1 .. Len(p) : p[k] \in Frame /\ p[k].ts \in Nat
    <2>1. p \in Seq(Frame) /\ Len(p) = Len(q) + 1
        OBVIOUS
    <2>2. p[Len(p)] = f /\ \A k \in 1 .. Len(q) : p[k] = q[k]
        OBVIOUS
    <2>3. \A k \in 1 .. Len(p) : p[k] \in Frame
        BY <2>1
    <2>4. \A x \in Frame : x.ts \in Nat
        BY DEF Frame
    <2> QED
        BY <2>1, <2>2, <2>3, <2>4
<1> HIDE DEF e, p, cutoff, lost
<1>l. lost \in {0, 1} /\ (lost = 1 <=> b.count = maxSamples)
    BY DEF lost
<1>n. c.count \in Nat /\ c.count \in 0 .. maxSamples /\ e.count \in 0 .. maxSamples
    BY <1>2, <1>3 DEF RingShape
<1>m. /\ c.count = b.count + 1 - lost /\ e.count = c.count - old
      /\ Len(p) = Len(q) + 1 /\ Len(p) \in Nat /\ Len(q) \in Nat
      /\ b.count \in Nat /\ lost \in Int /\ old \in Nat
    BY <1>0, <1>2, <1>3, <1>4, <1>l, <1>n
<1>s. \A i, j \in 1 .. Len(p) : i <= j => p[i].ts <= p[j].ts
    <2> SUFFICES ASSUME NEW i \in 1 .. Len(p), NEW j \in 1 .. Len(p), i <= j
                 PROVE  p[i].ts <= p[j].ts
        OBVIOUS
    <2>1. CASE i = j
        BY <1>4, <2>1
    <2>2. CASE i # j /\ j = Len(p)
        <3>1. i \in 1 .. Len(q) /\ p[i] = q[i]
            BY <1>0, <1>4, <2>2
        <3> QED
            BY <1>4, <2>2, <3>1
    <2>3. CASE i # j /\ j # Len(p)
        <3>0. /\ Len(q) \in Nat /\ i \in 1 .. Len(q) + 1 /\ j \in 1 .. Len(q) + 1
              /\ i <= j /\ i # j /\ j # Len(q) + 1
            BY Zenon, <1>m, <2>3
        <3>1. i \in 1 .. Len(q) /\ j \in 1 .. Len(q) /\ i < j
            BY Zenon, <3>0, BeforeLast
        <3>2. p[i] = q[i] /\ p[j] = q[j]
            BY <1>4, <3>1
        <3> QED
            BY <3>1, <3>2
    <2> QED
        BY <2>1, <2>2, <2>3
<1>5. \A i \in 0 .. c.count - 1 : At(c, i) = p[Len(p) - c.count + 1 + i]
    <2> SUFFICES ASSUME NEW i \in 0 .. c.count - 1
                 PROVE  At(c, i) = p[Len(p) - c.count + 1 + i]
        OBVIOUS
    <2>1. CASE i = b.count - lost
        <3>1. Len(p) - c.count + 1 + i = Len(p)
            BY <1>0, <1>2, <1>4, <1>l, <2>1
        <3> QED
            BY <1>2, <1>4, <2>1, <3>1
    <2>2. CASE i # b.count - lost
        <3>1. /\ i \in 0 .. b.count - lost - 1 /\ i + lost \in 0 .. b.count - 1
              /\ Len(p) - c.count + 1 + i = Len(q) - b.count + 1 + (i + lost)
              /\ Len(p) - c.count + 1 + i \in 1 .. Len(q)
            <4>1. c.count = b.count + 1 - lost /\ i \in 0 .. (b.count + 1 - lost) - 1
                BY <1>m
            <4>2. b.count \in Nat /\ lost \in {0, 1} /\ Len(q) \in Nat /\ b.count <= Len(q)
                BY <1>0, <1>m, <1>l
            <4>3. i \in 0 .. b.count - lost - 1 /\ i + lost \in 0 .. b.count - 1
                BY <2>2, <4>1, <4>2
            <4>4. Len(q) - b.count + 1 + (i + lost) \in 1 .. Len(q)
                BY SMTT(30), <4>2, <4>3
            <4>5. Len(p) - c.count + 1 + i = Len(q) - b.count + 1 + (i + lost)
                <5>1. Len(p) - c.count + 1 + i = (Len(q) + 1) - (b.count + 1 - lost) + 1 + i
                    BY <1>m
                <5> QED
                    <6>1. \A L, B, l, k \in Int : (L + 1) - (B + 1 - l) + 1 + k = L - B + 1 + (k + l)
                        OBVIOUS
                    <6>2. Len(q) \in Int /\ b.count \in Int /\ lost \in Int /\ i \in Int
                        BY <4>2, <4>3
                    <6>3. (Len(q) + 1) - (b.count + 1 - lost) + 1 + i = Len(q) - b.count + 1 + (i + lost)
                        BY SMTT(30), <6>1, <6>2
                    <6> QED
                        BY <5>1, <6>3
            <4> QED
                BY <4>3, <4>4, <4>5
        <3>2. At(b, i + lost) = q[Len(q) - b.count + 1 + (i + lost)]
            BY <3>1 DEF RingHolds
        <3> QED
            BY <1>2, <1>4, <3>1, <3>2
    <2> QED
        BY <2>1, <2>2
<1>6. /\ e.count \in 0 .. maxSamples /\ e.count <= Len(p) /\ c.count \in 0 .. maxSamples
      /\ c.count <= Len(p)
    BY SMTT(30), <1>0, <1>2, <1>3, <1>4, <1>l, <1>n
<1>7. \A i \in 0 .. e.count - 1 : At(e, i) = p[Len(p) - e.count + 1 + i]
    <2> SUFFICES ASSUME NEW i \in 0 .. e.count - 1
                 PROVE  At(e, i) = p[Len(p) - e.count + 1 + i]
        OBVIOUS
    <2>1. /\ i \in 0 .. c.count - old - 1 /\ i + old \in 0 .. c.count - 1
          /\ Len(p) - c.count + 1 + (i + old) = Len(p) - e.count + 1 + i
        <3>1. e.count = c.count - old /\ i \in 0 .. (c.count - old) - 1
            BY <1>m
        <3>2. c.count \in Nat /\ old \in Nat /\ Len(p) \in Nat
            BY <1>m, <1>n
        <3>3. i \in 0 .. c.count - old - 1 /\ i + old \in 0 .. c.count - 1
            BY <3>1, <3>2
        <3>4. Len(p) - c.count + 1 + (i + old) = Len(p) - (c.count - old) + 1 + i
            BY <3>2, <3>3
        <3> QED
            BY <3>1, <3>3, <3>4
    <2> QED
        BY <1>3, <1>5, <2>1
<1>8. ASSUME NEW k \in 1 .. Len(p)
      PROVE  k >= Len(p) - e.count + 1 <=> k > Len(p) - maxSamples /\ p[k].ts >= f.ts - maxAgeMs
    <2>1. ASSUME k >= Len(p) - e.count + 1
          PROVE  k > Len(p) - maxSamples /\ p[k].ts >= f.ts - maxAgeMs
        <3> DEFINE first == Len(p) - e.count + 1
        <3>1. old < c.count /\ first \in 1 .. Len(p) /\ first <= k
              /\ first = Len(p) - c.count + 1 + old /\ old \in 0 .. c.count - 1
            BY SMTT(30), <1>3, <1>4, <1>6, <2>1
        <3>2. p[first].ts >= cutoff
            BY <1>3, <1>5, <3>1
        <3> HIDE DEF first
        <3>3. p[first].ts <= p[k].ts
            BY <1>s, <3>1
        <3>4. k > Len(p) - maxSamples
            BY <1>0, <1>4, <1>6, <2>1
        <3>5. p[k].ts >= cutoff
            BY <1>0, <1>4, <3>1, <3>2, <3>3
        <3> QED
            BY <3>4, <3>5 DEF cutoff
    <2>2. ASSUME k < Len(p) - e.count + 1
          PROVE  ~(k > Len(p) - maxSamples /\ p[k].ts >= f.ts - maxAgeMs)
        <3>1. CASE k >= Len(p) - c.count + 1
            <4> DEFINE i == k - (Len(p) - c.count + 1)
            <4>1. i \in 0 .. old - 1 /\ i \in 0 .. c.count - 1
                  /\ Len(p) - c.count + 1 + i = k
                BY SMTT(30), <1>3, <1>4, <1>6, <2>2, <3>1
            <4>2. p[k].ts < cutoff
                BY <1>3, <1>5, <4>1
            <4> QED
                BY <1>0, <1>4, <4>2 DEF cutoff
        <3>2. CASE k < Len(p) - c.count + 1
            <4>1. k \in 1 .. Len(q) /\ p[k] = q[k]
                BY SMTT(30), <1>0, <1>2, <1>4, <1>6, <1>l, <3>2
            <4>2. CASE lost = 1
                BY SMTT(30), <1>0, <1>2, <1>4, <1>l, <3>2, <4>2
            <4>3. CASE lost = 0
                <5>1. k < Len(q) - b.count + 1
                    BY <1>0, <1>2, <1>4, <3>2, <4>3
                <5>2. ~(k > Len(q) - maxSamples /\ q[k].ts >= last - maxAgeMs)
                    BY <1>0, <4>1, <5>1 DEF RingHolds
                <5> QED
                    BY <1>0, <1>4, <4>1, <5>2
            <4> QED
                BY <1>l, <4>2, <4>3
        <3> QED
            BY <1>4, <1>6, <3>1, <3>2
    <2> QED
        BY <1>4, <1>6, <2>1, <2>2
<1>9. RingHolds(e, p, f.ts) /\ e.latest = f.ts
    BY <1>2, <1>3, <1>6, <1>7, <1>8 DEF RingHolds
<1> QED
    BY <1>1, <1>9 DEF p

\* One frame of the session, accepted or refused.
LEMMA IngestKeeps ==
  ASSUME HistoryIInv, NEW f \in FrameSet, ingest(f)
  PROVE  HistoryIInv'
<1>0. f.seq \in Nat /\ f.ts \in Nat
    <2>1. CASE f \in [seq : 0 .. MaxSequence, ts : 0 .. MaxTimestamp, measured : {TRUE}]
        BY <2>1
    <2>2. CASE f \in {[seq |-> 0, ts |-> 0, measured |-> FALSE]}
        BY <2>2
    <2> QED
        BY <2>1, <2>2 DEF FrameSet
<1>1. CASE IngestStatus(f) # "accepted"
    <2>1. UNCHANGED <<ring, history, kept>>
        BY <1>1 DEF ingest
    <2> QED
        BY <2>1 DEF HistoryIInv, RingHolds, RingShape, At
<1>2. CASE IngestStatus(f) = "accepted"
    <2> DEFINE sample == [seq |-> f.seq, ts |-> f.ts]
    <2>1. /\ ring' = push(ring, sample)
          /\ history' = [history EXCEPT !.lastSeq = f.seq, !.lastTs = f.ts,
                                        !.accepted = @ + 1, !.dropped = @ + detectedGap(f)]
          /\ kept' = Append(kept, sample)
        BY <1>2 DEF ingest
    <2>2. sample \in Frame /\ sample.seq = f.seq /\ sample.ts = f.ts
        BY <1>0 DEF Frame
    <2> HIDE DEF sample
    <2>3. history.lastSeq = NoTime \/ (f.seq > history.lastSeq /\ f.ts >= history.lastTs)
        <3>1. /\ ~(history.lastSeq # NoTime /\ f.seq = history.lastSeq)
              /\ ~(history.lastSeq # NoTime /\ (f.seq < history.lastSeq \/ f.ts < history.lastTs))
            BY <1>2 DEF IngestStatus
        <3>2. history.lastSeq \in Int /\ history.lastTs \in Int
            BY DEF HistoryIInv
        <3>3. SUFFICES ASSUME history.lastSeq # NoTime
                       PROVE  f.seq > history.lastSeq /\ f.ts >= history.lastTs
            OBVIOUS
        <3>4. f.seq # history.lastSeq /\ ~(f.seq < history.lastSeq) /\ ~(f.ts < history.lastTs)
            BY <3>1, <3>3
        <3> QED
            BY <1>0, <3>2, <3>4
    <2>4. /\ kept \in Seq(Frame) /\ Len(kept) \in Nat
          /\ \A k \in 1 .. Len(kept) : kept[k] \in Frame
          /\ \A x \in Frame : x.seq \in Nat /\ x.ts \in Nat
        <3>1. kept \in Seq(Frame)
            BY DEF HistoryIInv
        <3>2. \A x \in Frame : x.seq \in Nat /\ x.ts \in Nat
            BY DEF Frame
        <3>3. Len(kept) \in Nat /\ \A k \in 1 .. Len(kept) : kept[k] \in Frame
            BY <3>1
        <3> QED
            BY <3>1, <3>2, <3>3
    <2>5. kept # <<>> => Len(kept) \in 1 .. Len(kept) /\ 1 \in 1 .. Len(kept)
        BY <2>4
    <2>6. kept # <<>> => history.lastSeq # NoTime /\ history.lastSeq = kept[Len(kept)].seq
                         /\ history.lastTs = kept[Len(kept)].ts
        BY <2>4, <2>5 DEF HistoryIInv, NoTime
    <2>7. kept # <<>> => f.seq > history.lastSeq /\ f.ts >= history.lastTs
        BY <2>3, <2>6
    <2>8. \A k \in 1 .. Len(kept) : kept[k].ts <= f.ts
        <3> SUFFICES ASSUME NEW k \in 1 .. Len(kept) PROVE kept[k].ts <= f.ts
            OBVIOUS
        <3>1. kept # <<>> /\ kept[k].ts <= kept[Len(kept)].ts
            BY <2>4, <2>5 DEF HistoryIInv
        <3> QED
            BY <1>0, <2>4, <2>5, <2>6, <2>7, <3>1
    <2>9. kept = <<>> => history.lastTs = NoTime /\ ring.latest = NoTime
        BY DEF HistoryIInv
    <2>10. RingHolds(ring, kept, history.lastTs) /\ history.lastTs \in Int
           /\ ring.latest = history.lastTs
           /\ \A i, j \in 1 .. Len(kept) : i < j => kept[i].ts <= kept[j].ts
        BY DEF HistoryIInv
    <2>11. f.ts >= history.lastTs
        BY <1>0, <2>7, <2>9 DEF NoTime
    <2>12. RingHolds(push(ring, sample), Append(kept, sample), f.ts) /\ push(ring, sample).latest = f.ts
        BY <2>2, <2>4, <2>8, <2>10, <2>11, PushHolds
    <2>13. /\ DOMAIN history' = {"sid", "lastSeq", "lastTs", "accepted", "dropped"}
           /\ history'.lastSeq = f.seq /\ history'.lastTs = f.ts
           /\ history'.accepted = history.accepted + 1
           /\ history'.dropped = history.dropped + detectedGap(f)
        BY <2>1 DEF HistoryIInv
    <2>14. /\ kept' \in Seq(Frame) /\ Len(kept') = Len(kept) + 1 /\ kept' # <<>>
           /\ kept'[Len(kept')] = sample /\ \A k \in 1 .. Len(kept) : kept'[k] = kept[k]
        BY <2>1, <2>2, <2>4
    <2>15. \A i, j \in 1 .. Len(kept') : i < j => kept'[i].ts <= kept'[j].ts
        <3> SUFFICES ASSUME NEW i \in 1 .. Len(kept'), NEW j \in 1 .. Len(kept'), i < j
                     PROVE  kept'[i].ts <= kept'[j].ts
            OBVIOUS
        <3>1. i \in 1 .. Len(kept) /\ kept'[i] = kept[i]
            BY <2>4, <2>14
        <3>2. CASE j = Len(kept')
            BY <2>2, <2>8, <2>14, <3>1, <3>2
        <3>3. CASE j # Len(kept')
            <4>0. /\ Len(kept) \in Nat /\ i \in 1 .. Len(kept) + 1 /\ j \in 1 .. Len(kept) + 1
                  /\ i < j /\ j # Len(kept) + 1
                BY Zenon, <2>4, <2>14, <3>3
            <4>1. j \in 1 .. Len(kept)
                BY Zenon, <4>0, BeforeLast
            <4>2. kept'[j] = kept[j]
                BY <2>14, <4>1
            <4> QED
                BY <2>10, <3>1, <4>1, <4>2
        <3> QED
            BY <3>2, <3>3
    <2>16. history'.dropped \in Int /\ Len(kept') + history'.dropped = f.seq - kept'[1].seq + 1
        <3>1. history.dropped \in Int
            BY DEF HistoryIInv
        <3>2. CASE kept = <<>>
            <4>1. detectedGap(f) = 0
                BY <3>2 DEF detectedGap, HistoryIInv
            <4>2. Len(kept) = 0 /\ kept'[1] = sample /\ history.dropped = 0
                BY <2>14, <3>2 DEF HistoryIInv
            <4> QED
                BY <1>0, <2>2, <2>13, <2>14, <3>1, <4>1, <4>2
        <3>3. CASE kept # <<>>
            <4>1. detectedGap(f) = f.seq - history.lastSeq - 1 /\ history.lastSeq \in Nat
                BY <2>4, <2>5, <2>6, <3>3 DEF detectedGap
            <4>2. kept'[1] = kept[1] /\ kept[1].seq \in Nat
                BY <2>4, <2>5, <2>14, <3>3
            <4>3. Len(kept) + history.dropped = history.lastSeq - kept[1].seq + 1
                BY <3>3 DEF HistoryIInv
            <4>4. Len(kept') = Len(kept) + 1 /\ Len(kept) \in Nat
                BY <2>4, <2>14
            <4>5. history'.dropped = history.dropped + (f.seq - history.lastSeq - 1)
                BY <2>13, <4>1
            <4>6. \A n, d, s, l, o \in Int :
                    n + d = l - o + 1 => (n + 1) + (d + (s - l - 1)) = s - o + 1
                OBVIOUS
            <4>7. (Len(kept) + 1) + (history.dropped + (f.seq - history.lastSeq - 1))
                    = f.seq - kept[1].seq + 1
                BY SMTT(30), <1>0, <3>1, <4>1, <4>2, <4>3, <4>4, <4>6
            <4>8. history'.dropped \in Int
                BY <1>0, <3>1, <4>1, <4>5
            <4> QED
                BY <4>2, <4>4, <4>5, <4>7, <4>8
        <3> QED
            BY <3>2, <3>3
    <2>17. history'.accepted = Len(kept')
        BY <2>13, <2>14 DEF HistoryIInv
    <2>18. RingHolds(ring, kept, history.lastTs)'
        BY <2>1, <2>12, <2>13 DEF RingHolds, RingShape, At
    <2>19. history'.lastTs \in Int /\ history'.lastSeq \in Int /\ ring'.latest = history'.lastTs
        BY <1>0, <2>1, <2>12, <2>13
    <2>20. history'.lastSeq = kept'[Len(kept')].seq /\ history'.lastTs = kept'[Len(kept')].ts
        BY <2>2, <2>13, <2>14
    <2>21. Len(kept') + history'.dropped = history'.lastSeq - kept'[1].seq + 1
        BY <2>13, <2>16
    <2> QED
        BY <2>13, <2>14, <2>15, <2>16, <2>17, <2>18, <2>19, <2>20, <2>21 DEF HistoryIInv
<1> QED
    BY <1>1, <1>2

LEMMA EmptyHolds ==
  ASSUME NEW last \in Int
  PROVE  RingHolds(emptyBuffer, <<>>, last) /\ emptyBuffer.latest = NoTime
<1>1. NoSample \in Sample /\ NoTime \in Int
    BY DEF NoSample, Sample, NoTime
<1>2. RingShape(emptyBuffer)
    BY <1>1, HistoryAssumption DEF RingShape, emptyBuffer
<1>3. emptyBuffer.count = 0 /\ emptyBuffer.latest = NoTime
    BY DEF emptyBuffer
<1> QED
    BY <1>2, <1>3 DEF RingHolds

LEMMA ClearKeeps ==
  ASSUME NEW sid, clearSamples(sid) PROVE HistoryIInv'
<1>1. /\ ring' = emptyBuffer /\ kept' = <<>>
      /\ history' = [sid |-> sid, lastSeq |-> NoTime, lastTs |-> NoTime,
                     accepted |-> 0, dropped |-> 0]
    BY DEF clearSamples
<1>2. NoTime \in Int
    BY DEF NoTime
<1>3. RingHolds(emptyBuffer, <<>>, NoTime) /\ emptyBuffer.latest = NoTime
    BY <1>2, EmptyHolds
<1>4. RingHolds(ring, kept, history.lastTs)'
    BY <1>1, <1>3 DEF RingHolds, RingShape, At
<1> QED
    BY <1>1, <1>2, <1>3, <1>4 DEF HistoryIInv

LEMMA HistoryStep == HistoryIInv /\ [HistoryNext]_historyVars => HistoryIInv'
<1> SUFFICES ASSUME HistoryIInv, [HistoryNext]_historyVars PROVE HistoryIInv'
    OBVIOUS
<1>0. UNCHANGED <<ring, history, kept>> => HistoryIInv'
    BY DEF HistoryIInv, RingHolds, RingShape, At
<1>1. ASSUME NEW f \in FrameSet, ingestJointState(f) PROVE HistoryIInv'
    BY <1>1, IngestKeeps DEF ingestJointState
<1>2. ASSUME NEW sid, syncSession(sid) PROVE HistoryIInv'
    BY <1>2, ClearKeeps DEF syncSession
<1>3. ASSUME NEW w, SetWindow(w) PROVE HistoryIInv'
    BY <1>0, <1>3 DEF SetWindow
<1>4. CASE RefreshTimer
    BY <1>0, <1>4 DEF RefreshTimer
<1>5. CASE handleVisibilityChange
    BY <1>0, <1>5 DEF handleVisibilityChange
<1>6. CASE UNCHANGED historyVars
    BY <1>0, <1>6 DEF historyVars
<1> QED
    BY <1>1, <1>2, <1>3, <1>4, <1>5, <1>6 DEF HistoryNext

\* For every capacity, age and order of frames, however often the ring wraps, the
\* samples it reads are those accepted in this session that are among the newest
\* maxSamples and young enough (BoundedSignalBuffer, LiveSignalHistory).
THEOREM RingAlwaysWindow == HistorySpec => []RingIsWindow
<1>1. HistoryInit => HistoryIInv
    <2> SUFFICES ASSUME HistoryInit PROVE HistoryIInv
        OBVIOUS
    <2>1. NoTime \in Int
        BY DEF NoTime
    <2>2. RingHolds(emptyBuffer, <<>>, NoTime) /\ emptyBuffer.latest = NoTime
        BY <2>1, EmptyHolds
    <2> QED
        BY <2>1, <2>2 DEF HistoryInit, HistoryIInv
<1>2. HistoryIInv => RingIsWindow
    <2> SUFFICES ASSUME HistoryIInv PROVE RingIsWindow
        OBVIOUS
    <2> DEFINE first == Len(kept) - ring.count + 1
    <2>1. /\ RingShape(ring) /\ ring.count \in Nat /\ ring.count <= Len(kept)
          /\ kept \in Seq(Frame) /\ Len(kept) \in Nat
          /\ \A i \in 0 .. ring.count - 1 : At(ring, i) = kept[Len(kept) - ring.count + 1 + i]
        BY HistoryAssumption DEF HistoryIInv, RingHolds, RingShape
    <2>2. readSamples(ring) = SubSeq(kept, first, Len(kept))
        <3>1. SubSeq(kept, first, Len(kept))
                = [k \in 1 .. (Len(kept) - first + 1) |-> kept[first + k - 1]]
            BY <2>1
        <3>2. Len(kept) - first + 1 = ring.count
            BY <2>1
        <3>3. \A k \in 1 .. ring.count : At(ring, k - 1) = kept[first + k - 1]
            <4> SUFFICES ASSUME NEW k \in 1 .. ring.count
                         PROVE  At(ring, k - 1) = kept[first + k - 1]
                OBVIOUS
            <4>1. k - 1 \in 0 .. ring.count - 1
                  /\ Len(kept) - ring.count + 1 + (k - 1) = first + k - 1
                BY <2>1
            <4> QED
                BY <2>1, <4>1
        <3> HIDE DEF first
        <3> QED
            BY <3>1, <3>2, <3>3 DEF readSamples
    <2>3. \A k \in DOMAIN kept : k >= first <=> InWindow(k)
        <3>1. DOMAIN kept = 1 .. Len(kept)
            BY <2>1
        <3>2. RingHolds(ring, kept, history.lastTs)
            BY DEF HistoryIInv
        <3> QED
            BY <3>1, <3>2 DEF RingHolds, InWindow
    <2>4. /\ history.accepted = Len(kept)
          /\ kept # <<>> => history.accepted + history.dropped = history.lastSeq - kept[1].seq + 1
        BY DEF HistoryIInv
    <2> QED
        BY <2>2, <2>3, <2>4 DEF RingIsWindow
<1> QED
    BY <1>1, <1>2, HistoryStep, PTL DEF HistorySpec

-----------------------------------------------------------------------------
(* The frames of the twin.                                                 *)

Shown == [era : Nat, boot : Boots, seq : Nat]

\* What the coordinator remembers of a group: the boot accepted last and the
\* MaxRetired before it.
Remembers(in, past) ==
  LET n == Len(past)
  IN  /\ DOMAIN in = {"source", "boot", "seq", "stamp", "retired"}
      /\ in.boot = past[n] /\ in.seq \in Nat
      /\ in.retired \in Seq(Boots)
      /\ Len(in.retired) = (IF n - 1 < MaxRetired THEN n - 1 ELSE MaxRetired)
      /\ \A i \in 1 .. Len(in.retired) : in.retired[i] = past[n - 1 - Len(in.retired) + i]

NeverBack(past) ==
  \A a, b \in 1 .. Len(past) : a < b /\ past[a] = past[b] => b - a > MaxRetired + 1

\* What was shown of a group, against its eras.
InOrder(past, seen) ==
  /\ \A i \in 1 .. Len(seen) :
       seen[i].era \in 1 .. Len(past) /\ seen[i].boot = past[seen[i].era]
  /\ \A i, j \in 1 .. Len(seen) : i < j =>
       seen[i].era <= seen[j].era /\ (seen[i].era = seen[j].era => seen[i].seq < seen[j].seq)

\* What was shown in the newest era is older than what waits, and no newer than
\* what was accepted.
Behind(in, wait, past, seen) ==
  /\ wait # NoFrame =>
       /\ past # <<>> /\ wait.boot = in.boot /\ wait.seq = in.seq /\ wait.boot \in Boots
       /\ \A i \in 1 .. Len(seen) : seen[i].era = Len(past) => seen[i].seq < in.seq
  /\ \A i \in 1 .. Len(seen) : seen[i].era = Len(past) => seen[i].seq <= in.seq

GroupOK(in, wait, past, seen) ==
  /\ past \in Seq(Boots) /\ seen \in Seq(Shown)
  /\ past = <<>> => in = NoIngress /\ wait = NoFrame /\ seen = <<>>
  /\ past # <<>> => in # NoIngress /\ Remembers(in, past)
  /\ NeverBack(past) /\ InOrder(past, seen) /\ Behind(in, wait, past, seen)

TwinIInv ==
  /\ DOMAIN metrics = {"received", "rejected", "coalesced", "applied"}
  /\ metrics.received \in Nat /\ metrics.rejected \in Nat
  /\ metrics.coalesced \in Nat /\ metrics.applied \in Nat
  /\ metrics.received = metrics.rejected + metrics.coalesced + metrics.applied
                          + Cardinality(FramesPending)
  /\ scheduled \in BOOLEAN /\ (scheduled <=> FramesPending # {})
  /\ DOMAIN ingress = Groups /\ DOMAIN pending = Groups
  /\ DOMAIN eras = Groups /\ DOMAIN shown = Groups
  /\ \A g \in Groups : GroupOK(ingress[g], pending[g], eras[g], shown[g])

\* A frame of a new boot opens an era; the boots left before it stay left.
LEMMA NewEra ==
  ASSUME NEW in, NEW past \in Seq(Boots), past # <<>>, Remembers(in, past), NeverBack(past),
         NEW boot \in Boots, boot # in.boot, boot \notin ToSet(in.retired)
  PROVE  NeverBack(Append(past, boot))
<1> DEFINE n == Len(past)
           p == Append(past, boot)
<1>1. /\ n \in Nat /\ n >= 1 /\ Len(p) = n + 1 /\ p[n + 1] = boot
      /\ \A k \in 1 .. n : p[k] = past[k]
    OBVIOUS
<1>2. /\ in.boot = past[n] /\ in.retired \in Seq(Boots)
      /\ Len(in.retired) = (IF n - 1 < MaxRetired THEN n - 1 ELSE MaxRetired)
      /\ \A i \in 1 .. Len(in.retired) : in.retired[i] = past[n - 1 - Len(in.retired) + i]
    BY DEF Remembers
<1>3. \A i \in 1 .. Len(in.retired) : in.retired[i] # boot
    BY <1>2 DEF ToSet
<1> HIDE DEF n, p
<1>4. ASSUME NEW a \in 1 .. n, past[a] = boot PROVE n + 1 - a > MaxRetired + 1
    <2>1. a # n
        BY <1>2, <1>4
    <2>2. SUFFICES ASSUME n - a <= MaxRetired PROVE FALSE
        BY <1>1, TwinAssumption
    <2> DEFINE i == a - (n - 1 - Len(in.retired))
    <2>3. Len(in.retired) \in Nat
        BY <1>2
    <2>4. i \in 1 .. Len(in.retired) /\ n - 1 - Len(in.retired) + i = a
        BY <1>1, <1>2, <2>1, <2>2, <2>3, TwinAssumption
    <2> QED
        BY <1>2, <1>3, <1>4, <2>4
<1>5. ASSUME NEW a \in 1 .. Len(p), NEW b \in 1 .. Len(p), a < b, p[a] = p[b]
      PROVE  b - a > MaxRetired + 1
    <2>1. a \in 1 .. n /\ p[a] = past[a]
        BY <1>1, <1>5
    <2>2. CASE b = n + 1
        <3>1. past[a] = boot
            BY <1>1, <1>5, <2>1, <2>2
        <3> QED
            <4>1. n + 1 - a > MaxRetired + 1
                BY <1>4, <2>1, <3>1
            <4>2. a \in Int /\ n \in Int /\ MaxRetired \in Int
                BY <1>1, <2>1, TwinAssumption
            <4> QED
                BY <2>2, <4>1, <4>2
    <2>3. CASE b # n + 1
        <3>1. b \in 1 .. n /\ p[b] = past[b]
            BY <1>1, <2>3
        <3> QED
            BY <1>5, <2>1, <3>1 DEF NeverBack, n
    <2> QED
        BY <2>2, <2>3
<1> QED
    BY <1>5 DEF NeverBack, p

\* And the coordinator remembers them.
LEMMA RetireRemembers ==
  ASSUME NEW in, NEW past \in Seq(Boots), past # <<>>, Remembers(in, past),
         NEW boot \in Boots, NEW seq \in Nat, NEW next,
         DOMAIN next = {"source", "boot", "seq", "stamp", "retired"},
         next.boot = boot, next.seq = seq, next.retired = Retire(in.retired, in.boot)
  PROVE  Remembers(next, Append(past, boot))
<1> DEFINE n == Len(past)
           p == Append(past, boot)
           old == in.retired
           all == Append(old, in.boot)
<1>1. /\ n \in Nat /\ n >= 1 /\ Len(p) = n + 1 /\ p[n + 1] = boot
      /\ \A k \in 1 .. n : p[k] = past[k]
    OBVIOUS
<1>2. /\ in.boot = past[n] /\ old \in Seq(Boots) /\ Len(old) \in Nat
      /\ Len(old) = (IF n - 1 < MaxRetired THEN n - 1 ELSE MaxRetired)
      /\ \A i \in 1 .. Len(old) : old[i] = past[n - 1 - Len(old) + i]
    BY DEF Remembers
<1>3. in.boot \in Boots /\ past[n] = p[n]
    BY <1>1, <1>2
<1>4. /\ all \in Seq(Boots) /\ Len(all) = Len(old) + 1 /\ all[Len(old) + 1] = in.boot
      /\ \A i \in 1 .. Len(old) : all[i] = old[i]
    <2>1. \A s \in Seq(Boots), x \in Boots :
            /\ Append(s, x) \in Seq(Boots) /\ Len(Append(s, x)) = Len(s) + 1
            /\ Append(s, x)[Len(s) + 1] = x
            /\ \A i \in 1 .. Len(s) : Append(s, x)[i] = s[i]
        OBVIOUS
    <2> HIDE DEF old
    <2> QED
        BY <1>2, <1>3, <2>1
<1>5. next.retired = IF Len(all) > MaxRetired THEN Tail(all) ELSE all
    BY DEF Retire
<1> HIDE DEF n, p, old, all
<1>6. \A i \in 1 .. Len(all) : all[i] = p[n - Len(all) + i]
    <2> SUFFICES ASSUME NEW i \in 1 .. Len(all) PROVE all[i] = p[n - Len(all) + i]
        OBVIOUS
    <2>1. CASE i = Len(all)
        <3>1. n - Len(all) + i = n
            BY <1>1, <1>2, <1>4, <2>1
        <3> QED
            BY <1>2, <1>3, <1>4, <2>1, <3>1
    <2>2. CASE i # Len(all)
        <3>1. i \in 1 .. Len(old)
            BY <1>2, <1>4, <2>2
        <3>2. n - 1 - Len(old) + i = n - Len(all) + i /\ n - Len(all) + i \in 1 .. n
            BY <1>1, <1>2, <1>4, <3>1, TwinAssumption
        <3> QED
            BY <1>1, <1>2, <1>4, <3>1, <3>2
    <2> QED
        BY <2>1, <2>2
<1>7. /\ next.retired \in Seq(Boots)
      /\ Len(next.retired) = (IF n < MaxRetired THEN n ELSE MaxRetired)
      /\ \A i \in 1 .. Len(next.retired) : next.retired[i] = p[n - Len(next.retired) + i]
    <2>1. CASE Len(all) > MaxRetired
        <3>1. /\ all # <<>> /\ Tail(all) \in Seq(Boots) /\ Len(Tail(all)) = Len(all) - 1
              /\ \A i \in 1 .. Len(Tail(all)) : Tail(all)[i] = all[i + 1]
            BY <1>2, <1>4
        <3>2. Len(Tail(all)) = MaxRetired /\ ~(n < MaxRetired)
            BY <1>1, <1>2, <1>4, <2>1, <3>1, TwinAssumption
        <3>3. ASSUME NEW i \in 1 .. Len(Tail(all))
              PROVE  Tail(all)[i] = p[n - Len(Tail(all)) + i]
            <4>1. i + 1 \in 1 .. Len(all) /\ n - Len(all) + (i + 1) = n - Len(Tail(all)) + i
                BY SMTT(30), <1>1, <1>2, <1>4, <3>1
            <4> QED
                BY <1>6, <3>1, <4>1
        <3> QED
            BY <1>5, <2>1, <3>1, <3>2, <3>3
    <2>2. CASE ~(Len(all) > MaxRetired)
        <3>1. Len(all) = n /\ (n < MaxRetired \/ n = MaxRetired)
            BY <1>1, <1>2, <1>4, <2>2, TwinAssumption
        <3> QED
            BY <1>1, <1>4, <1>5, <1>6, <2>2, <3>1
    <2> QED
        BY <2>1, <2>2
<1>8. Len(p) - 1 = n
    BY <1>1
<1> QED
    BY <1>1, <1>7, <1>8 DEF Remembers, p

LEMMA SeenSeq ==
  ASSUME NEW seen \in Seq(Shown), NEW i \in 1 .. Len(seen) PROVE seen[i].seq \in Nat
<1>1. seen[i] \in Shown
    OBVIOUS
<1> QED
    BY <1>1 DEF Shown

\* A frame that is accepted, of the same boot or of a new one.
LEMMA GroupAccepts ==
  ASSUME NEW in, NEW wait, NEW past, NEW seen, GroupOK(in, wait, past, seen),
         NEW f \in TwinFrameSet, Follows(in, f)
  PROVE  GroupOK(acceptSequence(in, f), f, ErasWith(past, f.boot), seen)
<1> DEFINE n == Len(past)
           next == acceptSequence(in, f)
           p == ErasWith(past, f.boot)
<1>1. f.boot \in Boots /\ f.seq \in Nat /\ f # NoFrame
    <2>1. f.boot \in Boots /\ f.seq \in 0 .. MaxFrameSeq
        BY DEF TwinFrameSet
    <2>2. NoFrame.boot = "none"
        BY DEF NoFrame
    <2> QED
        BY <2>1, <2>2, TwinAssumption
<1>2. /\ past \in Seq(Boots) /\ seen \in Seq(Shown) /\ n \in Nat
      /\ NeverBack(past) /\ InOrder(past, seen) /\ Behind(in, wait, past, seen)
    BY DEF GroupOK
<1>s. \A i \in 1 .. Len(seen) : seen[i].era \in 1 .. n /\ seen[i].seq \in Nat
    BY <1>2, SeenSeq DEF InOrder
<1>3. CASE past = <<>>
    <2>1. in = NoIngress /\ seen = <<>>
        BY <1>3 DEF GroupOK
    <2>2. next = [source |-> f.source, boot |-> f.boot, seq |-> f.seq, stamp |-> f.stamp,
                  retired |-> <<>>]
        BY <2>1 DEF acceptSequence
    <2>3. p = <<f.boot>> /\ Len(p) = 1 /\ p[1] = f.boot /\ p \in Seq(Boots) /\ p # <<>>
        BY <1>1, <1>3 DEF ErasWith
    <2>4. next # NoIngress
        <3>1. next.boot = f.boot /\ NoIngress.boot = "none"
            BY <2>2 DEF NoIngress
        <3> QED
            BY <1>1, <3>1, TwinAssumption
    <2> HIDE DEF p
    <2>5. Remembers(next, p)
        <3>1. /\ DOMAIN next = {"source", "boot", "seq", "stamp", "retired"}
              /\ next.boot = f.boot /\ next.seq = f.seq /\ next.retired = <<>>
            BY <2>2
        <3> HIDE DEF next
        <3>2. 0 = IF Len(p) - 1 < MaxRetired THEN Len(p) - 1 ELSE MaxRetired
            BY <2>3, TwinAssumption
        <3> QED
            BY <1>1, <2>3, <3>1, <3>2 DEF Remembers
    <2>6. next.boot = f.boot /\ next.seq = f.seq
        BY <2>2
    <2> HIDE DEF next
    <2>7. NeverBack(p) /\ InOrder(p, seen) /\ Behind(next, f, p, seen)
        <3>1. NeverBack(p)
            BY <2>3 DEF NeverBack
        <3>2. InOrder(p, seen)
            BY <2>1 DEF InOrder
        <3>3. Behind(next, f, p, seen)
            BY <1>1, <2>1, <2>3, <2>6 DEF Behind
        <3> QED
            BY <3>1, <3>2, <3>3
    <2> QED
        BY <1>2, <2>3, <2>4, <2>5, <2>7 DEF GroupOK, p, next
<1>4. CASE past # <<>> /\ f.boot = in.boot
    <2>1. in # NoIngress /\ Remembers(in, past)
        BY <1>4 DEF GroupOK
    <2>2. f.seq > in.seq
        BY <1>4, <2>1 DEF Follows
    <2>3. /\ DOMAIN next = {"source", "boot", "seq", "stamp", "retired"}
          /\ next.boot = in.boot /\ next.seq = f.seq /\ next.retired = in.retired
        BY <1>4, <2>1 DEF acceptSequence, Remembers
    <2>4. p = past
        BY <1>4, <2>1 DEF ErasWith, Remembers
    <2> HIDE DEF next, p
    <2>5. next # NoIngress
        <3>1. NoIngress.boot = "none"
            BY DEF NoIngress
        <3> QED
            BY <1>1, <1>4, <2>3, <3>1, TwinAssumption
    <2>6. Remembers(next, past)
        BY <1>1, <2>1, <2>3 DEF Remembers
    <2>7. in.seq \in Nat
        BY <2>1 DEF Remembers
    <2>8. \A i \in 1 .. Len(seen) : seen[i].era = n => seen[i].seq <= in.seq
        BY <1>2 DEF Behind
    <2>9. Behind(next, f, past, seen)
        <3>1. \A i \in 1 .. Len(seen) : seen[i].era = n => seen[i].seq < f.seq /\ seen[i].seq <= f.seq
            BY <1>1, <1>s, <2>2, <2>7, <2>8
        <3> QED
            BY <1>1, <1>4, <2>3, <3>1 DEF Behind
    <2> QED
        BY <1>2, <1>4, <2>4, <2>5, <2>6, <2>9 DEF GroupOK, p, next
<1>5. CASE past # <<>> /\ f.boot # in.boot
    <2>1. in # NoIngress /\ Remembers(in, past)
        BY <1>5 DEF GroupOK
    <2>2. f.boot \notin ToSet(in.retired)
        BY <1>5, <2>1 DEF Follows, Retired
    <2>3. next = [in EXCEPT !.boot = f.boot, !.seq = f.seq, !.stamp = f.stamp,
                            !.retired = Retire(@, in.boot)]
        BY <1>5, <2>1 DEF acceptSequence
    <2>4. /\ DOMAIN next = {"source", "boot", "seq", "stamp", "retired"}
          /\ next.boot = f.boot /\ next.seq = f.seq /\ next.retired = Retire(in.retired, in.boot)
        BY <2>1, <2>3 DEF Remembers
    <2>5. p = Append(past, f.boot)
        BY <1>5, <2>1 DEF ErasWith, Remembers
    <2>6. /\ p \in Seq(Boots) /\ p # <<>> /\ Len(p) = n + 1
          /\ \A k \in 1 .. n : p[k] = past[k]
        BY <1>1, <1>2, <2>5
    <2> HIDE DEF next, p, n
    <2>7. Remembers(next, p)
        BY <1>1, <1>2, <1>5, <2>1, <2>4, <2>5, RetireRemembers
    <2>8. NeverBack(p)
        BY <1>1, <1>2, <1>5, <2>1, <2>2, <2>5, NewEra
    <2>9. next # NoIngress
        <3>1. NoIngress.boot = "none"
            BY DEF NoIngress
        <3> QED
            BY <1>1, <2>4, <3>1, TwinAssumption
    <2>10. InOrder(p, seen)
        <3>1. \A i \in 1 .. Len(seen) : seen[i].boot = past[seen[i].era]
            BY <1>2 DEF InOrder
        <3>2. \A i \in 1 .. Len(seen) : seen[i].era \in 1 .. Len(p) /\ seen[i].boot = p[seen[i].era]
            BY <1>2, <1>s, <2>6, <3>1
        <3> QED
            BY <1>2, <3>2 DEF InOrder
    <2>11. Behind(next, f, p, seen)
        <3>1. \A i \in 1 .. Len(seen) : seen[i].era # Len(p)
            BY <1>2, <1>s, <2>6
        <3> QED
            BY <1>1, <2>4, <2>6, <3>1 DEF Behind
    <2> QED
        BY <1>2, <2>6, <2>7, <2>8, <2>9, <2>10, <2>11 DEF GroupOK, p, next
<1> QED
    BY <1>3, <1>4, <1>5

\* The commit shows what waits, or drops it as nothing new, and nothing waits.
LEMMA GroupCommits ==
  ASSUME NEW in, NEW wait, NEW past, NEW seen, GroupOK(in, wait, past, seen), NEW after,
         \/ after = seen
         \/ /\ wait # NoFrame
            /\ after = Append(seen, [era |-> Len(past), boot |-> wait.boot, seq |-> wait.seq])
  PROVE  GroupOK(in, NoFrame, past, after)
<1>1. CASE after = seen
    BY <1>1 DEF GroupOK, Behind
<1>2. CASE wait # NoFrame
           /\ after = Append(seen, [era |-> Len(past), boot |-> wait.boot, seq |-> wait.seq])
    <2> DEFINE n == Len(past)
               last == [era |-> n, boot |-> wait.boot, seq |-> wait.seq]
    <2>1. /\ past \in Seq(Boots) /\ seen \in Seq(Shown) /\ n \in Nat /\ Len(seen) \in Nat
          /\ NeverBack(past) /\ InOrder(past, seen) /\ Behind(in, wait, past, seen)
        BY DEF GroupOK
    <2>2. /\ past # <<>> /\ wait.boot = in.boot /\ wait.seq = in.seq /\ wait.boot \in Boots
          /\ \A i \in 1 .. Len(seen) : seen[i].era = n => seen[i].seq < in.seq
          /\ \A i \in 1 .. Len(seen) : seen[i].era = n => seen[i].seq <= in.seq
        BY <1>2, <2>1 DEF Behind
    <2>3. in # NoIngress /\ Remembers(in, past) /\ in.boot = past[n] /\ in.seq \in Nat
        BY <2>2 DEF GroupOK, Remembers
    <2>4. n \in 1 .. n
        BY <2>1, <2>2
    <2>5. last \in Shown /\ last.era = n /\ last.boot = past[n] /\ last.seq = in.seq
        BY <2>1, <2>2, <2>3 DEF Shown
    <2> HIDE DEF last
    <2>6. /\ after \in Seq(Shown) /\ Len(after) = Len(seen) + 1 /\ after[Len(after)] = last
          /\ \A i \in 1 .. Len(seen) : after[i] = seen[i]
        <3>1. after = Append(seen, last)
            BY <1>2 DEF last
        <3> QED
            BY <2>1, <2>5, <3>1
    <2>7. \A i \in 1 .. Len(seen) :
            seen[i].era \in 1 .. n /\ seen[i].boot = past[seen[i].era] /\ seen[i].seq \in Nat
        BY <2>1, SeenSeq DEF InOrder
    <2>8. \A i \in 1 .. Len(after) : after[i].era \in 1 .. n /\ after[i].boot = past[after[i].era]
        <3> SUFFICES ASSUME NEW i \in 1 .. Len(after)
                     PROVE  after[i].era \in 1 .. n /\ after[i].boot = past[after[i].era]
            OBVIOUS
        <3>1. CASE i = Len(after)
            BY <2>4, <2>5, <2>6, <3>1
        <3>2. CASE i # Len(after)
            <4>1. i \in 1 .. Len(seen)
                BY <2>1, <2>6, <3>2
            <4> QED
                BY <2>6, <2>7, <4>1
        <3> QED
            BY <3>1, <3>2
    <2>9. ASSUME NEW i \in 1 .. Len(after), NEW j \in 1 .. Len(after), i < j
          PROVE  /\ after[i].era <= after[j].era
                 /\ after[i].era = after[j].era => after[i].seq < after[j].seq
        <3>1. i \in 1 .. Len(seen) /\ after[i] = seen[i]
            BY <2>1, <2>6, <2>9
        <3>2. CASE j = Len(after)
            <4>1. after[j].era = n /\ after[j].seq = in.seq
                BY <2>5, <2>6, <3>2
            <4>2. seen[i].era \in 1 .. n /\ (seen[i].era = n => seen[i].seq < in.seq)
                BY <2>2, <2>7, <3>1
            <4> QED
                BY <2>1, <3>1, <4>1, <4>2
        <3>3. CASE j # Len(after)
            <4>1. j \in 1 .. Len(seen) /\ after[j] = seen[j]
                BY <2>1, <2>6, <3>3
            <4> QED
                BY <2>1, <2>9, <3>1, <4>1 DEF InOrder
        <3> QED
            BY <3>2, <3>3
    <2>10. InOrder(past, after)
        BY <2>8, <2>9 DEF InOrder
    <2>11. \A i \in 1 .. Len(after) : after[i].era = n => after[i].seq <= in.seq
        <3> SUFFICES ASSUME NEW i \in 1 .. Len(after), after[i].era = n PROVE after[i].seq <= in.seq
            OBVIOUS
        <3>1. CASE i = Len(after)
            BY <2>3, <2>5, <2>6, <3>1
        <3>2. CASE i # Len(after)
            <4>1. i \in 1 .. Len(seen)
                BY <2>1, <2>6, <3>2
            <4> QED
                BY <2>2, <2>6, <4>1
        <3> QED
            BY <3>1, <3>2
    <2> QED
        BY <2>1, <2>2, <2>3, <2>6, <2>10, <2>11 DEF GroupOK, Behind
<1> QED
    BY <1>1, <1>2

\* The frames that wait are finitely many.
LEMMA Waiting ==
  /\ IsFiniteSet(FramesPending) /\ Cardinality(FramesPending) \in Nat
  /\ \A g \in Groups :
       /\ IsFiniteSet(FramesPending \cup {g})
       /\ Cardinality(FramesPending \cup {g})
            = IF g \in FramesPending THEN Cardinality(FramesPending)
              ELSE Cardinality(FramesPending) + 1
<1>1. IsFiniteSet(FramesPending)
    BY TwinAssumption, FS_Subset DEF FramesPending
<1> QED
    BY <1>1, FS_CardinalityType, FS_AddElement

LEMMA IngestTwinKeeps ==
  ASSUME TwinIInv, NEW f \in TwinFrameSet, ingestTwinFrame(f)
  PROVE  TwinIInv'
<1> DEFINE g == f.group
<1>0. g \in Groups
    BY DEF TwinFrameSet
<1>1. CASE f.supported /\ Follows(ingress[g], f)
    <2>1. /\ ingress' = [ingress EXCEPT ![g] = acceptSequence(@, f)]
          /\ pending' = [pending EXCEPT ![g] = f]
          /\ eras' = [eras EXCEPT ![g] = ErasWith(@, f.boot)]
          /\ scheduled' = TRUE
          /\ metrics' = [metrics EXCEPT !.received = @ + 1,
                           !.coalesced = IF g \in FramesPending THEN @ + 1 ELSE @]
          /\ shown' = shown
        BY <1>1 DEF ingestTwinFrame
    <2>2. GroupOK(ingress[g], pending[g], eras[g], shown[g])
        BY <1>0 DEF TwinIInv
    <2>3. GroupOK(acceptSequence(ingress[g], f), f, ErasWith(eras[g], f.boot), shown[g])
        BY <1>1, <2>2, GroupAccepts
    <2>4. /\ DOMAIN ingress = Groups /\ DOMAIN pending = Groups
          /\ DOMAIN eras = Groups /\ DOMAIN shown = Groups
        BY DEF TwinIInv
    <2>5. \A h \in Groups : GroupOK(ingress'[h], pending'[h], eras'[h], shown'[h])
        <3> SUFFICES ASSUME NEW h \in Groups
                     PROVE  GroupOK(ingress'[h], pending'[h], eras'[h], shown'[h])
            OBVIOUS
        <3>1. CASE h = g
            <4>1. /\ ingress'[g] = acceptSequence(ingress[g], f) /\ pending'[g] = f
                  /\ eras'[g] = ErasWith(eras[g], f.boot) /\ shown'[g] = shown[g]
                BY <1>0, <2>1, <2>4
            <4> QED
                BY <2>3, <3>1, <4>1
        <3>2. CASE h # g
            <4>1. /\ ingress'[h] = ingress[h] /\ pending'[h] = pending[h]
                  /\ eras'[h] = eras[h] /\ shown'[h] = shown[h]
                BY <1>0, <2>1, <2>4, <3>2
            <4> QED
                BY <4>1 DEF TwinIInv
        <3> QED
            BY <3>1, <3>2
    <2>6. f # NoFrame
        <3>1. f.boot \in Boots /\ NoFrame.boot = "none"
            BY DEF TwinFrameSet, NoFrame
        <3> QED
            BY <3>1, TwinAssumption
    <2>7. FramesPending' = FramesPending \cup {g}
        <3>1. \A h \in Groups : pending'[h] = IF h = g THEN f ELSE pending[h]
            BY <1>0, <2>1, <2>4
        <3> QED
            BY <1>0, <2>6, <3>1 DEF FramesPending
    <2>8. /\ Cardinality(FramesPending) \in Nat
          /\ Cardinality(FramesPending') = IF g \in FramesPending THEN Cardinality(FramesPending)
                                           ELSE Cardinality(FramesPending) + 1
        BY <1>0, <2>7, Waiting
    <2>9. /\ DOMAIN metrics' = {"received", "rejected", "coalesced", "applied"}
          /\ metrics'.received = metrics.received + 1 /\ metrics'.rejected = metrics.rejected
          /\ metrics'.applied = metrics.applied
          /\ metrics'.coalesced = IF g \in FramesPending THEN metrics.coalesced + 1
                                  ELSE metrics.coalesced
        BY <2>1 DEF TwinIInv
    <2>10. /\ metrics.received \in Nat /\ metrics.rejected \in Nat
           /\ metrics.coalesced \in Nat /\ metrics.applied \in Nat
           /\ metrics.received = metrics.rejected + metrics.coalesced + metrics.applied
                                   + Cardinality(FramesPending)
        BY DEF TwinIInv
    <2>11. /\ metrics'.received \in Nat /\ metrics'.rejected \in Nat
           /\ metrics'.coalesced \in Nat /\ metrics'.applied \in Nat
           /\ metrics'.received = metrics'.rejected + metrics'.coalesced + metrics'.applied
                                    + Cardinality(FramesPending')
        <3>1. CASE g \in FramesPending
            BY <2>8, <2>9, <2>10, <3>1
        <3>2. CASE g \notin FramesPending
            BY <2>8, <2>9, <2>10, <3>2
        <3> QED
            BY <3>1, <3>2
    <2>12. scheduled' \in BOOLEAN /\ (scheduled' <=> FramesPending' # {})
        BY <2>1, <2>7
    <2>13. /\ DOMAIN ingress' = Groups /\ DOMAIN pending' = Groups
           /\ DOMAIN eras' = Groups /\ DOMAIN shown' = Groups
        BY <2>1, <2>4
    <2> QED
        BY <2>5, <2>9, <2>11, <2>12, <2>13 DEF TwinIInv
<1>2. CASE ~(f.supported /\ Follows(ingress[g], f))
    <2>1. /\ metrics' = [metrics EXCEPT !.received = @ + 1, !.rejected = @ + 1]
          /\ UNCHANGED <<ingress, pending, scheduled, eras, shown>>
        BY <1>2 DEF ingestTwinFrame
    <2>2. FramesPending' = FramesPending
        BY <2>1 DEF FramesPending
    <2>3. Cardinality(FramesPending) \in Nat
        BY Waiting
    <2>4. /\ DOMAIN metrics' = {"received", "rejected", "coalesced", "applied"}
          /\ metrics'.received = metrics.received + 1 /\ metrics'.rejected = metrics.rejected + 1
          /\ metrics'.applied = metrics.applied /\ metrics'.coalesced = metrics.coalesced
        BY <2>1 DEF TwinIInv
    <2>5. /\ metrics.received \in Nat /\ metrics.rejected \in Nat
          /\ metrics.coalesced \in Nat /\ metrics.applied \in Nat
          /\ metrics.received = metrics.rejected + metrics.coalesced + metrics.applied
                                  + Cardinality(FramesPending)
        BY DEF TwinIInv
    <2>6. /\ metrics'.received \in Nat /\ metrics'.rejected \in Nat
          /\ metrics'.coalesced \in Nat /\ metrics'.applied \in Nat
          /\ metrics'.received = metrics'.rejected + metrics'.coalesced + metrics'.applied
                                   + Cardinality(FramesPending')
        BY <2>2, <2>3, <2>4, <2>5
    <2> QED
        BY <2>1, <2>2, <2>4, <2>6 DEF TwinIInv
<1> QED
    BY <1>1, <1>2

LEMMA CommitTwinKeeps == TwinIInv /\ CommitTwinFrames => TwinIInv'
<1> SUFFICES ASSUME TwinIInv, CommitTwinFrames PROVE TwinIInv'
    OBVIOUS
<1>1. /\ scheduled' = FALSE
      /\ pending' = [g \in Groups |-> NoFrame]
      /\ metrics' = [metrics EXCEPT !.applied = @ + Cardinality(FramesPending)]
      /\ snapshots' = [g \in Groups |->
            IF g \in FramesPending THEN applyMotorFrame(snapshots[g], pending[g]) ELSE snapshots[g]]
      /\ shown' = [g \in Groups |->
            IF snapshots'[g].boot # "none" /\ snapshots'[g] # snapshots[g] /\ g \in FramesPending
              THEN Append(shown[g], [era |-> Len(eras[g]), boot |-> snapshots'[g].boot,
                                     seq |-> snapshots'[g].seq])
              ELSE shown[g]]
      /\ ingress' = ingress /\ eras' = eras
    BY DEF CommitTwinFrames
<1>2. FramesPending' = {} /\ Cardinality(FramesPending') = 0
    <2>1. FramesPending' = {}
        BY <1>1 DEF FramesPending
    <2> QED
        BY <2>1, FS_EmptySet
<1>3. \A g \in Groups : GroupOK(ingress'[g], pending'[g], eras'[g], shown'[g])
    <2> SUFFICES ASSUME NEW g \in Groups
                 PROVE  GroupOK(ingress'[g], pending'[g], eras'[g], shown'[g])
        OBVIOUS
    <2>1. ingress'[g] = ingress[g] /\ pending'[g] = NoFrame /\ eras'[g] = eras[g]
        BY <1>1
    <2>2. GroupOK(ingress[g], pending[g], eras[g], shown[g])
        BY DEF TwinIInv
    <2>3. \/ shown'[g] = shown[g]
          \/ /\ pending[g] # NoFrame
             /\ shown'[g] = Append(shown[g], [era |-> Len(eras[g]), boot |-> pending[g].boot,
                                              seq |-> pending[g].seq])
        <3>1. CASE snapshots'[g].boot # "none" /\ snapshots'[g] # snapshots[g] /\ g \in FramesPending
            <4>1. shown'[g] = Append(shown[g], [era |-> Len(eras[g]), boot |-> snapshots'[g].boot,
                                                seq |-> snapshots'[g].seq])
                BY <1>1, <3>1
            <4>2. snapshots'[g] = applyMotorFrame(snapshots[g], pending[g])
                BY <1>1, <3>1
            <4>3. snapshots'[g].boot = pending[g].boot /\ snapshots'[g].seq = pending[g].seq
                BY <3>1, <4>2 DEF applyMotorFrame
            <4>4. pending[g] # NoFrame
                BY <3>1 DEF FramesPending
            <4> QED
                BY <4>1, <4>3, <4>4
        <3>2. CASE ~(snapshots'[g].boot # "none" /\ snapshots'[g] # snapshots[g]
                       /\ g \in FramesPending)
            BY <1>1, <3>2
        <3> QED
            BY <3>1, <3>2
    <2>4. GroupOK(ingress[g], NoFrame, eras[g], shown'[g])
        BY <2>2, <2>3, GroupCommits
    <2> QED
        BY <2>1, <2>4
<1>4. /\ DOMAIN metrics' = {"received", "rejected", "coalesced", "applied"}
      /\ metrics'.received = metrics.received /\ metrics'.rejected = metrics.rejected
      /\ metrics'.coalesced = metrics.coalesced
      /\ metrics'.applied = metrics.applied + Cardinality(FramesPending)
    BY <1>1 DEF TwinIInv
<1>5. /\ metrics.received \in Nat /\ metrics.rejected \in Nat
      /\ metrics.coalesced \in Nat /\ metrics.applied \in Nat
      /\ metrics.received = metrics.rejected + metrics.coalesced + metrics.applied
                              + Cardinality(FramesPending)
      /\ Cardinality(FramesPending) \in Nat
    BY Waiting DEF TwinIInv
<1>6. /\ metrics'.received \in Nat /\ metrics'.rejected \in Nat
      /\ metrics'.coalesced \in Nat /\ metrics'.applied \in Nat
      /\ metrics'.received = metrics'.rejected + metrics'.coalesced + metrics'.applied
                               + Cardinality(FramesPending')
    BY <1>2, <1>4, <1>5
<1>7. /\ DOMAIN ingress' = Groups /\ DOMAIN pending' = Groups
      /\ DOMAIN eras' = Groups /\ DOMAIN shown' = Groups
    BY <1>1 DEF TwinIInv
<1>8. scheduled' \in BOOLEAN /\ (scheduled' <=> FramesPending' # {})
    BY <1>1, <1>2
<1> QED
    BY <1>3, <1>4, <1>6, <1>7, <1>8 DEF TwinIInv

TwinFresh ==
  /\ ingress = [g \in Groups |-> NoIngress] /\ pending = [g \in Groups |-> NoFrame]
  /\ scheduled = FALSE /\ metrics = createMetrics
  /\ eras = [g \in Groups |-> <<>>] /\ shown = [g \in Groups |-> <<>>]

\* Nothing was received of any group.
LEMMA FreshKeeps == TwinFresh => TwinIInv
<1> SUFFICES ASSUME TwinFresh PROVE TwinIInv
    OBVIOUS
<1>1. FramesPending = {} /\ Cardinality(FramesPending) = 0
    <2>1. FramesPending = {}
        BY DEF FramesPending, TwinFresh
    <2> QED
        BY <2>1, FS_EmptySet
<1>2. GroupOK(NoIngress, NoFrame, <<>>, <<>>)
    BY DEF GroupOK, NeverBack, InOrder, Behind
<1>3. /\ DOMAIN metrics = {"received", "rejected", "coalesced", "applied"}
      /\ metrics.received = 0 /\ metrics.rejected = 0
      /\ metrics.coalesced = 0 /\ metrics.applied = 0
    BY DEF TwinFresh, createMetrics
<1>4. 0 \in Nat /\ 0 = 0 + 0 + 0 + 0
    OBVIOUS
<1>5. scheduled \in BOOLEAN /\ (scheduled <=> FramesPending # {})
    BY <1>1 DEF TwinFresh
<1>6. /\ DOMAIN ingress = Groups /\ DOMAIN pending = Groups
      /\ DOMAIN eras = Groups /\ DOMAIN shown = Groups
    BY DEF TwinFresh
<1>7. \A g \in Groups : GroupOK(ingress[g], pending[g], eras[g], shown[g])
    <2> SUFFICES ASSUME NEW g \in Groups PROVE GroupOK(ingress[g], pending[g], eras[g], shown[g])
        OBVIOUS
    <2>1. ingress[g] = NoIngress /\ pending[g] = NoFrame /\ eras[g] = <<>> /\ shown[g] = <<>>
        BY DEF TwinFresh
    <2> QED
        BY <1>2, <2>1
<1> QED
    BY <1>1, <1>3, <1>4, <1>5, <1>6, <1>7 DEF TwinIInv

\* Every step of the twin keeps the invariant; the clocks and the preview leave
\* everything it speaks of alone.
LEMMA TwinStep == TwinIInv /\ [TwinNext]_twinVars => TwinIInv'
<1> SUFFICES ASSUME TwinIInv, [TwinNext]_twinVars PROVE TwinIInv'
    OBVIOUS
<1>0. UNCHANGED <<ingress, pending, scheduled, metrics, eras, shown>> => TwinIInv'
    BY DEF TwinIInv, FramesPending
<1>1. ASSUME NEW f \in TwinFrameSet, ingestTwinFrame(f) PROVE TwinIInv'
    BY <1>1, IngestTwinKeeps
<1>2. CASE CommitTwinFrames
    BY <1>2, CommitTwinKeeps
<1>3. CASE TwinTick
    BY <1>0, <1>3 DEF TwinTick
<1>4. CASE expireMotorTelemetry
    BY <1>0, <1>4 DEF expireMotorTelemetry
<1>5. CASE resetPreview
    BY <1>0, <1>5 DEF resetPreview
<1>6. CASE resetTwinTelemetry
    <2>1. TwinFresh'
        BY <1>6 DEF resetTwinTelemetry, TwinFresh, createMetrics
    <2> QED
        BY <2>1, FreshKeeps, PTL
<1>7. CASE UNCHANGED twinVars
    BY <1>0, <1>7 DEF twinVars
<1> QED
    BY <1>1, <1>2, <1>3, <1>4, <1>5, <1>6, <1>7 DEF TwinNext

\* However frames are delayed, repeated or coalesced and however often a
\* controller comes up again, no frame is lost or shown out of order
\* (AethorTwinFrameCoordinator: ingest and commitPending).
THEOREM TwinAlwaysInOrder == TwinSpec => []TwinDelivery
<1>1. TwinInit => TwinIInv
    BY FreshKeeps DEF TwinInit, TwinFresh
<1>2. TwinIInv => TwinDelivery
    <2> SUFFICES ASSUME TwinIInv PROVE TwinDelivery
        OBVIOUS
    <2>1. ASSUME NEW g \in Groups
          PROVE  /\ \A i \in DOMAIN shown[g] :
                      shown[g][i].era \in DOMAIN eras[g] /\ shown[g][i].boot = eras[g][shown[g][i].era]
                 /\ \A i, j \in DOMAIN shown[g] : i < j =>
                      /\ shown[g][i].era <= shown[g][j].era
                      /\ shown[g][i].era = shown[g][j].era => shown[g][i].seq < shown[g][j].seq
                 /\ \A a, b \in DOMAIN eras[g] :
                      a < b /\ eras[g][a] = eras[g][b] => b - a > MaxRetired + 1
        <3>1. GroupOK(ingress[g], pending[g], eras[g], shown[g])
            BY <2>1 DEF TwinIInv
        <3>2. DOMAIN shown[g] = 1 .. Len(shown[g]) /\ DOMAIN eras[g] = 1 .. Len(eras[g])
            BY <3>1 DEF GroupOK
        <3>3. NeverBack(eras[g]) /\ InOrder(eras[g], shown[g])
            BY <3>1 DEF GroupOK
        <3> QED
            BY <3>2, <3>3 DEF NeverBack, InOrder
    <2>2. scheduled = (FramesPending # {})
        BY DEF TwinIInv
    <2>3. metrics.received = metrics.rejected + metrics.coalesced + metrics.applied
                               + Cardinality(FramesPending)
        BY DEF TwinIInv
    <2> QED
        BY <2>1, <2>2, <2>3 DEF TwinDelivery
<1> QED
    BY <1>1, <1>2, TwinStep, PTL DEF TwinSpec
==============================================================================
