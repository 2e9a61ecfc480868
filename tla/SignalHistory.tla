---------------------------- MODULE SignalHistory ----------------------------
(***************************************************************************)
(* The oscilloscope's data: the ring buffer of a signal                    *)
(* (domain/BoundedSignalBuffer.ts), the history that fills it from joint   *)
(* frames (domain/LiveSignalHistory.ts, stores/useTelemetryHistoryStore)   *)
(* and the chart that redraws from it on a timer                           *)
(* (hooks/useTelemetryHistorySnapshot.ts, pages/scope).                    *)
(*                                                                         *)
(* A frame is pushed into the buffer of every signal alike, so one buffer  *)
(* stands for all.  A frame is its sequence number, its timestamp and      *)
(* whether it is a valid measurement of the profile.  The count of refused *)
(* frames is left out: it is only displayed.                               *)
(***************************************************************************)
EXTENDS Integers, Sequences, FiniteSetsExt

CONSTANTS
  maxSamples,     \* capacity of a buffer (4800)
  maxAgeMs,       \* age at which a sample leaves it (120 s)
  Windows,        \* window lengths the scope offers
  HistorySessions,\* hardware session ids
  MaxSequence, MaxTimestamp    \* bounds of what frames carry

ASSUME HistoryAssumption ==
  /\ maxSamples \in Nat \ {0} /\ maxAgeMs \in Nat
  /\ MaxSequence \in Nat /\ MaxTimestamp \in Nat

VARIABLES
  ring,      \* [slots, start, count, latest] of one BoundedSignalBuffer
  history,   \* [sid, lastSeq, lastTs, accepted, dropped]
  chart,     \* [timer, visible, window, shown]: the mounted hook
  kept       \* history variable: frames accepted in this session, oldest first

historyVars == <<ring, history, chart, kept>>

NoTime == -1
NoSample == [seq |-> NoTime, ts |-> NoTime]

-----------------------------------------------------------------------------
(* BoundedSignalBuffer.                                                    *)

emptyBuffer == [slots |-> [i \in 0 .. maxSamples - 1 |-> NoSample],
                start |-> 0, count |-> 0, latest |-> NoTime]

At(b, offset) == b.slots[(b.start + offset) % maxSamples]

readSamples(b) == [i \in 1 .. b.count |-> At(b, i - 1)]

\* Drops samples from the front until one is young enough.
evictOlderThan(b, cutoff) ==
  LET old == Min({k \in 0 .. b.count : k = b.count \/ At(b, k).ts >= cutoff})
      gone == {(b.start + k) % maxSamples : k \in 0 .. old - 1}
  IN  [b EXCEPT !.slots = [i \in DOMAIN @ |-> IF i \in gone THEN NoSample ELSE @[i]],
                !.start = (@ + old) % maxSamples,
                !.count = @ - old]

\* Mutant: a full ring is not full until its start wraps.
pushKeepingStart(b, s) ==
  LET full == b.count = maxSamples
      at   == (b.start + b.count) % maxSamples
      c    == [b EXCEPT !.slots[at] = s, !.count = IF full THEN @ ELSE @ + 1,
                        !.latest = s.ts]
  IN  IF b.latest # NoTime /\ s.ts < b.latest THEN b
      ELSE evictOlderThan(c, s.ts - maxAgeMs)

\* A full ring overwrites its oldest slot and moves the start on.
push(b, s) ==
  LET full == b.count = maxSamples
      at   == IF full THEN b.start ELSE (b.start + b.count) % maxSamples
      c    == [b EXCEPT !.slots[at] = s,
                        !.start = IF full THEN (@ + 1) % maxSamples ELSE @,
                        !.count = IF full THEN @ ELSE @ + 1,
                        !.latest = s.ts]
  IN  IF b.latest # NoTime /\ s.ts < b.latest THEN b
      ELSE evictOlderThan(c, s.ts - maxAgeMs)

snapshotSince(b, cutoff) == SelectSeq(readSamples(b), LAMBDA s : s.ts >= cutoff)

-----------------------------------------------------------------------------
(* LiveSignalHistory.                                                      *)

clearSamples(sid) ==
  /\ ring' = emptyBuffer
  /\ history' = [sid |-> sid, lastSeq |-> NoTime, lastTs |-> NoTime,
                 accepted |-> 0, dropped |-> 0]
  /\ kept' = <<>>

\* Why a frame is refused, in the order of the tests.
IngestStatus(f) ==
  IF history.sid = "none" THEN "inactiveSession"
  ELSE IF ~f.measured THEN "invalidFrame"
  ELSE IF history.lastSeq # NoTime /\ f.seq = history.lastSeq THEN "duplicate"
  ELSE IF history.lastSeq # NoTime /\ (f.seq < history.lastSeq \/ f.ts < history.lastTs)
    THEN "outOfOrder"
  ELSE "accepted"

detectedGap(f) == IF history.lastSeq = NoTime THEN 0 ELSE f.seq - history.lastSeq - 1

ingest(f) ==
  LET sample == [seq |-> f.seq, ts |-> f.ts]
  IN  IF IngestStatus(f) = "accepted"
        THEN /\ ring' = push(ring, sample)
             /\ history' = [history EXCEPT !.lastSeq = f.seq, !.lastTs = f.ts,
                                           !.accepted = @ + 1, !.dropped = @ + detectedGap(f)]
             /\ kept' = Append(kept, sample)
        ELSE UNCHANGED <<ring, history, kept>>

\* A cutoff without a last timestamp lets everything through.
snapshot(w) ==
  IF history.lastTs = NoTime THEN readSamples(ring)
  ELSE snapshotSince(ring, history.lastTs - w)

-----------------------------------------------------------------------------
(* The chart's hook.                                                       *)

\* refresh: takes a snapshot of the window shown.
refresh(c) == [c EXCEPT !.timer = FALSE, !.shown = snapshot(c.window)]

schedule(c) == [c EXCEPT !.timer = TRUE]

\* Every new revision of the store schedules a redraw.
NotifyChart == chart' = schedule(chart)

RefreshTimer ==
  /\ chart.timer
  /\ chart' = refresh(chart)
  /\ UNCHANGED <<ring, history, kept>>

\* Mutant: hiding the page only stops the timer.
OnHiddenStops(c) == [c EXCEPT !.timer = FALSE]

\* Becoming visible redraws at once; becoming hidden restarts a slow timer.
OnVisible(c) == refresh(c)
OnHidden(c) == schedule([c EXCEPT !.timer = FALSE])

handleVisibilityChange ==
  /\ chart' = [IF chart.visible THEN OnHidden(chart) ELSE OnVisible(chart)
                 EXCEPT !.visible = ~@]
  /\ UNCHANGED <<ring, history, kept>>

\* Another window length: the effect runs again and redraws first.
SetWindow(w) ==
  /\ w # chart.window
  /\ chart' = refresh([chart EXCEPT !.window = w])
  /\ UNCHANGED <<ring, history, kept>>

-----------------------------------------------------------------------------
(* The store.                                                              *)

\* A session that is offline, unavailable or not measured counts as none.
syncSession(sid) ==
  /\ sid # history.sid
  /\ clearSamples(sid)
  /\ NotifyChart

ingestJointState(f) ==
  /\ ingest(f)
  /\ NotifyChart

HistoryInit ==
  /\ ring = emptyBuffer
  /\ history = [sid |-> "none", lastSeq |-> NoTime, lastTs |-> NoTime,
                accepted |-> 0, dropped |-> 0]
  /\ chart = [timer |-> FALSE, visible |-> TRUE, window |-> Min(Windows),
              shown |-> <<>>]
  /\ kept = <<>>

\* An unmeasured frame is refused whatever it carries: one stands for all.
FrameSet == [seq : 0 .. MaxSequence, ts : 0 .. MaxTimestamp, measured : {TRUE}]
              \union {[seq |-> 0, ts |-> 0, measured |-> FALSE]}

HistoryNext ==
  \/ \E f \in FrameSet : ingestJointState(f)
  \/ \E sid \in HistorySessions \union {"none"} : syncSession(sid)
  \/ \E w \in Windows : SetWindow(w)
  \/ RefreshTimer
  \/ handleVisibilityChange

\* Browser timers fire.
HistoryFairness == WF_historyVars(RefreshTimer)

HistorySpec == HistoryInit /\ [][HistoryNext]_historyVars /\ HistoryFairness

-----------------------------------------------------------------------------
(* Properties.                                                             *)

InWindow(k) ==
  k > Len(kept) - maxSamples /\ kept[k].ts >= history.lastTs - maxAgeMs

(***************************************************************************)
(* The ring holds exactly the frames accepted in this session that are     *)
(* among the newest maxSamples and not older than maxAgeMs, in order, and  *)
(* the accepted frames and the ones counted as dropped are together the    *)
(* sequence numbers from the first to the last: wrap-around, eviction by   *)
(* age, gaps and clearing agree at every fill level.                       *)
(***************************************************************************)
RingIsWindow ==
  LET first == Len(kept) - ring.count + 1
  IN  /\ readSamples(ring) = SubSeq(kept, first, Len(kept))
      /\ \A k \in DOMAIN kept : k >= first <=> InWindow(k)
      /\ history.accepted = Len(kept)
      /\ kept # <<>> => history.accepted + history.dropped = history.lastSeq - kept[1].seq + 1

(***************************************************************************)
(* The chart catches up with the buffer: a redraw is never lost between    *)
(* the timer, a change of visibility and a change of the window.           *)
(***************************************************************************)
ChartCatchesUp ==
  (chart.shown # snapshot(chart.window)) ~> (chart.shown = snapshot(chart.window))
=============================================================================
