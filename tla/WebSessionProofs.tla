--------------------------- MODULE WebSessionProofs ---------------------------
(***************************************************************************)
(* Proofs about WebSession, for any sequence of sessions, bounds and       *)
(* history limit: the mirrored safety interlock is a function of the set   *)
(* of results shown, whatever their order; it gates motion; and no serial  *)
(* operation is shown that nobody carries out.                             *)
(***************************************************************************)
EXTENDS WebSession, SetInduction, SequenceTheorems, TLAPS

-----------------------------------------------------------------------------
(* The interlock as a function of the results shown                        *)

HasSid(s) == "sid" \in DOMAIN s
\* A result as the gateway or the page makes it.
Result(r) == r.ts \in Nat /\ r.ts > 0
Results(h) == \E S : h \in Seq(S) /\ \A r \in S : Result(r)

\* The watermark is the newest confirmed STOP of those shown, and the latch the
\* newest uncertain one after it.
LatchOK(latched, stopTs, seen, sid) ==
  /\ stopTs \in Nat
  /\ \A r \in seen : Result(r) /\ r.sid = sid
  /\ \A r \in seen : ConfirmedStop(r) => r.ts <= stopTs
  /\ stopTs = 0 \/ \E r \in seen : ConfirmedStop(r) /\ r.ts = stopTs
  /\ \/ latched = NoResult
     \/ latched \in seen /\ isSafetyLatchedResult(latched) /\ latched.ts > stopTs
  /\ \A r \in seen : isSafetyLatchedResult(r) /\ r.ts > stopTs
                       => latched # NoResult /\ r.ts <= latched.ts

PageFields == {"session", "latched", "stopTs", "seen", "op"}

PageOK(p) ==
  /\ PageFields \subseteq DOMAIN p /\ HasSid(p.session)
  /\ LatchOK(p.latched, p.stopTs, p.seen, p.session.sid)

\* A change that keeps the page consistent and starts no serial operation.
Calm(p, q) ==
  PageOK(q) /\ (q.op = p.op \/ q.op \notin {"connecting", "disconnecting"})

\* A change that the interlock does not see.
Unseen(p, q) ==
  /\ PageFields \subseteq DOMAIN q /\ HasSid(q.session)
  /\ q.session.sid = p.session.sid
  /\ q.latched = p.latched /\ q.stopTs = p.stopTs /\ q.seen = p.seen
  /\ q.op = p.op \/ q.op \notin {"connecting", "disconnecting"}

LEMMA UnseenCalm ==
  ASSUME NEW p, NEW q, PageOK(p), Unseen(p, q)
  PROVE  Calm(p, q)
  BY DEF PageOK, Calm, Unseen

LEMMA CalmTrans ==
  ASSUME NEW p, NEW q, NEW r, Calm(p, q), Calm(q, r)
  PROVE  Calm(p, r)
  BY DEF Calm

\* The three ways one more result changes latch and watermark.
Folded(L, T, r, L2, T2) ==
  \/ /\ ConfirmedStop(r) /\ r.ts >= T
     /\ T2 = r.ts /\ L2 = (IF L.ts > r.ts THEN L ELSE NoResult)
  \/ /\ L2 = L /\ T2 = T
     /\ \/ ConfirmedStop(r) /\ r.ts < T
        \/ ~ConfirmedStop(r) /\ (~isSafetyLatchedResult(r) \/ r.ts <= T \/ r.ts < L.ts)
  \/ /\ L2 = r /\ T2 = T
     /\ ~ConfirmedStop(r) /\ isSafetyLatchedResult(r) /\ r.ts > T /\ r.ts >= L.ts

LEMMA FoldedLatch ==
  ASSUME NEW L, NEW T, NEW seen, NEW sid, NEW r, NEW L2, NEW T2,
         LatchOK(L, T, seen, sid), Result(r), r.sid = sid, Folded(L, T, r, L2, T2)
  PROVE  LatchOK(L2, T2, seen \union {r}, sid)
  <1>1. NoResult.ts = 0 /\ ~isSafetyLatchedResult(NoResult)
    BY DEF NoResult, isSafetyLatchedResult
  <1>2. \A x : ConfirmedStop(x) => ~isSafetyLatchedResult(x)
    BY DEF ConfirmedStop, isSafetyLatchedResult
  <1>3. /\ T \in Nat /\ r.ts \in Nat /\ r.ts > 0
        /\ L = NoResult \/ (L \in seen /\ isSafetyLatchedResult(L) /\ L.ts > T)
        /\ \A x \in seen : x.ts \in Nat /\ x.ts > 0 /\ x.sid = sid
    BY DEF LatchOK, Result
  <1>4. L.ts \in Nat /\ (L.ts > 0 => L # NoResult)
    BY <1>1, <1>3
  <1>5. T2 \in Nat /\ T <= T2
    BY <1>3, <1>4 DEF Folded
  <1>6. \A x \in seen \union {r} : Result(x) /\ x.sid = sid
    BY <1>3 DEF Result
  <1>7. \A x \in seen \union {r} : ConfirmedStop(x) => x.ts <= T2
    <2>1. \A x \in seen : ConfirmedStop(x) => x.ts <= T2
      BY <1>3, <1>5 DEF LatchOK
    <2>2. ConfirmedStop(r) => r.ts <= T2
      BY <1>3 DEF Folded
    <2> QED
      BY <2>1, <2>2
  <1>8. T2 = 0 \/ \E x \in seen \union {r} : ConfirmedStop(x) /\ x.ts = T2
    <2>1. T2 = T \/ (ConfirmedStop(r) /\ r.ts = T2)
      BY DEF Folded
    <2> QED
      BY <2>1 DEF LatchOK
  <1>9. \/ L2 = NoResult
        \/ L2 \in seen \union {r} /\ isSafetyLatchedResult(L2) /\ L2.ts > T2
    BY <1>1, <1>3, <1>4 DEF Folded
  <1>10. ASSUME NEW x \in seen \union {r}, isSafetyLatchedResult(x), x.ts > T2
         PROVE  L2 # NoResult /\ x.ts <= L2.ts
    <2>1. CASE x # r \/ x \in seen
      <3>1. x \in seen /\ x.ts > T /\ x.ts \in Nat
        BY <1>3, <1>5, <1>10, <2>1
      <3>2. L # NoResult /\ x.ts <= L.ts
        BY <1>10, <3>1 DEF LatchOK
      <3> QED
        BY <1>1, <1>3, <1>4, <1>10, <3>1, <3>2 DEF Folded
    <2>2. CASE x = r
      BY <1>1, <1>2, <1>3, <1>4, <1>10, <2>2 DEF Folded
    <2> QED
      BY <2>1, <2>2
  <1> QED
    BY <1>5, <1>6, <1>7, <1>8, <1>9, <1>10 DEF LatchOK

\* One more result, in whatever order it comes; the rest of the page is left alone.
LEMMA ReduceFolds ==
  ASSUME NEW p, PageFields \subseteq DOMAIN p, NEW r,
         p.stopTs \in Nat, r.ts \in Nat, p.latched.ts \in Nat
  PROVE  LET q == reduceCommandSafetyState(p, r)
         IN  /\ DOMAIN q = DOMAIN p /\ q.session = p.session /\ q.op = p.op
             /\ q.seen = p.seen
             /\ Folded(p.latched, p.stopTs, r, q.latched, q.stopTs)
  <1> SUFFICES ASSUME NEW q, q = reduceCommandSafetyState(p, r)
               PROVE  /\ DOMAIN q = DOMAIN p /\ q.session = p.session /\ q.op = p.op
                      /\ q.seen = p.seen
                      /\ Folded(p.latched, p.stopTs, r, q.latched, q.stopTs)
    OBVIOUS
  <1>1. CASE ConfirmedStop(r) /\ r.ts >= p.stopTs
    <2>1. q = [p EXCEPT !.latched = IF @.ts > r.ts THEN @ ELSE NoResult, !.stopTs = r.ts]
      BY <1>1 DEF reduceCommandSafetyState
    <2>2. /\ DOMAIN q = DOMAIN p /\ q.session = p.session /\ q.op = p.op /\ q.seen = p.seen
          /\ q.latched = (IF p.latched.ts > r.ts THEN p.latched ELSE NoResult)
          /\ q.stopTs = r.ts
      BY <2>1 DEF PageFields
    <2> QED
      BY <1>1, <2>2 DEF Folded
  <1>2. CASE \/ ConfirmedStop(r) /\ ~(r.ts >= p.stopTs)
             \/ ~ConfirmedStop(r) /\ (~isSafetyLatchedResult(r) \/ BehindStop(p, r)
                                       \/ r.ts < p.latched.ts)
    <2>1. q = p
      BY <1>2 DEF reduceCommandSafetyState
    <2> QED
      BY <1>2, <2>1 DEF Folded, BehindStop
  <1>3. CASE ~ConfirmedStop(r) /\ ~(~isSafetyLatchedResult(r) \/ BehindStop(p, r)
                                     \/ r.ts < p.latched.ts)
    <2>1. q = [p EXCEPT !.latched = r]
      BY <1>3 DEF reduceCommandSafetyState
    <2>2. /\ DOMAIN q = DOMAIN p /\ q.session = p.session /\ q.op = p.op /\ q.seen = p.seen
          /\ q.latched = r /\ q.stopTs = p.stopTs
      BY <2>1 DEF PageFields
    <2> QED
      BY <1>3, <2>2 DEF Folded, BehindStop
  <1> QED
    BY <1>1, <1>2, <1>3

\* A history replayed up to position n.
Replay(f, c, h, sid, n) ==
  IF n = 0 THEN c
  ELSE IF h[n].sid = sid THEN reduceCommandSafetyState(f[n - 1], h[n])
  ELSE f[n - 1]

IsReplay(f, c, h, sid, N) == f = [n \in 0 .. N |-> Replay(f, c, h, sid, n)]

\* The replay is well defined for a history of any length.
LEMMA ReplayDefined ==
  ASSUME NEW c, NEW h, NEW sid, NEW N \in Nat
  PROVE  \E f : IsReplay(f, c, h, sid, N)
  <1> DEFINE Good(k) == \E f : IsReplay(f, c, h, sid, k)
             T == {k \in Nat : Good(k)}
  <1>1. 0 \in T
    <2> DEFINE f == [n \in 0 .. 0 |-> c]
    <2>1. f = [n \in 0 .. 0 |-> Replay(f, c, h, sid, n)]
      BY DEF Replay
    <2> QED
      BY <2>1 DEF IsReplay
  <1>2. ASSUME NEW k \in T PROVE k + 1 \in T
    <2>1. k \in Nat /\ Good(k)
      OBVIOUS
    <2>2. PICK f : f = [n \in 0 .. k |-> Replay(f, c, h, sid, n)]
      BY <2>1 DEF IsReplay
    <2> DEFINE g == [n \in 0 .. k + 1 |-> IF n = k + 1 THEN Replay(f, c, h, sid, n) ELSE f[n]]
    <2>3. \A n \in 0 .. k : g[n] = f[n]
      BY <2>1
    <2>4. \A n \in 1 .. k + 1 : g[n - 1] = f[n - 1]
      BY <2>1, <2>3
    <2>5. \A n \in 0 .. k + 1 : Replay(g, c, h, sid, n) = Replay(f, c, h, sid, n)
      BY <2>1, <2>4 DEF Replay
    <2>6. \A n \in 0 .. k + 1 : g[n] = Replay(g, c, h, sid, n)
      <3>1. \A n \in 0 .. k : f[n] = Replay(f, c, h, sid, n)
        BY <2>2
      <3>2. \A n \in 0 .. k + 1 : n = k + 1 \/ n \in 0 .. k
        BY <2>1
      <3> QED
        BY <2>1, <2>5, <3>1, <3>2
    <2>7. g = [n \in 0 .. k + 1 |-> Replay(g, c, h, sid, n)]
      BY <2>6
    <2> HIDE DEF g
    <2>8. Good(k + 1)
      BY <2>7 DEF IsReplay
    <2> QED
      BY <2>1, <2>8
  <1> HIDE DEF Good
  <1>3. T = Nat
    BY <1>1, <1>2, NatSetInduction
  <1>4. Good(N)
    BY <1>3
  <1> QED
    BY <1>4 DEF Good

\* Replaying a history of results accounts for those of the shown session.
LEMMA ReplayFolds ==
  ASSUME NEW p, PageOK(p), NEW h, Results(h)
  PROVE  LET q == reconcileCommandSafetyState(p, h)
         IN  /\ DOMAIN q = DOMAIN p /\ q.session = p.session /\ q.op = p.op
             /\ q.seen = p.seen
             /\ LatchOK(q.latched, q.stopTs,
                        p.seen \union {r \in Range(h) : r.sid = p.session.sid}, p.session.sid)
  <1> DEFINE sid == p.session.sid
             N == Len(h)
             own(n) == {h[i] : i \in {i \in 1 .. n : h[i].sid = sid}}
             OK(q, n) == /\ DOMAIN q = DOMAIN p /\ q.session = p.session /\ q.op = p.op
                         /\ q.seen = p.seen
                         /\ LatchOK(q.latched, q.stopTs, p.seen \union own(n), sid)
  <1>1. /\ N \in Nat /\ DOMAIN h = 1 .. N
        /\ \A i \in 1 .. N : Result(h[i])
    BY DEF Results
  <1>2. p.latched # NoResult => p.latched.sid = sid
    BY DEF PageOK, LatchOK
  <1>3. PICK f : IsReplay(f, p, h, sid, N)
    BY <1>1, ReplayDefined
  <1>4. \E g : /\ g = [n \in 0 .. N |-> Replay(g, p, h, sid, n)]
               /\ reconcileCommandSafetyState(p, h) = g[N]
    <2> DEFINE after == CHOOSE g : g = [n \in 0 .. N |->
                 IF n = 0 THEN p
                 ELSE IF h[n].sid = p.session.sid
                   THEN reduceCommandSafetyState(g[n - 1], h[n])
                 ELSE g[n - 1]]
    <2>1. reconcileCommandSafetyState(p, h) = after[N]
      BY <1>2 DEF reconcileCommandSafetyState
    <2>2. after = [n \in 0 .. N |-> Replay(after, p, h, sid, n)]
      BY <1>3 DEF Replay, IsReplay
    <2> QED
      BY <2>1, <2>2
  <1>5. PICK g : /\ g = [n \in 0 .. N |-> Replay(g, p, h, sid, n)]
                 /\ reconcileCommandSafetyState(p, h) = g[N]
    BY <1>4
  <1>6. \A n \in 0 .. N : g[n] = Replay(g, p, h, sid, n)
    BY <1>5
  <1> DEFINE T == {n \in Nat : n <= N => OK(g[n], n)}
  <1>7. 0 \in T
    <2>1. g[0] = p /\ own(0) = {}
      BY <1>1, <1>6 DEF Replay
    <2> QED
      BY <2>1 DEF PageOK
  <1>8. ASSUME NEW n \in T PROVE n + 1 \in T
    <2> SUFFICES ASSUME n + 1 <= N PROVE OK(g[n + 1], n + 1)
      OBVIOUS
    <2>a. n \in Nat /\ (n <= N => OK(g[n], n))
      OBVIOUS
    <2>b. n <= N /\ n + 1 \in 1 .. N
      BY <1>1, <2>a
    <2>1. n \in Nat /\ OK(g[n], n) /\ n + 1 \in 1 .. N
      BY <2>a, <2>b
    <2>2. g[n + 1] = IF h[n + 1].sid = sid THEN reduceCommandSafetyState(g[n], h[n + 1])
                     ELSE g[n]
      BY <1>1, <1>6, <2>1 DEF Replay
    <2>3. \A i \in Nat : i \in 1 .. n + 1 <=> i \in 1 .. n \/ i = n + 1
      BY <2>1
    <2>4. CASE h[n + 1].sid # sid
      <3>1. own(n + 1) = own(n)
        BY <2>1, <2>3, <2>4
      <3> QED
        BY <2>1, <2>2, <2>4, <3>1
    <2>5. CASE h[n + 1].sid = sid
      <3>1. own(n + 1) = own(n) \union {h[n + 1]}
        BY <2>1, <2>3, <2>5
      <3>2. Result(h[n + 1])
        BY <1>1, <2>1
      <3>3. g[n].latched.ts \in Nat /\ g[n].stopTs \in Nat
        BY <2>1 DEF LatchOK, Result, NoResult
      <3>4. PageFields \subseteq DOMAIN g[n]
        BY <2>1 DEF PageOK
      <3> HIDE DEF own
      <3>5. LatchOK(g[n + 1].latched, g[n + 1].stopTs, (p.seen \union own(n)) \union {h[n + 1]}, sid)
        BY <2>1, <2>2, <2>5, <3>2, <3>3, <3>4, ReduceFolds, FoldedLatch DEF Result
      <3>6. (p.seen \union own(n)) \union {h[n + 1]} = p.seen \union own(n + 1)
        BY <3>1
      <3>7. /\ DOMAIN g[n + 1] = DOMAIN p /\ g[n + 1].session = p.session
            /\ g[n + 1].op = p.op /\ g[n + 1].seen = p.seen
        BY <2>1, <2>2, <2>5, <3>2, <3>3, <3>4, ReduceFolds DEF Result
      <3> QED
        BY <3>5, <3>6, <3>7
    <2> QED
      BY <2>4, <2>5
  <1> HIDE DEF OK
  <1>9. T = Nat
    BY <1>7, <1>8, NatSetInduction
  <1>10. OK(g[N], N)
    BY <1>1, <1>9
  <1>11. own(N) = {r \in Range(h) : r.sid = sid}
    BY <1>1 DEF Range
  <1> QED
    BY <1>5, <1>10, <1>11 DEF OK

-----------------------------------------------------------------------------
(* The handlers of the page                                                *)

\* A history, cut to its newest HistoryLimit entries, still holds results only.
LEMMA HistoryShown ==
  ASSUME NEW p, PageOK(p), NEW h, Results(h)
  PROVE  Calm(p, replaceCommandHistory(p, h))
  <1> DEFINE kept == IF Len(h) > HistoryLimit
                     THEN SubSeq(h, Len(h) - HistoryLimit + 1, Len(h)) ELSE h
             own == {r \in Range(kept) : r.sid = p.session.sid}
             q == reconcileCommandSafetyState(p, kept)
  <1>1. Results(kept)
    <2>1. PICK S : h \in Seq(S) /\ \A r \in S : Result(r)
      BY DEF Results
    <2>2. Len(h) > HistoryLimit
            => SubSeq(h, Len(h) - HistoryLimit + 1, Len(h)) \in Seq(S)
      <3>1. Len(h) \in Nat /\ HistoryLimit \in Nat /\ HistoryLimit > 0
        BY <2>1, HistoryLimitAssumption
      <3>2. ASSUME Len(h) > HistoryLimit
            PROVE  \A i \in Len(h) - HistoryLimit + 1 .. Len(h) : h[i] \in S
        BY <2>1, <3>1, <3>2
      <3> QED
        BY <2>1, <3>1, <3>2
    <2> QED
      BY <2>1, <2>2 DEF Results
  <1>2. ToSet(kept) = Range(kept)
    BY DEF ToSet, Range
  <1>3. replaceCommandHistory(p, h) = [q EXCEPT !.audit = "ready", !.seen = @ \union own]
    BY <1>2 DEF replaceCommandHistory
  <1> HIDE DEF kept
  <1>4. /\ DOMAIN q = DOMAIN p /\ q.session = p.session /\ q.op = p.op /\ q.seen = p.seen
        /\ LatchOK(q.latched, q.stopTs, p.seen \union own, p.session.sid)
    BY <1>1, ReplayFolds
  <1> HIDE DEF q, own
  <1> SUFFICES ASSUME NEW x, x = [q EXCEPT !.audit = "ready", !.seen = @ \union own]
               PROVE  Calm(p, x)
    BY <1>3
  <1>5. /\ DOMAIN x = DOMAIN p /\ x.session = p.session /\ x.op = p.op
        /\ x.seen = p.seen \union own /\ x.latched = q.latched /\ x.stopTs = q.stopTs
    BY <1>4 DEF PageOK, PageFields
  <1> QED
    BY <1>4, <1>5 DEF PageOK, Calm

\* A result of another session is dropped, one of this session is folded in.
LEMMA ResultShown ==
  ASSUME NEW p, PageOK(p), NEW r, Result(r)
  PROVE  Calm(p, setLastCommandResult(p, r))
  <1>1. CASE r.sid # p.session.sid
    BY <1>1 DEF setLastCommandResult, Calm
  <1>2. CASE r.sid = p.session.sid
    <2> DEFINE q == reduceCommandSafetyState(p, r)
    <2>1. p.latched.ts \in Nat /\ p.stopTs \in Nat /\ PageFields \subseteq DOMAIN p
      BY DEF PageOK, LatchOK, Result, NoResult
    <2>2. /\ DOMAIN q = DOMAIN p /\ q.session = p.session /\ q.op = p.op /\ q.seen = p.seen
          /\ LatchOK(q.latched, q.stopTs, p.seen \union {r}, p.session.sid)
      BY <1>2, <2>1, ReduceFolds, FoldedLatch DEF PageOK, Result
    <2>3. \E l : setLastCommandResult(p, r) = [q EXCEPT !.last = l, !.seen = @ \union {r}]
      BY <1>2 DEF setLastCommandResult
    <2> HIDE DEF q
    <2> SUFFICES ASSUME NEW x, NEW l, x = [q EXCEPT !.last = l, !.seen = @ \union {r}]
                 PROVE  Calm(p, x)
      BY <2>3
    <2>4. /\ DOMAIN x = DOMAIN p /\ x.session = p.session /\ x.op = p.op
          /\ x.seen = p.seen \union {r} /\ x.latched = q.latched /\ x.stopTs = q.stopTs
      BY <2>1, <2>2 DEF PageFields
    <2> QED
      BY <2>2, <2>4 DEF PageOK, Calm
  <1> QED
    BY <1>1, <1>2

\* Nothing has been shown of a session just taken up.
LEMMA EmptyLatch == \A sid : LatchOK(NoResult, 0, {}, sid)
  BY DEF LatchOK

LEMMA StaleKeepsSid ==
  ASSUME NEW v, HasSid(v)
  PROVE  HasSid(MarkStale(v)) /\ MarkStale(v).sid = v.sid
  BY DEF HasSid, MarkStale

\* Showing a session snapshot: another session forgets what belonged to the last.
LEMMA SessionShown ==
  ASSUME NEW p, PageOK(p), NEW s, HasSid(s)
  PROVE  Calm(p, setSession(p, s)) /\ setSession(p, s).session = s
  <1> SUFFICES ASSUME NEW q, q = setSession(p, s) PROVE Calm(p, q) /\ q.session = s
    OBVIOUS
  <1>1. CASE p.session.sid = s.sid
    <2>1. q = [p EXCEPT !.session = s]
      BY <1>1 DEF setSession
    <2>2. PageFields \subseteq DOMAIN q /\ q.session = s /\ q.op = p.op
          /\ q.latched = p.latched /\ q.stopTs = p.stopTs /\ q.seen = p.seen
      BY <2>1 DEF PageOK, PageFields
    <2> QED
      BY <1>1, <2>2 DEF PageOK, Calm
  <1>2. CASE p.session.sid # s.sid
    <2> DEFINE f == ForgetSession(p)
    <2>1. /\ DOMAIN f = DOMAIN p /\ f.latched = NoResult /\ f.stopTs = 0 /\ f.seen = {}
          /\ f.op = p.op
      BY DEF ForgetSession, PageOK, PageFields
    <2>2. q = [f EXCEPT !.session = s]
      BY <1>2 DEF setSession
    <2> HIDE DEF f
    <2>3. /\ PageFields \subseteq DOMAIN q /\ q.session = s /\ q.op = p.op
          /\ q.latched = NoResult /\ q.stopTs = 0 /\ q.seen = {}
      BY <2>1, <2>2 DEF PageOK, PageFields
    <2> QED
      BY <2>3, EmptyLatch DEF PageOK, Calm
  <1> QED
    BY <1>1, <1>2

\* The handlers of the stores that the interlock does not see.
LEMMA StoresCalm ==
  ASSUME NEW p, PageOK(p)
  PROVE  /\ \A j : Calm(p, setJointState(p, j))
         /\ Calm(p, beginCommandAuditRefresh(p)) /\ Calm(p, failCommandAuditRefresh(p))
         /\ \A w : Calm(p, setTransportWarning(p, w)) /\ Calm(p, markTelemetryDegraded(p, w))
         /\ Calm(p, completeSerialSessionOperation(p)) /\ Calm(p, failSerialSessionOperation(p))
         /\ Calm(p, setJointTarget(p)) /\ Calm(p, endHardwareSession(p))
         /\ \A sid : Calm(p, beginHardwareSession(p, sid))
         /\ \A sid, pose : Calm(p, alignTargetFromMeasured(p, sid, pose))
         /\ Calm(p, resetSession(p))
  <1> USE DEF PageFields
  <1>0. PageFields \subseteq DOMAIN p /\ HasSid(p.session)
    BY DEF PageOK
  <1>1. \A j : Unseen(p, setJointState(p, j))
    BY <1>0 DEF setJointState, Unseen
  <1>2. Unseen(p, beginCommandAuditRefresh(p)) /\ Unseen(p, failCommandAuditRefresh(p))
    BY <1>0 DEF beginCommandAuditRefresh, failCommandAuditRefresh, Unseen
  <1>3. \A w : Unseen(p, setTransportWarning(p, w))
    BY <1>0 DEF setTransportWarning, Unseen
  <1>4. ASSUME NEW w PROVE Unseen(p, markTelemetryDegraded(p, w))
    <2>1. HasSid(MarkStale(p.session)) /\ MarkStale(p.session).sid = p.session.sid
      BY <1>0, StaleKeepsSid
    <2> SUFFICES ASSUME NEW q, q = markTelemetryDegraded(p, w) PROVE Unseen(p, q)
      OBVIOUS
    <2>2. /\ q.session = MarkStale(p.session) /\ DOMAIN q = DOMAIN p
          /\ q.latched = p.latched /\ q.stopTs = p.stopTs /\ q.seen = p.seen /\ q.op = p.op
      BY <1>0 DEF markTelemetryDegraded
    <2> QED
      BY <1>0, <2>1, <2>2 DEF Unseen
  <1>5. Unseen(p, completeSerialSessionOperation(p)) /\ Unseen(p, failSerialSessionOperation(p))
    BY <1>0 DEF completeSerialSessionOperation, failSerialSessionOperation, Unseen
  <1>6. Unseen(p, setJointTarget(p)) /\ Unseen(p, endHardwareSession(p))
    BY <1>0 DEF setJointTarget, endHardwareSession, Unseen
  <1>7. \A sid : Unseen(p, beginHardwareSession(p, sid))
    BY <1>0 DEF beginHardwareSession, Unseen
  <1>8. \A sid, pose : Unseen(p, alignTargetFromMeasured(p, sid, pose))
    BY <1>0 DEF alignTargetFromMeasured, Unseen
  <1>9. Unseen(p, resetSession(p))
    BY <1>0 DEF resetSession, WithRuntime, initialTarget, Unseen
  <1> QED
    BY <1>1, <1>2, <1>3, <1>4, <1>5, <1>6, <1>7, <1>8, <1>9, UnseenCalm

\* The stores back in their first state.
LEMMA DisconnectShown ==
  ASSUME NEW p, PageOK(p), NEW s, HasSid(s), NEW j
  PROVE  /\ Calm(p, completeDisconnect(p, s, j))
         /\ Calm(p, resetSession(WithRuntime(p, initialRuntime)))
  <1> USE DEF PageFields
  <1> DEFINE w == WithRuntime(p, initialRuntime)
             r == resetSession(w)
  <1>1. /\ DOMAIN w = DOMAIN p /\ w.session = showcaseSession /\ w.op = "idle"
        /\ w.latched = NoResult /\ w.stopTs = 0 /\ w.seen = {}
    BY DEF WithRuntime, initialRuntime, PageOK
  <1> HIDE DEF w
  <1>2. /\ DOMAIN r = DOMAIN p /\ r.session = showcaseSession /\ r.op = "idle"
        /\ r.latched = NoResult /\ r.stopTs = 0 /\ r.seen = {}
    BY <1>1 DEF resetSession, WithRuntime, initialTarget, PageOK
  <1>3. HasSid(showcaseSession)
    BY DEF HasSid, showcaseSession
  <1>4. Calm(p, r)
    BY <1>2, <1>3, EmptyLatch DEF Calm, PageOK
  <1>5. completeDisconnect(p, s, j) = [r EXCEPT !.session = s, !.joint = j]
    BY DEF completeDisconnect, w
  <1> HIDE DEF r
  <1> SUFFICES ASSUME NEW q, q = [r EXCEPT !.session = s, !.joint = j] PROVE Calm(p, q)
    BY <1>4, <1>5 DEF r, w
  <1>6. /\ PageFields \subseteq DOMAIN q /\ q.session = s /\ q.op = "idle"
        /\ q.latched = NoResult /\ q.stopTs = 0 /\ q.seen = {}
    BY <1>2 DEF PageOK
  <1> QED
    BY <1>6, EmptyLatch DEF Calm, PageOK

\* The handlers of the coordinator.
LEMMA AcceptSessionCalm ==
  ASSUME NEW p, PageOK(p), NEW v, HasSid(v)
  PROVE  Calm(p, acceptSession(p, v))
  <1> DEFINE a == Trusting(p, v)
             q == IF a.sid = p.observed THEN p
                  ELSE IF ~Closed(a) THEN beginHardwareSession(p, a.sid)
                  ELSE IF a.conn = "offline" THEN resetSession(p)
                  ELSE endHardwareSession(p)
             o == [q EXCEPT !.observed = a.sid]
             r == setSession(o, a)
  <1>1. HasSid(a)
    BY StaleKeepsSid DEF Trusting
  <1>2. Calm(p, q)
    BY StoresCalm DEF Calm
  <1>3. PageOK(q)
    BY <1>2 DEF Calm
  <1> HIDE DEF q, a
  <1>4. Calm(q, o)
    BY <1>3, UnseenCalm DEF Unseen, PageFields, PageOK
  <1>5. PageOK(o)
    BY <1>4 DEF Calm
  <1> HIDE DEF o
  <1>6. Calm(o, r)
    BY <1>1, <1>5, SessionShown
  <1>7. PageOK(r)
    BY <1>6 DEF Calm
  <1> HIDE DEF r
  <1>8. Calm(r, clearTelemetryFallback(r))
    <2>1. Unseen(r, clearTelemetryFallback(r))
      BY <1>7 DEF Unseen, PageFields, PageOK, clearTelemetryFallback
    <2> QED
      BY <1>7, <2>1, UnseenCalm
  <1>9. Calm(clearTelemetryFallback(r), setTransportWarning(clearTelemetryFallback(r), "none"))
    BY <1>8, StoresCalm DEF Calm
  <1>10. acceptSession(p, v) = IF Closed(a)
                               THEN setTransportWarning(clearTelemetryFallback(r), "none")
                               ELSE r
    BY DEF acceptSession, a, q, o, r
  <1> QED
    BY <1>2, <1>4, <1>6, <1>8, <1>9, <1>10 DEF Calm

LEMMA CoordinatorCalm ==
  ASSUME NEW p, PageOK(p)
  PROVE  /\ \A v : Calm(p, acceptJointState(p, v))
         /\ Calm(p, clearTelemetryFallback(p)) /\ Calm(p, degradeTelemetry(p))
         /\ Calm(p, enterTelemetryFallback(p)) /\ Calm(p, recoverAuthority(p))
         /\ Calm(p, LoopOn(p)) /\ Calm(p, refreshCommandAudit(p)) /\ Calm(p, LiveTrust(p))
         /\ Calm(p, AskAudit(p))
  <1>0. \A q, r : Calm(p, q) /\ (PageOK(q) => Calm(q, r)) => Calm(p, r)
    BY DEF Calm
  <1>1. ASSUME NEW v PROVE Calm(p, acceptJointState(p, v))
    <2> DEFINE q == setJointState(p, Trusting(p, v))
    <2>1. Calm(p, q)
      BY StoresCalm
    <2>2. PageOK(q)
      BY <2>1 DEF Calm
    <2>3. \/ acceptJointState(p, v) = q
          \/ \E sid, pose : acceptJointState(p, v) = alignTargetFromMeasured(q, sid, pose)
      BY DEF acceptJointState
    <2> HIDE DEF q
    <2>4. \A sid, pose : Calm(q, alignTargetFromMeasured(q, sid, pose))
      BY <2>2, StoresCalm
    <2> QED
      BY <1>0, <2>1, <2>3, <2>4
  <1>2. Calm(p, clearTelemetryFallback(p))
    <2>1. Unseen(p, clearTelemetryFallback(p))
      BY DEF Unseen, PageFields, PageOK, clearTelemetryFallback
    <2> QED
      BY <2>1, UnseenCalm
  <1>3. ASSUME NEW q, PageOK(q) PROVE Calm(q, degradeTelemetry(q))
    <2> DEFINE r == [q EXCEPT !.trusted = FALSE, !.authority = "none"]
    <2>1. Calm(q, r)
      <3>1. Unseen(q, r)
        BY <1>3 DEF Unseen, PageFields, PageOK
      <3> QED
        BY <1>3, <3>1, UnseenCalm
    <2>2. PageOK(r) /\ degradeTelemetry(q) = markTelemetryDegraded(r, "degraded")
      BY <2>1 DEF Calm, degradeTelemetry
    <2> HIDE DEF r
    <2>3. Calm(r, markTelemetryDegraded(r, "degraded"))
      BY <2>2, StoresCalm
    <2> QED
      BY <2>1, <2>2, <2>3 DEF Calm
  <1>4. Calm(p, enterTelemetryFallback(p))
    <2> DEFINE r == IF p.fallback THEN p ELSE [p EXCEPT !.fallback = TRUE, !.due = TRUE]
    <2>1. Calm(p, r)
      <3>1. Unseen(p, r)
        BY DEF Unseen, PageFields, PageOK
      <3> QED
        BY <3>1, UnseenCalm
    <2>2. PageOK(r) /\ enterTelemetryFallback(p) = degradeTelemetry(r)
      BY <2>1 DEF Calm, enterTelemetryFallback
    <2> HIDE DEF r
    <2> QED
      BY <1>3, <2>1, <2>2 DEF Calm
  <1>5. Unseen(p, recoverAuthority(p)) /\ Unseen(p, LoopOn(p)) /\ Unseen(p, LiveTrust(p))
    BY DEF recoverAuthority, LoopOn, LiveTrust, Unseen, PageFields, PageOK
  <1>6. Calm(p, refreshCommandAudit(p)) /\ Calm(p, AskAudit(p))
    BY StoresCalm DEF refreshCommandAudit, AskAudit, Calm
  <1> QED
    BY <1>1, <1>2, <1>3, <1>4, <1>5, <1>6, UnseenCalm

LEMMA RefreshCalm ==
  ASSUME NEW p, PageOK(p), NEW s, HasSid(s), NEW j
  PROVE  /\ Calm(p, acceptJointState(acceptSession([p EXCEPT !.trusted = TRUE], s), j))
         /\ Calm(p, setJointState(setSession(p, s), j))
  <1> DEFINE t == [p EXCEPT !.trusted = TRUE]
  <1>0. \A x, q, r : Calm(x, q) /\ (PageOK(q) => Calm(q, r)) => Calm(x, r)
    BY DEF Calm
  <1>1. Calm(p, t)
    BY UnseenCalm DEF Unseen, PageFields, PageOK
  <1>2. Calm(t, acceptSession(t, s))
    BY <1>1, AcceptSessionCalm DEF Calm
  <1>3. Calm(acceptSession(t, s), acceptJointState(acceptSession(t, s), j))
    BY <1>2, CoordinatorCalm DEF Calm
  <1>4. Calm(p, setSession(p, s))
    BY SessionShown
  <1>5. Calm(setSession(p, s), setJointState(setSession(p, s), j))
    BY <1>4, StoresCalm DEF Calm
  <1> HIDE DEF t
  <1>6. Calm(p, acceptJointState(acceptSession(t, s), j))
    BY <1>1, <1>2, <1>3 DEF Calm
  <1> QED
    BY <1>4, <1>5, <1>6 DEF Calm, t

-----------------------------------------------------------------------------
(* The invariant                                                           *)

AllReads == Readers \union AuditReaders

\* What is read, answered, logged and sent carries sessions and results.
ReadsOK ==
  /\ DOMAIN reads = AllReads
  /\ \A r \in AllReads : /\ {"pc", "s", "j"} \subseteq DOMAIN reads[r]
                         /\ reads[r].s = NotRead \/ HasSid(reads[r].s)
SrvOK ==
  /\ {"session", "joint", "log", "opened"} \subseteq DOMAIN srv
  /\ HasSid(srv.session) /\ Results(srv.log)
AuditOK == auditRead.n \in 0 .. Len(srv.log)
LifeOK ==
  /\ DOMAIN life = Entries
  /\ \A e \in Entries : /\ {"pc", "r", "s", "j", "n"} \subseteq DOMAIN life[e]
                        /\ life[e].r = NoResult \/ Result(life[e].r)
                        /\ life[e].s \in {NotRead, FailedRead} \/ HasSid(life[e].s)
                        /\ life[e].n \in {-1, -2} \union 0 .. Len(srv.log)
SerialOK ==
  /\ DOMAIN serial = {"connect", "disconnect"}
  /\ {"pc", "s"} \subseteq DOMAIN serial.connect /\ {"pc", "s"} \subseteq DOMAIN serial.disconnect
  /\ serial.connect.s = NotRead \/ HasSid(serial.connect.s)
  /\ serial.connect.pc = "answered" => HasSid(serial.connect.s)
  /\ serial.disconnect.pc \in {"answered", "joint"} => HasSid(serial.disconnect.s)
EventOK(x) ==
  /\ x.type = "session" => HasSid(x.v)
  /\ x.type = "result" => Result(x.v)
Events(q) == \E S : q \in Seq(S) /\ \A x \in S : EventOK(x)

DataOK ==
  /\ ReadsOK /\ SrvOK /\ AuditOK /\ LifeOK /\ SerialOK /\ Events(events) /\ clock \in Nat

WInv == PageOK(page) /\ DataOK /\ NoStuckOperation

\* A read request is made, answered or given up.
ReadsMove == DOMAIN reads' = AllReads /\ \A r \in AllReads : reads'[r] \in {reads[r], Idle, Waiting}

LEMMA ReadsMoveOK ==
  ASSUME ReadsOK, ReadsMove
  PROVE  ReadsOK'
  BY DEF ReadsOK, ReadsMove, Idle, Waiting

LEMMA ReadsSet ==
  ASSUME ReadsOK
  PROVE  /\ \A r \in AllReads, v \in {Idle, Waiting} : reads' = [reads EXCEPT ![r] = v] => ReadsMove
         /\ \A p, q : reads' = RecoveryReads(p, q) => ReadsMove
         /\ \A p : reads' = LoopReads(p) => ReadsMove
         /\ reads' = StartFallbackRead => ReadsMove
         /\ UNCHANGED reads => ReadsMove
  BY DEF ReadsOK, ReadsMove, RecoveryReads, LoopReads, StartFallbackRead, AllReads, Readers

LEMMA NoEvents == Events(<< >>)
  <1>1. PICK S : S = {}
    OBVIOUS
  <1>2. << >> \in Seq(S) /\ \A x \in S : EventOK(x)
    BY <1>1
  <1> QED
    BY <1>2 DEF Events

LEMMA WebInit == Init => WInv
  <1> SUFFICES ASSUME Init PROVE WInv
    OBVIOUS
  <1>1. /\ PageFields \subseteq DOMAIN page /\ page.session = showcaseSession
        /\ page.latched = NoResult /\ page.stopTs = 0 /\ page.seen = {} /\ page.op = "idle"
    BY DEF Init, Beside, initialRuntime, initialTarget, coordinator, PageFields
  <1>2. PageOK(page)
    BY <1>1, EmptyLatch DEF PageOK, HasSid, showcaseSession
  <1>3. NoStuckOperation
    BY <1>1 DEF NoStuckOperation
  <1>4. ReadsOK
    BY DEF Init, ReadsOK, AllReads, Idle, Waiting
  <1>5. SrvOK
    <2>1. srv.session = offlineSession /\ srv.log = << >>
          /\ {"session", "joint", "log", "opened"} \subseteq DOMAIN srv
      BY DEF Init
    <2>2. Results(<< >>)
      <3>1. PICK S : S = {}
        OBVIOUS
      <3>2. << >> \in Seq(S) /\ \A r \in S : Result(r)
        BY <3>1
      <3> QED
        BY <3>2 DEF Results
    <2> QED
      BY <2>1, <2>2 DEF SrvOK, HasSid, offlineSession
  <1>6. AuditOK /\ Len(srv.log) = 0
    BY DEF Init, AuditOK, NoRead
  <1>7. LifeOK
    BY <1>6 DEF Init, LifeOK, NoLife
  <1>8. SerialOK
    BY DEF Init, SerialOK, NoSerial
  <1>9. Events(events) /\ clock \in Nat
    BY NoEvents DEF Init
  <1> QED
    BY <1>2, <1>3, <1>4, <1>5, <1>6, <1>7, <1>8, <1>9 DEF WInv, DataOK

\* A step of the page that leaves the gateway, the commands and the serial
\* operations alone.
LEMMA PageStepKeeps ==
  ASSUME WInv, Calm(page, page'), ReadsOK', auditRead'.n \in 0 .. Len(srv.log),
         Events(events'), UNCHANGED <<life, serial, srv, clock>>
  PROVE  WInv'
  <1>1. AuditOK' /\ SrvOK' /\ LifeOK' /\ SerialOK' /\ clock' \in Nat
    BY DEF WInv, DataOK, AuditOK, SrvOK, LifeOK, SerialOK
  <1>2. NoStuckOperation'
    BY DEF WInv, NoStuckOperation, Calm
  <1>3. PageOK(page)'
    BY DEF Calm
  <1>4. Events(events)'
    OBVIOUS
  <1> QED
    BY <1>1, <1>2, <1>3, <1>4 DEF WInv, DataOK

\* The entries of the log as they stood when a read was answered.
LEMMA HistoryOK ==
  ASSUME SrvOK, NEW n \in 0 .. Len(srv.log)
  PROVE  Results(History(n))
  <1>1. PICK S : srv.log \in Seq(S) /\ \A r \in S : Result(r)
    BY DEF SrvOK, Results
  <1>2. SubSeq(srv.log, 1, n) \in Seq(S)
    BY <1>1
  <1> QED
    BY <1>1, <1>2 DEF Results, History

\* REST reads, and the coordinator's handling of their answers.
LEMMA RequestsKeep ==
  ASSUME WInv, Requests
  PROVE  WInv'
  <1>0. /\ PageOK(page) /\ ReadsOK /\ SrvOK /\ AuditOK /\ Events(events) /\ Calm(page, page)
        /\ Len(srv.log) \in Nat
    BY DEF WInv, DataOK, Calm, SrvOK, Results
  <1>a. UNCHANGED <<life, serial, events, srv, clock>>
    BY DEF Requests, SampleSession, SampleJoint, StartRefreshed, StartFailed,
           RecoveryRefreshed, RecoveryFailed, RecoveryEnded, FallbackRefreshed, FallbackFailed,
           readCurrent, ManualRead, ManualFailed, refreshGateway, GatewayRefreshed,
           GatewayRefreshFailed, DeviceAuditRead, SampleAudit, AuditRefreshed, AuditFailed
  <1>b. Events(events')
    BY <1>0, <1>a
  <1>c. \A x, q, r : Calm(x, q) /\ (PageOK(q) => Calm(q, r)) => Calm(x, r)
    BY DEF Calm
  <1>d. \A q : PageOK(q) => /\ Calm(q, AskAudit(q)) /\ Calm(q, LoopOn(q))
                            /\ \A w : Calm(q, setTransportWarning(q, w))
    BY CoordinatorCalm, StoresCalm
  <1>e. \A r \in AllReads : Answered(r) => HasSid(reads[r].s)
    BY <1>0 DEF Answered, ReadsOK
  <1>f. AuditAsked.n = 0 /\ NoRead.n = 0 /\ auditRead.n \in 0 .. Len(srv.log)
        /\ 0 \in 0 .. Len(srv.log)
    BY <1>0 DEF AuditAsked, NoRead, AuditOK
  <1>g. {"start", "recover", "fallback", "manual", "device", "deviceAudit"} = AllReads
        /\ Readers \subseteq AllReads
    BY DEF AllReads, Readers, AuditReaders
  <1>h. ASSUME NEW r, r \in AllReads, HasSid(reads[r].s)
        PROVE  Calm(page, AuthorityApplied(page, r))
    <2> DEFINE q == acceptJointState(acceptSession([page EXCEPT !.trusted = TRUE], reads[r].s),
                                     reads[r].j)
    <2>1. Calm(page, q)
      BY <1>0, <1>h, RefreshCalm
    <2>2. \E w : AuthorityApplied(page, r) = setTransportWarning(q, w)
      BY DEF AuthorityApplied
    <2> HIDE DEF q
    <2> QED
      BY <1>c, <1>d, <2>1, <2>2
  <1>i. Calm(page, page') /\ ReadsOK' /\ auditRead'.n \in 0 .. Len(srv.log) => WInv'
    BY <1>a, <1>b, PageStepKeeps
  <1>1. ASSUME NEW r \in Readers, SampleSession(r) \/ SampleJoint(r) PROVE WInv'
    <2>1. /\ page' = page /\ auditRead' = auditRead
          /\ \/ reads' = [reads EXCEPT ![r] = [reads[r] EXCEPT !.s = srv.session]]
             \/ reads' = [reads EXCEPT ![r] = [reads[r] EXCEPT !.j = srv.joint]]
      BY <1>0, <1>1, <1>g DEF SampleSession, SampleJoint, ReadsOK
    <2>2. ReadsOK'
      BY <1>0, <1>g, <2>1 DEF ReadsOK, SrvOK
    <2> QED
      BY <1>0, <1>f, <1>i, <2>1, <2>2
  <1>2. CASE StartRefreshed
    <2>1. ReadsOK'
      BY <1>0, <1>2, <1>g, ReadsSet, ReadsMoveOK DEF StartRefreshed
    <2>2. auditRead'.n \in 0 .. Len(srv.log)
      BY <1>2, <1>f DEF StartRefreshed
    <2>3. Calm(page, page')
      <3> DEFINE a == AuthorityApplied(page, "start")
      <3>1. Calm(page, a)
        BY <1>2, <1>e, <1>g, <1>h DEF StartRefreshed
      <3>2. PageOK(a)
        BY <3>1 DEF Calm
      <3> HIDE DEF a
      <3> DEFINE b == [a EXCEPT !.phase = "opening"]
      <3>3. Unseen(a, b)
        BY <3>2 DEF Unseen, PageFields, PageOK
      <3>4. Unseen(page, [page EXCEPT !.phase = "ended"])
        BY <1>0 DEF Unseen, PageFields, PageOK
      <3>5. page' = AskAudit(b) \/ page' = [page EXCEPT !.phase = "ended"]
        BY <1>2 DEF StartRefreshed, a
      <3>6. Calm(a, b) /\ Calm(page, [page EXCEPT !.phase = "ended"])
        BY <1>0, <3>2, <3>3, <3>4, UnseenCalm
      <3> HIDE DEF b
      <3> QED
        BY <1>c, <1>d, <3>1, <3>5, <3>6
    <2> QED
      BY <1>i, <2>1, <2>2, <2>3
  <1>3. CASE StartFailed
    <2>1. ReadsOK' /\ auditRead' = auditRead
      BY <1>0, <1>3, <1>g, ReadsSet, ReadsMoveOK DEF StartFailed
    <2>2. Calm(page, page')
      <3> DEFINE a == IF HoldsAuthority(page, "start") THEN degradeTelemetry(page) ELSE page
      <3>1. Calm(page, a)
        BY <1>0, CoordinatorCalm
      <3>2. PageOK(a) /\ page' = [a EXCEPT !.phase = "ended"]
        BY <1>3, <3>1 DEF Calm, StartFailed
      <3> HIDE DEF a
      <3>3. Unseen(a, page')
        BY <3>2 DEF Unseen, PageFields, PageOK
      <3> QED
        BY <1>c, <3>1, <3>2, <3>3, UnseenCalm
    <2> QED
      BY <1>f, <1>i, <2>1, <2>2
  <1>4. CASE RecoveryRefreshed \/ RecoveryFailed
    <2>1. ReadsOK' /\ auditRead'.n \in 0 .. Len(srv.log)
      BY <1>0, <1>4, <1>f, ReadsSet, ReadsMoveOK DEF RecoveryRefreshed, RecoveryFailed
    <2>2. PICK a : /\ page' = LoopOn(a)
                   /\ \/ a = page
                      \/ a = AskAudit(AuthorityApplied(page, "recover")) /\ Answered("recover")
                      \/ a = degradeTelemetry(page)
      BY <1>4 DEF RecoveryRefreshed, RecoveryFailed
    <2>3. Calm(page, a)
      BY <1>0, <1>c, <1>d, <1>e, <1>g, <1>h, <2>2, CoordinatorCalm
    <2> QED
      BY <1>c, <1>d, <1>i, <2>1, <2>2, <2>3
  <1>5. CASE RecoveryEnded
    <2>1. ReadsOK' /\ auditRead' = auditRead
      BY <1>0, <1>5, ReadsSet, ReadsMoveOK DEF RecoveryEnded
    <2> DEFINE p == [page EXCEPT !.loop = "idle"]
    <2>2. Unseen(page, p)
      BY <1>0 DEF Unseen, PageFields, PageOK
    <2>3. Calm(page, p) /\ PageOK(p)
      BY <1>0, <2>2, UnseenCalm DEF Calm
    <2>4. page' = recoverAuthority(p) \/ page' = p
      BY <1>5 DEF RecoveryEnded
    <2> HIDE DEF p
    <2>5. Calm(p, recoverAuthority(p))
      BY <2>3, CoordinatorCalm
    <2> QED
      BY <1>c, <1>f, <1>i, <2>1, <2>3, <2>4, <2>5
  <1>6. CASE FallbackRefreshed \/ FallbackFailed
    <2>1. ReadsOK' /\ auditRead' = auditRead
      BY <1>0, <1>6, <1>g, ReadsSet, ReadsMoveOK DEF FallbackRefreshed, FallbackFailed
    <2>2. Calm(page, page')
      <3> DEFINE q == acceptJointState(acceptSession([page EXCEPT !.trusted = TRUE],
                                         reads["fallback"].s), reads["fallback"].j)
      <3>1. FallbackRefreshed => Calm(page, q)
        BY <1>0, <1>e, <1>g, RefreshCalm DEF FallbackRefreshed
      <3>2. Calm(page, degradeTelemetry(page))
        BY <1>0, CoordinatorCalm
      <3>3. \/ page' = page
            \/ FallbackRefreshed /\ (page' = q \/ page' = setTransportWarning(q, "fallback"))
            \/ page' = degradeTelemetry(page)
        BY <1>6 DEF FallbackRefreshed, FallbackFailed
      <3> HIDE DEF q
      <3> QED
        BY <1>0, <1>c, <1>d, <3>1, <3>2, <3>3
    <2> QED
      BY <1>f, <1>i, <2>1, <2>2
  <1>7. CASE readCurrent
    BY <1>0, <1>7, <1>f, <1>g, <1>i, ReadsSet, ReadsMoveOK DEF readCurrent
  <1>8. CASE ManualRead
    <2>1. Calm(page, page')
      BY <1>0, <1>8, <1>e, <1>g, RefreshCalm DEF ManualRead
    <2> QED
      BY <1>0, <1>8, <1>f, <1>g, <1>i, <2>1, ReadsSet, ReadsMoveOK DEF ManualRead
  <1>9. CASE ManualFailed \/ GatewayRefreshFailed
    <2>1. Calm(page, page')
      BY <1>0, <1>9, StoresCalm DEF ManualFailed, GatewayRefreshFailed
    <2> QED
      BY <1>0, <1>9, <1>f, <1>g, <1>i, <2>1, ReadsSet, ReadsMoveOK
      DEF ManualFailed, GatewayRefreshFailed
  <1>10. CASE refreshGateway
    <2>1. Unseen(page, page')
      BY <1>0, <1>10 DEF refreshGateway, Unseen, PageFields, PageOK
    <2> QED
      BY <1>0, <1>10, <1>f, <1>g, <1>i, <2>1, UnseenCalm, ReadsSet, ReadsMoveOK
      DEF refreshGateway
  <1>11. CASE GatewayRefreshed
    <2> DEFINE q == setJointState(setSession(page, reads["device"].s), reads["device"].j)
    <2>1. Calm(page, q)
      BY <1>0, <1>11, <1>e, <1>g, RefreshCalm DEF GatewayRefreshed
    <2>2. PICK p : /\ page' = refreshCommandAudit(p)
                   /\ p = markTelemetryDegraded(q, "degraded") \/ p = setTransportWarning(q, "none")
      BY <1>11 DEF GatewayRefreshed
    <2> HIDE DEF q
    <2>3. Calm(q, p)
      BY <2>1, <2>2, StoresCalm DEF Calm
    <2>4. Calm(p, page')
      BY <2>2, <2>3, CoordinatorCalm DEF Calm
    <2>5. Calm(page, page')
      BY <1>c, <2>1, <2>3, <2>4
    <2>6. ReadsMove
      BY <1>0, <1>11, <1>g DEF GatewayRefreshed, ReadsMove, ReadsOK
    <2>7. auditRead' = auditRead
      BY <1>11 DEF GatewayRefreshed
    <2> QED
      BY <1>0, <1>f, <1>i, <2>5, <2>6, <2>7, ReadsMoveOK
  <1>12. CASE DeviceAuditRead
    <2>1. Calm(page, page')
      BY <1>0, <1>12, HistoryShown, StoresCalm DEF DeviceAuditRead, SrvOK
    <2> QED
      BY <1>0, <1>12, <1>f, <1>g, <1>i, <2>1, ReadsSet, ReadsMoveOK DEF DeviceAuditRead
  <1>13. CASE SampleAudit
    <2>1. page' = page /\ reads' = reads /\ auditRead'.n = Len(srv.log)
      BY <1>13 DEF SampleAudit
    <2> QED
      BY <1>0, <1>i, <2>1, ReadsSet, ReadsMoveOK
  <1>14. CASE AuditRefreshed \/ AuditFailed
    <2>1. Calm(page, page')
      BY <1>0, <1>14, <1>f, HistoryOK, HistoryShown, StoresCalm DEF AuditRefreshed, AuditFailed
    <2>2. reads' = reads /\ auditRead' = NoRead
      BY <1>14 DEF AuditRefreshed, AuditFailed
    <2> QED
      BY <1>0, <1>f, <1>i, <2>1, <2>2, ReadsSet, ReadsMoveOK
  <1> QED
    BY <1>1, <1>2, <1>3, <1>4, <1>5, <1>6, <1>7, <1>8, <1>9, <1>10, <1>11, <1>12, <1>13, <1>14
    DEF Requests

\* A page with some of the coordinator's own fields changed.
LEMMA OwnFieldsCalm ==
  ASSUME NEW p, PageOK(p), NEW q, DOMAIN q = DOMAIN p,
         \A f \in PageFields : q[f] = p[f]
  PROVE  Calm(p, q)
  <1>1. Unseen(p, q)
    <2>1. /\ q.session = p.session /\ q.latched = p.latched /\ q.stopTs = p.stopTs
          /\ q.seen = p.seen /\ q.op = p.op
      BY DEF PageFields
    <2> QED
      BY <2>1 DEF Unseen, PageOK
  <1> QED
    BY <1>1, UnseenCalm

\* Taking the oldest event off the queue.
LEMMA EventTaken ==
  ASSUME Events(events), events # << >>
  PROVE  Events(Tail(events)) /\ EventOK(Head(events))
  <1>1. PICK S : events \in Seq(S) /\ \A x \in S : EventOK(x)
    BY DEF Events
  <1>2. Tail(events) \in Seq(S) /\ Head(events) \in S
    BY <1>1
  <1> QED
    BY <1>1, <1>2 DEF Events

\* The SignalR channel, its watchdog and the profile that leaves.
LEMMA ChannelKeep ==
  ASSUME WInv, Channel
  PROVE  WInv'
  <1>0. /\ PageOK(page) /\ ReadsOK /\ SrvOK /\ AuditOK /\ Events(events) /\ Calm(page, page)
        /\ Len(srv.log) \in Nat
    BY DEF WInv, DataOK, Calm, SrvOK, Results
  <1>a. UNCHANGED <<life, serial, srv, clock>>
    BY DEF Channel, HubOpened, HubOpenFailed, HubDropped, HubReconnected, HubClosed, OnSession,
           OnJointState, OnCommandResult, ContractViolation, TimePasses, WatchdogTick,
           switchProfile
  <1>b. auditRead'.n \in 0 .. Len(srv.log)
    <2>1. auditRead' = auditRead \/ auditRead' = AuditAsked
      BY DEF Channel, HubOpened, HubOpenFailed, HubDropped, HubReconnected, HubClosed, OnSession,
             OnJointState, OnCommandResult, ContractViolation, TimePasses, WatchdogTick,
             switchProfile
    <2> QED
      BY <1>0, <2>1 DEF AuditOK, AuditAsked
  <1>c. Events(events')
    <2>1. events' = events \/ events' = << >> \/ (events # << >> /\ events' = Tail(events))
      BY DEF Channel, HubOpened, HubOpenFailed, HubDropped, HubReconnected, HubClosed, OnSession,
             OnJointState, OnCommandResult, ContractViolation, TimePasses, WatchdogTick,
             switchProfile
    <2> QED
      BY <1>0, <2>1, EventTaken, NoEvents
  <1>d. ReadsOK'
    <2>1. \/ reads' = reads \/ reads' = StartFallbackRead
          \/ \E p, q : reads' = RecoveryReads(p, q)
      BY DEF Channel, HubOpened, HubOpenFailed, HubDropped, HubReconnected, HubClosed, OnSession,
             OnJointState, OnCommandResult, ContractViolation, TimePasses, WatchdogTick,
             switchProfile
    <2> QED
      BY <1>0, <2>1, ReadsSet, ReadsMoveOK
  <1>e. \A x, q, r : Calm(x, q) /\ (PageOK(q) => Calm(q, r)) => Calm(x, r)
    BY DEF Calm
  <1> SUFFICES Calm(page, page')
    BY <1>a, <1>b, <1>c, <1>d, PageStepKeeps
  <1>1. CASE HubOpened \/ HubOpenFailed
    <2>1. PICK q : /\ page' = q \/ page' = enterTelemetryFallback(q)
                   /\ \/ q = [page EXCEPT !.phase = "live", !.live = TRUE, !.watchdog = TRUE]
                      \/ q = [page EXCEPT !.phase = "live", !.watchdog = TRUE]
                      \/ q = [page EXCEPT !.phase = "ended"]
      BY <1>1 DEF HubOpened, HubOpenFailed
    <2>2. Calm(page, q)
      <3>1. DOMAIN q = DOMAIN page /\ \A f \in PageFields : q[f] = page[f]
        BY <1>0, <2>1 DEF PageFields, PageOK
      <3> QED
        BY <1>0, <3>1, OwnFieldsCalm
    <2> QED
      BY <1>e, <2>1, <2>2, CoordinatorCalm
  <1>2. CASE HubDropped \/ HubClosed
    <2>1. page' = page \/ page' = enterTelemetryFallback(page)
      BY <1>2 DEF HubDropped, HubClosed
    <2> QED
      BY <1>0, <2>1, CoordinatorCalm
  <1>3. CASE HubReconnected
    <2>1. page' = page \/ page' = recoverAuthority(page)
      BY <1>3 DEF HubReconnected
    <2> QED
      BY <1>0, <2>1, CoordinatorCalm
  <1>4. CASE OnSession
    <2>1. HasSid(Head(events).v)
      BY <1>0, <1>4, EventTaken DEF OnSession, Head1, EventOK
    <2>2. PICK q : /\ q = page \/ q = acceptSession(page, Head(events).v)
                   /\ page' = q \/ page' = AskAudit(q)
      BY <1>4 DEF OnSession, Head1
    <2>3. Calm(page, q)
      BY <1>0, <2>1, <2>2, AcceptSessionCalm
    <2> QED
      BY <1>e, <2>2, <2>3, CoordinatorCalm
  <1>5. CASE OnJointState
    <2> DEFINE p == LiveTrust(page)
               w == setTransportWarning(p, "none")
               c == clearTelemetryFallback(w)
               q == IF p.fallback THEN c ELSE p
    <2>1. page' = page \/ page' = acceptJointState(q, Head(events).v)
      BY <1>5 DEF OnJointState, Head1
    <2>2. Calm(page, p)
      BY <1>0, CoordinatorCalm
    <2> HIDE DEF p
    <2>3. Calm(page, w)
      BY <1>e, <2>2, StoresCalm
    <2> HIDE DEF w
    <2>4. Calm(page, c)
      BY <1>e, <2>3, CoordinatorCalm
    <2> HIDE DEF c
    <2>5. Calm(page, q)
      BY <2>2, <2>4
    <2> HIDE DEF q
    <2> QED
      BY SMTT(30), <1>0, <1>e, <2>1, <2>5, CoordinatorCalm
  <1>6. CASE OnCommandResult
    <2>1. Result(Head(events).v)
      BY <1>0, <1>6, EventTaken DEF OnCommandResult, Head1, EventOK
    <2>2. Calm(page, setLastCommandResult(page, Head(events).v))
      BY <1>0, <2>1, ResultShown
    <2>3. page' = page \/ page' = AskAudit(setLastCommandResult(page, Head(events).v))
      BY <1>6 DEF OnCommandResult, Head1
    <2> QED
      BY SMTT(30), <1>0, <1>e, <2>2, <2>3, CoordinatorCalm
  <1>7. CASE ContractViolation
    <2>1. page' = page \/ page' = recoverAuthority(enterTelemetryFallback(page))
      BY <1>7 DEF ContractViolation
    <2>2. Calm(page, enterTelemetryFallback(page))
      BY <1>0, CoordinatorCalm
    <2> QED
      BY <1>0, <1>e, <2>1, <2>2, CoordinatorCalm
  <1>8. CASE TimePasses
    <2>1. DOMAIN page' = DOMAIN page /\ \A f \in PageFields : page'[f] = page[f]
      BY <1>0, <1>8 DEF TimePasses, PageFields, PageOK
    <2> QED
      BY <1>0, <2>1, OwnFieldsCalm
  <1>9. CASE WatchdogTick
    <2>1. PICK p : /\ p = page \/ p = enterTelemetryFallback(page)
                   /\ \/ page' = [page EXCEPT !.live = TRUE] \/ page' = p
                      \/ page' = [p EXCEPT !.due = FALSE]
      BY <1>9 DEF WatchdogTick
    <2>2. Calm(page, p) /\ PageOK(p)
      BY <1>0, <2>1, CoordinatorCalm DEF Calm
    <2>3. Calm(page, [page EXCEPT !.live = TRUE])
      <3>1. /\ DOMAIN [page EXCEPT !.live = TRUE] = DOMAIN page
            /\ \A f \in PageFields : [page EXCEPT !.live = TRUE][f] = page[f]
        BY <1>0 DEF PageFields, PageOK
      <3> QED
        BY <1>0, <3>1, OwnFieldsCalm
    <2>4. Calm(p, [p EXCEPT !.due = FALSE])
      <3>1. /\ DOMAIN [p EXCEPT !.due = FALSE] = DOMAIN p
            /\ \A f \in PageFields : [p EXCEPT !.due = FALSE][f] = p[f]
        BY <2>2 DEF PageFields, PageOK
      <3> QED
        BY <2>2, <3>1, OwnFieldsCalm
    <2> QED
      BY <1>e, <2>1, <2>2, <2>3, <2>4
  <1>10. CASE switchProfile
    <2> DEFINE r == resetSession(WithRuntime(page, initialRuntime))
    <2>0. HasSid(showcaseSession)
      BY DEF HasSid, showcaseSession
    <2>1. Calm(page, r)
      BY <1>0, <2>0, DisconnectShown
    <2>2. PageOK(r)
      BY <2>1 DEF Calm
    <2>3. page' = [r EXCEPT !.active = FALSE, !.watchdog = FALSE,
                            !.phase = IF @ = "live" THEN "ended" ELSE @]
      BY <1>10 DEF switchProfile
    <2> HIDE DEF r
    <2>4. DOMAIN page' = DOMAIN r /\ \A f \in PageFields : page'[f] = r[f]
      BY <2>2, <2>3 DEF PageFields, PageOK
    <2>5. Calm(r, page')
      BY <2>2, <2>4, OwnFieldsCalm
    <2> QED
      BY <1>e, <2>1, <2>5
  <1> QED
    BY <1>1, <1>2, <1>3, <1>4, <1>5, <1>6, <1>7, <1>8, <1>9, <1>10 DEF Channel

\* What the gateway sends while the channel is up; the oldest events give way.
LEMMA Published ==
  ASSUME Events(events), NEW N \in Nat, NEW es, DOMAIN es = 1 .. N,
         \A i \in 1 .. N : EventOK(Sent(es[i])), Publish(es)
  PROVE  Events(events')
  <1> DEFINE sent == [i \in DOMAIN es |-> Sent(es[i])]
             q == events \o sent
             first == IF Len(q) > QueueLimit THEN Len(q) - QueueLimit + 1 ELSE 1
  <1>1. PICK S : events \in Seq(S) /\ \A x \in S : EventOK(x)
    BY DEF Events
  <1> DEFINE T == S \union {sent[i] : i \in 1 .. N}
  <1>2. \A x \in T : EventOK(x)
    BY <1>1
  <1>3. events \in Seq(T) /\ sent \in Seq(T)
    BY <1>1
  <1> HIDE DEF T, sent
  <1>4. q \in Seq(T) /\ Len(q) \in Nat
    BY <1>3
  <1>5. first \in Nat /\ first >= 1
    BY <1>4, WebSessionAssumption
  <1> HIDE DEF q, first
  <1>6. SubSeq(q, first, Len(q)) \in Seq(T)
    <2>1. \A i \in first .. Len(q) : q[i] \in T
      BY <1>4, <1>5
    <2> QED
      BY <1>4, <1>5, <2>1
  <1>7. events' = events \/ events' = SubSeq(q, first, Len(q))
    BY DEF Publish, q, sent, first
  <1> QED
    BY <1>1, <1>2, <1>6, <1>7 DEF Events

\* One more entry of a log keeps it a log of results.
LEMMA LogGrows ==
  ASSUME NEW h, Results(h), NEW r, Result(r)
  PROVE  /\ Results(Append(h, r)) /\ Len(h) \in Nat
         /\ Len(Append(h, r)) = Len(h) + 1
  <1>1. PICK S : h \in Seq(S) /\ \A x \in S : Result(x)
    BY DEF Results
  <1>2. h \in Seq(S \union {r})
    BY <1>1
  <1>3. Append(h, r) \in Seq(S \union {r}) /\ Len(Append(h, r)) = Len(h) + 1
    BY <1>2
  <1>4. \A x \in S \union {r} : Result(x)
    BY <1>1
  <1> QED
    BY <1>1, <1>3, <1>4 DEF Results

\* The settled reads of a command are applied like any other.
LEMMA SettleCalm ==
  ASSUME NEW p, PageOK(p), SrvOK
  PROVE  /\ \A e, failed : Calm(p, StopWarning(p, e, failed))
         /\ \A s, j : s = FailedRead \/ HasSid(s) => Calm(p, SnapshotSettled(p, s, j))
         /\ \A n \in {-2} \union 0 .. Len(srv.log) : Calm(p, AuditSettled(p, n))
  <1>0. \A q, r : Calm(p, q) /\ (PageOK(q) => Calm(q, r)) => Calm(p, r)
    BY DEF Calm
  <1>1. ASSUME NEW e, NEW failed PROVE Calm(p, StopWarning(p, e, failed))
    BY StoresCalm DEF StopWarning, Calm
  <1>2. ASSUME NEW s, NEW j, s = FailedRead \/ HasSid(s) PROVE Calm(p, SnapshotSettled(p, s, j))
    <2> DEFINE q == setJointState(setSession(p, s), j)
    <2>1. s # FailedRead => Calm(p, q)
      BY <1>2, RefreshCalm
    <2>2. \/ SnapshotSettled(p, s, j) = markTelemetryDegraded(p, "degraded")
          \/ s # FailedRead /\ SnapshotSettled(p, s, j) = q
          \/ s # FailedRead /\ \E w : SnapshotSettled(p, s, j) = markTelemetryDegraded(q, w)
      BY DEF SnapshotSettled
    <2> HIDE DEF q
    <2> QED
      BY <1>0, <2>1, <2>2, StoresCalm
  <1>3. ASSUME NEW n \in {-2} \union 0 .. Len(srv.log) PROVE Calm(p, AuditSettled(p, n))
    <2>1. CASE n = -2
      BY <2>1, StoresCalm DEF AuditSettled
    <2>2. CASE n # -2
      BY <2>2, HistoryOK, HistoryShown DEF AuditSettled
    <2> QED
      BY <2>1, <2>2
  <1> QED
    BY <1>1, <1>2, <1>3

\* A command entry starts, moves on, or is done.
LEMMA LifeMoves ==
  ASSUME LifeOK, NEW e \in Entries, NEW v, life' = [life EXCEPT ![e] = v], srv' = srv,
         {"pc", "r", "s", "j", "n"} \subseteq DOMAIN v,
         v.r = NoResult \/ Result(v.r),
         v.s \in {NotRead, FailedRead} \/ HasSid(v.s),
         v.n \in {-1, -2} \union 0 .. Len(srv.log)
  PROVE  LifeOK'
  BY DEF LifeOK

\* Command entries, the operator's target and the gateway's answers.
LEMMA CommandsKeep ==
  ASSUME WInv, Commands
  PROVE  WInv'
  <1>0. /\ PageOK(page) /\ SrvOK /\ LifeOK /\ Events(events) /\ Calm(page, page)
        /\ clock \in Nat /\ Len(srv.log) \in Nat
    BY DEF WInv, DataOK, Calm, SrvOK, Results
  <1>a. \A x, q, r : Calm(x, q) /\ (PageOK(q) => Calm(q, r)) => Calm(x, r)
    BY DEF Calm
  <1>b. ASSUME Calm(page, page'), LifeOK', clock' \in Nat, Events(events'),
               UNCHANGED <<reads, auditRead, serial, srv>>
        PROVE  WInv'
    <2>1. ReadsOK' /\ SrvOK' /\ AuditOK' /\ SerialOK'
      BY <1>b DEF WInv, DataOK, ReadsOK, SrvOK, AuditOK, SerialOK
    <2>2. NoStuckOperation'
      BY <1>b DEF WInv, NoStuckOperation, Calm
    <2>3. PageOK(page)'
      BY <1>b DEF Calm
    <2> QED
      BY <1>b, <2>1, <2>2, <2>3 DEF WInv, DataOK
  <1>c. /\ {"pc", "id", "sid", "r", "s", "j", "n"} = DOMAIN NoLife
        /\ NoLife.r = NoResult /\ NoLife.s = NotRead /\ NoLife.n = -1
    BY DEF NoLife
  <1>d. \A e \in Entries : life' = [life EXCEPT ![e] = NoLife] /\ srv' = srv => LifeOK'
    BY <1>0, <1>c, LifeMoves
  <1>1. CASE EditTarget
    <2>1. Calm(page, page')
      BY <1>0, <1>1, StoresCalm DEF EditTarget
    <2>2. LifeOK'
      BY <1>0, <1>1 DEF EditTarget, LifeOK
    <2> QED
      BY <1>0, <1>1, <1>b, <2>1, <2>2 DEF EditTarget
  <1>2. ASSUME NEW e \in Entries, Submit(e) PROVE WInv'
    <2>1. DOMAIN page' = DOMAIN page /\ \A f \in PageFields : page'[f] = page[f]
      BY <1>0, <1>2 DEF Submit, PageFields, PageOK
    <2>2. Calm(page, page')
      BY <1>0, <2>1, OwnFieldsCalm
    <2>3. LifeOK'
      <3> DEFINE v == [NoLife EXCEPT !.pc = "exec", !.id = used'.commands,
                                     !.sid = page.session.sid]
      <3>1. life' = [life EXCEPT ![e] = v] /\ srv' = srv
        BY <1>2 DEF Submit
      <3>2. /\ DOMAIN v = DOMAIN NoLife /\ v.r = NoResult /\ v.s = NotRead /\ v.n = -1
        BY <1>c
      <3> HIDE DEF v
      <3> QED
        BY <1>0, <1>c, <3>1, <3>2, LifeMoves
    <2> QED
      BY <1>0, <1>2, <1>b, <2>2, <2>3 DEF Submit
  <1>3. ASSUME NEW e \in Entries, Returned(e) PROVE WInv'
    <2> DEFINE p == setLastCommandResult(page, life[e].r)
    <2>1. Result(life[e].r)
      BY <1>0, <1>3 DEF Returned, LifeOK
    <2>2. Calm(page, p)
      BY <1>0, <2>1, ResultShown
    <2>3. page' = beginCommandAuditRefresh(p) \/ page' = StopWarning(p, e, FALSE)
      BY <1>3 DEF Returned
    <2> HIDE DEF p
    <2>4. Calm(page, page')
      BY <1>0, <1>a, <2>2, <2>3, StoresCalm, SettleCalm
    <2>5. LifeOK'
      <3>1. CASE life' = [life EXCEPT ![e] = NoLife]
        BY <1>3, <1>d, <3>1 DEF Returned
      <3>2. CASE life' = [life EXCEPT ![e].pc = "settle"]
        BY <1>0, <1>3, <3>2 DEF Returned, LifeOK
      <3> QED
        BY <1>3, <3>1, <3>2 DEF Returned
    <2> QED
      BY <1>0, <1>3, <1>b, <2>4, <2>5 DEF Returned
  <1>4. ASSUME NEW e \in Entries, AnswerLost(e) PROVE WInv'
    <2> DEFINE r == createUnconfirmedTransportResult(life[e].id, life[e].sid, e, clock')
               l == setLastCommandResult(page, r)
               p == markTelemetryDegraded(l, "degraded")
    <2>1. clock' \in Nat /\ Result(r)
      BY <1>0, <1>4 DEF AnswerLost, Result, createUnconfirmedTransportResult
    <2>2. Calm(page, l)
      BY <1>0, <2>1, ResultShown
    <2>3. page' = failCommandAuditRefresh(p) \/ page' = p
      BY <1>4 DEF AnswerLost
    <2> HIDE DEF l
    <2>4. Calm(page, p)
      BY <1>a, <2>2, StoresCalm
    <2> HIDE DEF p
    <2>5. Calm(page, page')
      BY <1>a, <2>3, <2>4, StoresCalm
    <2>6. LifeOK'
      BY <1>4, <1>d DEF AnswerLost
    <2> QED
      BY <1>0, <1>4, <1>b, <2>1, <2>5, <2>6 DEF AnswerLost
  <1>5. ASSUME NEW e \in Entries, SettleSnapshot(e) \/ SettleAudit(e) PROVE WInv'
    <2>1. UNCHANGED <<page, reads, auditRead, serial, events, srv, clock>>
      BY <1>5 DEF SettleSnapshot, SettleAudit
    <2>2. LifeOK'
      <3>1. \/ life' = [life EXCEPT ![e] = [life[e] EXCEPT !.s = srv.session, !.j = srv.joint]]
            \/ life' = [life EXCEPT ![e] = [life[e] EXCEPT !.s = FailedRead, !.j = FailedRead]]
            \/ life' = [life EXCEPT ![e] = [life[e] EXCEPT !.n = Len(srv.log)]]
            \/ life' = [life EXCEPT ![e] = [life[e] EXCEPT !.n = -2]]
        BY <1>0, <1>5 DEF SettleSnapshot, SettleAudit, LifeOK
      <3>2. HasSid(srv.session) /\ srv' = srv
        BY <1>0, <2>1 DEF SrvOK
      <3>3. PICK v : /\ life' = [life EXCEPT ![e] = v]
                     /\ \/ v = [life[e] EXCEPT !.s = srv.session, !.j = srv.joint]
                        \/ v = [life[e] EXCEPT !.s = FailedRead, !.j = FailedRead]
                        \/ v = [life[e] EXCEPT !.n = Len(srv.log)]
                        \/ v = [life[e] EXCEPT !.n = -2]
        BY <3>1
      <3>4. /\ {"pc", "r", "s", "j", "n"} \subseteq DOMAIN life[e]
            /\ life[e].r = NoResult \/ Result(life[e].r)
            /\ life[e].s \in {NotRead, FailedRead} \/ HasSid(life[e].s)
            /\ life[e].n \in {-1, -2} \union 0 .. Len(srv.log)
        BY <1>0, <1>5 DEF LifeOK
      <3>5. DOMAIN v = DOMAIN life[e] /\ v.r = life[e].r
        BY <3>3, <3>4
      <3>6. v.s \in {life[e].s, srv.session, FailedRead}
        BY <3>3, <3>4
      <3>7. v.n \in {life[e].n, Len(srv.log), -2}
        BY <3>3, <3>4
      <3>8. v.n \in {-1, -2} \union 0 .. Len(srv.log)
        BY <1>0, <3>4, <3>7
      <3> QED
        BY <1>0, <3>2, <3>3, <3>4, <3>5, <3>6, <3>8, LifeMoves
    <2>3. Calm(page, page') /\ Events(events') /\ clock' \in Nat
      BY <1>0, <2>1
    <2> QED
      BY <1>b, <2>1, <2>2, <2>3
  <1>6. ASSUME NEW e \in Entries, Settled(e) PROVE WInv'
    <2> DEFINE s == SnapshotSettled(page, life[e].s, life[e].j)
               a == AuditSettled(s, life[e].n)
    <2>1. life[e].s = FailedRead \/ HasSid(life[e].s)
      BY <1>0, <1>6 DEF Settled, LifeOK
    <2>2. life[e].n \in {-2} \union 0 .. Len(srv.log)
      BY <1>0, <1>6 DEF Settled, LifeOK
    <2>3. \/ \E failed : page' = StopWarning(a, e, failed)
          \/ page' = StopWarning(page, e, FALSE)
      BY <1>6 DEF Settled
    <2>4. Calm(page, s)
      BY <1>0, <2>1, SettleCalm
    <2> HIDE DEF s
    <2>5. Calm(page, a)
      BY <1>0, <1>a, <2>2, <2>4, SettleCalm
    <2> HIDE DEF a
    <2>6. Calm(page, page')
      BY <1>0, <1>a, <2>3, <2>5, SettleCalm
    <2>7. LifeOK'
      BY <1>6, <1>d DEF Settled
    <2> QED
      BY <1>0, <1>6, <1>b, <2>6, <2>7 DEF Settled
  <1>7. ASSUME NEW e \in Entries, SrvExecute(e) PROVE WInv'
    <2>0. UNCHANGED <<page, reads, auditRead, serial>> /\ clock' = clock + 1
      BY <1>7 DEF SrvExecute
    <2>1. PICK r : /\ Result(r)
                   /\ life' = [life EXCEPT ![e] = [life[e] EXCEPT !.r = r]]
                   /\ \/ srv' = srv /\ events' = events
                      \/ srv' = [srv EXCEPT !.log = Append(@, r)] /\ Publish(<<<<"result", r>>>>)
      <3>1. \A st : Result([id |-> life[e].id, sid |-> life[e].sid, kind |-> e,
                            status |-> st, ts |-> clock'])
        BY <1>0, <2>0 DEF Result
      <3> QED
        BY <1>7, <3>1 DEF SrvExecute
    <2>2. CASE srv' = srv /\ events' = events
      <3>1. LifeOK'
        BY <1>0, <2>1, <2>2 DEF LifeOK
      <3>2. Calm(page, page') /\ Events(events') /\ clock' \in Nat
        BY <1>0, <2>0, <2>2
      <3> QED
        BY <1>b, <2>0, <2>2, <3>1, <3>2
    <2>3. CASE srv' = [srv EXCEPT !.log = Append(@, r)] /\ Publish(<<<<"result", r>>>>)
      <3>1. /\ DOMAIN srv' = DOMAIN srv /\ srv'.session = srv.session
            /\ srv'.log = Append(srv.log, r)
        BY <1>0, <2>3 DEF SrvOK
      <3>2. /\ SrvOK' /\ Len(srv'.log) = Len(srv.log) + 1
        BY <1>0, <2>1, <3>1, LogGrows DEF SrvOK
      <3>3. AuditOK' /\ LifeOK'
        BY <1>0, <2>0, <2>1, <3>2 DEF WInv, DataOK, AuditOK, LifeOK
      <3>4. Events(events')
        <4> DEFINE es == <<<<"result", r>>>>
        <4>1. DOMAIN es = 1 .. 1 /\ es[1] = <<"result", r>>
          OBVIOUS
        <4>2. \A i \in 1 .. 1 : EventOK(Sent(es[i]))
          BY <2>1, <4>1 DEF EventOK, Sent
        <4>3. Publish(es)
          BY <2>3
        <4> HIDE DEF es
        <4> QED
          BY <1>0, <4>1, <4>2, <4>3, Published
      <3>5. ReadsOK' /\ SerialOK' /\ NoStuckOperation' /\ PageOK(page)' /\ clock' \in Nat
        BY <1>0, <2>0 DEF WInv, DataOK, ReadsOK, SerialOK, NoStuckOperation
      <3> QED
        BY <3>2, <3>3, <3>4, <3>5 DEF WInv, DataOK
    <2> QED
      BY <2>1, <2>2, <2>3
  <1> QED
    BY <1>1, <1>2, <1>3, <1>4, <1>5, <1>6, <1>7 DEF Commands

\* A connect or disconnect moves on; page, log and queue allowing.
LEMMA SerialStepKeeps ==
  ASSUME WInv, PageOK(page)', SerialOK', NoStuckOperation', Events(events'), SrvOK',
         srv'.log = srv.log, UNCHANGED <<reads, auditRead, life, clock>>
  PROVE  WInv'
  <1>1. ReadsOK' /\ AuditOK' /\ LifeOK' /\ clock' \in Nat
    BY DEF WInv, DataOK, ReadsOK, AuditOK, LifeOK
  <1>2. Events(events)'
    OBVIOUS
  <1> QED
    BY <1>1, <1>2 DEF WInv, DataOK

\* The serial session control, and the gateway's serial session.
LEMMA SerialKeep ==
  ASSUME WInv, Serial
  PROVE  WInv'
  <1>0. /\ PageOK(page) /\ SrvOK /\ SerialOK /\ NoStuckOperation /\ Events(events)
        /\ Calm(page, page)
    BY DEF WInv, DataOK, Calm
  <1>a. \A x, q, r : Calm(x, q) /\ (PageOK(q) => Calm(q, r)) => Calm(x, r)
    BY DEF Calm
  <1>b. UNCHANGED <<reads, auditRead, life, clock>>
    BY DEF Serial, Connect, Connected, ConnectFailed, ConnectGatewayFailed, ConnectSampled,
           ConnectChecked, Disconnect, Disconnected, DisconnectFailed, DisconnectCompleted,
           SrvConnect, SrvDisconnect, SrvPoll, SrvFault
  <1>c. HasSid(offlineSession) /\ HasSid(srv.session)
    BY <1>0 DEF HasSid, offlineSession, SrvOK
  <1>d. ASSUME PageOK(page)', SerialOK', NoStuckOperation', UNCHANGED <<srv, events>>
        PROVE  WInv'
    BY <1>0, <1>b, <1>d, SerialStepKeeps DEF SrvOK
  <1>1. CASE Connect \/ Disconnect
    <2>1. /\ UNCHANGED <<srv, events>> /\ page' = [page EXCEPT !.op = page'.op]
          /\ \/ /\ page'.op = "connecting"
                /\ serial' = [serial EXCEPT !.connect = [serial.connect EXCEPT !.pc = "sent"]]
             \/ /\ page'.op = "disconnecting"
                /\ serial' = [serial EXCEPT !.disconnect
                                                 = [serial.disconnect EXCEPT !.pc = "sent"]]
      BY <1>0, <1>1
      DEF Connect, Disconnect, beginSerialSessionOperation, PageOK, PageFields, SerialOK
    <2>2. /\ DOMAIN page' = DOMAIN page /\ page'.session = page.session
          /\ page'.latched = page.latched /\ page'.stopTs = page.stopTs
          /\ page'.seen = page.seen
      BY <1>0, <2>1 DEF PageOK, PageFields
    <2>3. PageOK(page)'
      BY <1>0, <2>2 DEF PageOK
    <2>4. SerialOK'
      BY <1>0, <2>1 DEF SerialOK
    <2>5. NoStuckOperation'
      BY <1>0, <2>1 DEF NoStuckOperation, SerialOK
    <2> QED
      BY <1>d, <2>1, <2>3, <2>4, <2>5
  <1>2. CASE Connected
    <2> DEFINE c == completeSerialSessionOperation(page)
               h == beginHardwareSession(c, serial.connect.s.sid)
    <2>1. HasSid(serial.connect.s)
      BY <1>0, <1>2 DEF Connected, SerialOK
    <2>2. Calm(page, c) /\ c.op = "idle"
      BY <1>0, StoresCalm DEF completeSerialSessionOperation, PageOK, PageFields
    <2>3. page' = setSession(h, serial.connect.s)
      BY <1>2 DEF Connected
    <2> HIDE DEF c
    <2>4. Calm(c, h)
      BY <2>2, StoresCalm DEF Calm
    <2> HIDE DEF h
    <2>5. Calm(h, page')
      BY <2>1, <2>3, <2>4, SessionShown DEF Calm
    <2>6. PageOK(page)' /\ page'.op \notin {"connecting", "disconnecting"}
      BY <2>2, <2>4, <2>5 DEF Calm
    <2>7. UNCHANGED <<srv, events>> /\ serial' = [serial EXCEPT !.connect = NoSerial]
      BY <1>2 DEF Connected
    <2>8. SerialOK'
      BY <1>0, <2>7 DEF SerialOK, NoSerial
    <2>9. NoStuckOperation'
      BY <2>6 DEF NoStuckOperation
    <2> QED
      BY <1>d, <2>6, <2>7, <2>8, <2>9
  <1>3. CASE ConnectFailed \/ ConnectGatewayFailed \/ DisconnectFailed
    <2> DEFINE f == failSerialSessionOperation(page)
    <2>1. Calm(page, f) /\ f.op = "error"
      BY <1>0, StoresCalm DEF failSerialSessionOperation, PageOK, PageFields
    <2>2. page' = f \/ page' = markTelemetryDegraded(f, "degraded")
      BY <1>3 DEF ConnectFailed, ConnectGatewayFailed, DisconnectFailed
    <2> HIDE DEF f
    <2>3. Calm(f, markTelemetryDegraded(f, "degraded")) /\ Calm(f, f)
      BY <2>1, StoresCalm DEF Calm
    <2>4. PageOK(page)' /\ page'.op \notin {"connecting", "disconnecting"}
      BY <2>1, <2>2, <2>3 DEF Calm
    <2>5. /\ UNCHANGED <<srv, events>>
          /\ \/ serial' = [serial EXCEPT !.connect = [pc |-> "check", s |-> NotRead]]
             \/ serial' = [serial EXCEPT !.connect = NoSerial]
             \/ serial' = [serial EXCEPT !.disconnect = NoSerial]
      BY <1>3 DEF ConnectFailed, ConnectGatewayFailed, DisconnectFailed
    <2>6. SerialOK'
      BY <1>0, <2>5 DEF SerialOK, NoSerial
    <2>7. NoStuckOperation'
      BY <2>4 DEF NoStuckOperation
    <2> QED
      BY <1>d, <2>4, <2>5, <2>6, <2>7
  <1>4. CASE ConnectSampled
    <2>1. /\ UNCHANGED <<page, srv, events>> /\ serial.connect.pc = "check"
          /\ serial' = [serial EXCEPT !.connect = [serial.connect EXCEPT !.s = srv.session]]
      BY <1>0, <1>4 DEF ConnectSampled, SerialOK
    <2>2. SerialOK' /\ NoStuckOperation'
      BY <1>0, <1>c, <2>1 DEF SerialOK, NoStuckOperation
    <2> QED
      BY <1>0, <1>d, <2>1, <2>2
  <1>5. CASE ConnectChecked
    <2>1. /\ UNCHANGED <<srv, events>> /\ serial.connect.pc = "check"
          /\ serial' = [serial EXCEPT !.connect = NoSerial]
      BY <1>5 DEF ConnectChecked
    <2>2. Calm(page, page')
      BY <1>0, <1>5, SessionShown, StoresCalm DEF ConnectChecked, SerialOK
    <2>3. SerialOK'
      BY <1>0, <2>1 DEF SerialOK, NoSerial
    <2>4. page.op # "connecting"
      BY <1>0, <2>1 DEF NoStuckOperation
    <2>5. NoStuckOperation' /\ PageOK(page)'
      BY <1>0, <2>1, <2>2, <2>4 DEF NoStuckOperation, Calm, SerialOK
    <2> QED
      BY <1>d, <2>1, <2>3, <2>5
  <1>6. CASE Disconnected
    <2>1. /\ UNCHANGED <<srv, events>> /\ page' = completeSerialSessionOperation(page)
          /\ serial.disconnect.pc = "answered"
          /\ serial' = [serial EXCEPT !.disconnect = [serial.disconnect EXCEPT !.pc = "joint"]]
      BY <1>0, <1>6 DEF Disconnected, SerialOK
    <2>2. Calm(page, page') /\ page'.op = "idle"
      BY <1>0, <2>1, StoresCalm DEF completeSerialSessionOperation, PageOK, PageFields
    <2>3. SerialOK' /\ NoStuckOperation'
      BY <1>0, <2>1, <2>2 DEF SerialOK, NoStuckOperation
    <2> QED
      BY <1>d, <2>1, <2>2, <2>3 DEF Calm
  <1>7. CASE DisconnectCompleted
    <2>1. /\ UNCHANGED <<srv, events>> /\ serial.disconnect.pc = "joint"
          /\ serial' = [serial EXCEPT !.disconnect = NoSerial]
          /\ \E j : page' = completeDisconnect(page, serial.disconnect.s, j)
      BY <1>7 DEF DisconnectCompleted
    <2>2. Calm(page, page')
      BY <1>0, <2>1, DisconnectShown DEF SerialOK
    <2>3. SerialOK'
      BY <1>0, <2>1 DEF SerialOK, NoSerial
    <2>4. page.op # "disconnecting"
      BY <1>0, <2>1 DEF NoStuckOperation
    <2>5. NoStuckOperation'
      BY <1>0, <2>1, <2>2, <2>4 DEF NoStuckOperation, Calm, SerialOK
    <2> QED
      BY <1>d, <2>1, <2>2, <2>3, <2>5 DEF Calm
  <1>8. ASSUME NEW s, HasSid(s), NEW j, Publish(<<<<"session", s>>>>)
                                        \/ Publish(<<<<"session", s>>, <<"joint", j>>>>)
        PROVE  Events(events')
    <2> DEFINE one == <<<<"session", s>>>>
               two == <<<<"session", s>>, <<"joint", j>>>>
    <2>1. /\ DOMAIN one = 1 .. 1 /\ one[1] = <<"session", s>>
          /\ DOMAIN two = 1 .. 2 /\ two[1] = <<"session", s>> /\ two[2] = <<"joint", j>>
      OBVIOUS
    <2>2. \A i \in 1 .. 1 : EventOK(Sent(one[i]))
      BY <1>8, <2>1 DEF EventOK, Sent
    <2>3. \A i \in 1 .. 2 : EventOK(Sent(two[i]))
      <3>1. EventOK(Sent(two[1])) /\ EventOK(Sent(two[2]))
        BY <1>8, <2>1 DEF EventOK, Sent
      <3> QED
        BY <3>1
    <2>4. Publish(one) \/ Publish(two)
      BY <1>8
    <2> HIDE DEF one, two
    <2> QED
      BY <1>0, <2>1, <2>2, <2>3, <2>4, Published
  <1>9. CASE SrvConnect
    <2>1. page' = page /\ serial.connect.pc = "sent"
      BY <1>9 DEF SrvConnect
    <2>2. CASE serial' = [serial EXCEPT !.connect.pc = "refused"] /\ UNCHANGED <<srv, events>>
      <3>1. SerialOK' /\ NoStuckOperation'
        BY <1>0, <2>1, <2>2 DEF SerialOK, NoStuckOperation
      <3> QED
        BY <1>0, <1>d, <2>1, <2>2, <3>1
    <2>3. ASSUME NEW s, HasSid(s), srv' = [srv EXCEPT !.session = s, !.opened = @ + 1],
                 serial' = [serial EXCEPT !.connect = [pc |-> "answered", s |-> s]],
                 Publish(<<<<"session", s>>>>)
          PROVE  WInv'
      <3>1. SrvOK' /\ srv'.log = srv.log
        BY <1>0, <2>3 DEF SrvOK
      <3>2. SerialOK' /\ NoStuckOperation'
        BY <1>0, <2>1, <2>3 DEF SerialOK, NoStuckOperation
      <3>3. Events(events')
        BY <1>8, <2>3
      <3> QED
        BY <1>0, <1>b, <2>1, <3>1, <3>2, <3>3, SerialStepKeeps
    <2>4. HasSid([sid |-> SessionIds[srv.opened + 1], conn |-> "connected",
                  source |-> "measured", validity |-> "stale"])
      BY DEF HasSid
    <2> QED
      BY <1>9, <2>2, <2>3, <2>4 DEF SrvConnect
  <1>10. CASE SrvDisconnect
    <2>1. /\ page' = page /\ serial.disconnect.pc = "sent"
          /\ srv' = [srv EXCEPT !.session = offlineSession, !.joint = unavailableJoint]
          /\ serial' = [serial EXCEPT !.disconnect = [pc |-> "answered", s |-> offlineSession]]
          /\ Publish(<<<<"session", offlineSession>>, <<"joint", unavailableJoint>>>>)
      BY <1>10 DEF SrvDisconnect
    <2>2. SrvOK' /\ srv'.log = srv.log
      BY <1>0, <1>c, <2>1 DEF SrvOK
    <2>3. SerialOK' /\ NoStuckOperation'
      BY <1>0, <1>c, <2>1 DEF SerialOK, NoStuckOperation
    <2>4. Events(events')
      BY <1>8, <1>c, <2>1
    <2> QED
      BY <1>0, <1>b, <2>1, <2>2, <2>3, <2>4, SerialStepKeeps
  <1>11. CASE SrvPoll \/ SrvFault
    <2>1. PICK s, j : /\ page' = page /\ serial' = serial /\ DOMAIN s = DOMAIN srv.session
                      /\ srv' = [srv EXCEPT !.session = s, !.joint = j]
                      /\ Publish(<<<<"session", s>>, <<"joint", j>>>>)
      BY <1>11 DEF SrvPoll, SrvFault
    <2>2. HasSid(s)
      BY <1>c, <2>1 DEF HasSid
    <2>3. SrvOK' /\ srv'.log = srv.log
      BY <1>0, <2>1, <2>2 DEF SrvOK
    <2>4. SerialOK' /\ NoStuckOperation'
      BY <1>0, <2>1 DEF SerialOK, NoStuckOperation
    <2>5. Events(events')
      BY <1>8, <2>1, <2>2
    <2> QED
      BY <1>0, <1>b, <2>1, <2>3, <2>4, <2>5, SerialStepKeeps
  <1> QED
    BY <1>1, <1>2, <1>3, <1>4, <1>5, <1>6, <1>7, <1>9, <1>10, <1>11 DEF Serial

LEMMA WebStep == WInv /\ [Next]_vars => WInv'
  <1> SUFFICES ASSUME WInv, [Next]_vars PROVE WInv'
    OBVIOUS
  <1>1. CASE Next
    BY <1>1, RequestsKeep, ChannelKeep, CommandsKeep, SerialKeep DEF Next
  <1>2. CASE UNCHANGED vars
    BY <1>2 DEF vars, WInv, DataOK, ReadsOK, SrvOK, AuditOK, LifeOK, SerialOK, NoStuckOperation
  <1> QED
    BY <1>1, <1>2

LEMMA WebInvariant == Spec => []WInv
  BY WebInit, WebStep, PTL DEF Spec

-----------------------------------------------------------------------------
(* The theorems                                                            *)

\* Whatever order answers, events and replayed histories come in, and however
\* often, the mirrored interlock holds the newest uncertain result shown for this
\* session that no confirmed STOP is as new as (commandSafety.ts).
THEOREM LatchFollowsResults == Spec => []LatchIsNewestUnresolved
  <1>1. WInv => LatchIsNewestUnresolved
    <2> SUFFICES ASSUME LatchOK(page.latched, page.stopTs, page.seen, page.session.sid)
                 PROVE  LatchIsNewestUnresolved
      BY DEF WInv, PageOK
    <2> DEFINE stops == {r.ts : r \in {x \in page.seen : ConfirmedStop(x)}}
               open  == {r \in page.seen : isSafetyLatchedResult(r) /\ \A t \in stops : r.ts > t}
    <2>1. \A t \in stops : t <= page.stopTs
      BY DEF LatchOK
    <2>2. ASSUME NEW r \in page.seen
          PROVE  r.ts > page.stopTs <=> \A t \in stops : r.ts > t
      <3>1. /\ page.stopTs \in Nat /\ r.ts \in Nat /\ r.ts > 0
            /\ \A t \in stops : t \in Nat
            /\ page.stopTs = 0 \/ page.stopTs \in stops
        BY DEF LatchOK, Result
      <3> HIDE DEF stops
      <3> QED
        BY <2>1, <3>1
    <2>3. open = {r \in page.seen : isSafetyLatchedResult(r) /\ r.ts > page.stopTs}
      BY <2>2
    <2> HIDE DEF stops, open
    <2>4. open = {} => page.latched = NoResult
      BY <2>3 DEF LatchOK
    <2>5. open # {} => page.latched \in open /\ \A r \in open : r.ts <= page.latched.ts
      BY <2>3 DEF LatchOK
    <2> QED
      BY <2>1, <2>4, <2>5 DEF LatchIsNewestUnresolved, stops, open
  <1> QED
    BY <1>1, WebInvariant, PTL

\* No motion is submitted while a result shown for this session left the physical
\* outcome uncertain and no STOP was confirmed since (ConsolePage's send and the
\* interlock mirrored by the runtime store).
THEOREM MotionAlwaysGated == Spec => MotionGated
  <1>1. ASSUME WInv, Next, NEW r \in page.seen,
               life["move"].pc = "idle", life'["move"].pc = "exec", isSafetyLatchedResult(r)
        PROVE  \E x \in page.seen : ConfirmedStop(x) /\ x.ts >= r.ts
    <2>1. DOMAIN life = Entries /\ "move" \in Entries
      BY <1>1 DEF WInv, DataOK, LifeOK, Entries
    <2>2. SendAllowed(page)
      <3>1. life' = life \/ Commands
        BY <1>1 DEF Next, Requests, Channel, Serial, SampleSession, SampleJoint, StartRefreshed,
             StartFailed, RecoveryRefreshed, RecoveryFailed, RecoveryEnded, FallbackRefreshed,
             FallbackFailed, readCurrent, ManualRead, ManualFailed, refreshGateway,
             GatewayRefreshed, GatewayRefreshFailed, DeviceAuditRead, SampleAudit,
             AuditRefreshed, AuditFailed, HubOpened, HubOpenFailed, HubDropped, HubReconnected,
             HubClosed, OnSession, OnJointState, OnCommandResult, ContractViolation, TimePasses,
             WatchdogTick, switchProfile, Connect, Connected, ConnectFailed,
             ConnectGatewayFailed, ConnectSampled, ConnectChecked, Disconnect, Disconnected,
             DisconnectFailed, DisconnectCompleted, SrvConnect, SrvDisconnect, SrvPoll, SrvFault
      <3>2. PICK e \in Entries : \/ Submit(e) \/ Returned(e) \/ AnswerLost(e)
                                 \/ SettleSnapshot(e) \/ SettleAudit(e) \/ Settled(e)
                                 \/ SrvExecute(e)
        BY <1>1, <3>1 DEF Commands, EditTarget
      <3>3. e = "move"
        BY <1>1, <2>1, <3>2 DEF Submit, Returned, AnswerLost, SettleSnapshot, SettleAudit,
                                Settled, SrvExecute
      <3>4. Submit("move")
        BY <1>1, <3>2, <3>3 DEF Returned, AnswerLost, SettleSnapshot, SettleAudit, Settled,
                                SrvExecute
      <3> QED
        BY <3>4 DEF Submit, Allowed
    <2>3. page.latched = NoResult
      BY <2>2 DEF SendAllowed
    <2>4. LatchOK(page.latched, page.stopTs, page.seen, page.session.sid)
      BY <1>1 DEF WInv, PageOK
    <2>5. page.stopTs \in Nat /\ r.ts \in Nat /\ r.ts > 0 /\ r.ts <= page.stopTs
      BY <1>1, <2>3, <2>4 DEF LatchOK, Result
    <2>6. PICK x \in page.seen : ConfirmedStop(x) /\ x.ts = page.stopTs
      BY <2>4, <2>5 DEF LatchOK
    <2> QED
      BY <2>5, <2>6
  <1>2. WInv /\ [Next]_vars
          => [\A r \in page.seen :
                (life["move"].pc = "idle" /\ life'["move"].pc = "exec" /\ isSafetyLatchedResult(r))
                  => \E x \in page.seen : ConfirmedStop(x) /\ x.ts >= r.ts]_vars
    BY <1>1
  <1> QED
    BY <1>2, WebInvariant, PTL DEF Spec, MotionGated

\* The serial control never shows a connect or disconnect that nobody carries out
\* (SerialSessionControl and DeviceModelPage share one operation).
THEOREM OperationAlwaysCarried == Spec => []NoStuckOperation
  <1>1. WInv => NoStuckOperation
    BY DEF WInv
  <1> QED
    BY <1>1, WebInvariant, PTL
===============================================================================
