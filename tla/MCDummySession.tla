--------------------------- MODULE MCDummySession ---------------------------
(* Instances of DummySession for TLC. *)
EXTENDS DummySession, TLC

CONSTANTS s1, t1, c1

\* A safety and an ordinary transaction that expect the same record.
PairRequest == {s1, t1}
PairPriority == s1 :> Safety @@ t1 :> Interactive
PairWorkId == s1 :> "s1" @@ t1 :> "t1"
PairExpects == s1 :> {c1} @@ t1 :> {c1}

\* One transaction, while the session ends.
OneRequest == {t1}
OnePriority == t1 :> Interactive
OneWorkId == t1 :> "t1"
OneExpects == t1 :> {c1}
=============================================================================
