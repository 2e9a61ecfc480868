-------------------------- MODULE MCSerialScheduler --------------------------
(* Instances of SerialScheduler for TLC. *)
EXTENDS SerialScheduler, TLC

CONSTANTS s1, s2, i1, b1, c1

\* Admission: two safety requests, an interactive and a background one that shares
\* a work id with a safety one; room for two writes, one slot reserved.
AdmissionRequest == {s1, s2, i1, b1}
AdmissionPriority == s1 :> Safety @@ s2 :> Safety @@ i1 :> Interactive
                       @@ b1 :> Background
AdmissionWorkId == s1 :> "s1" @@ s2 :> "s2" @@ i1 :> "i1" @@ b1 :> "s2"

\* Fairness: a safety, an interactive and a background request.
LiveRequest == {s1, i1, b1}
LivePriority == s1 :> Safety @@ i1 :> Interactive @@ b1 :> Background
LiveWorkId == s1 :> "s1" @@ i1 :> "i1" @@ b1 :> "b"

\* Shutdown: a safety request and a fenced one.
ClosingRequest == {s1, i1}
ClosingPriority == s1 :> Safety @@ i1 :> Interactive
ClosingWorkId == s1 :> "s1" @@ i1 :> "i1"
=============================================================================
