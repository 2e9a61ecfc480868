------------------------------ MODULE TwinFrames ------------------------------
(***************************************************************************)
(* The dual-arm twin's telemetry: the latest-frame-wins coordinator        *)
(* (integrations/AethorTwinFrameCoordinator.ts), the per-motor state it    *)
(* feeds (domain/aethorArmMotorState.ts, stores/useAethorRoboConsoleStore) *)
(* and the timer that revokes freshness                                    *)
(* (integrations/AethorTwinTelemetryCoordinator.tsx).                      *)
(*                                                                         *)
(* Positions and rates are left out.  A motor's age is how long ago its    *)
(* sample was taken, up to StaleAfter: Tick ages what is shown.            *)
(***************************************************************************)
EXTENDS Integers, Sequences, SequencesExt, FiniteSets

CONSTANTS
  Groups,       \* joint groups: the two arms
  Motors,       \* motor ids of an arm
  Sources,      \* controller and arm identities
  Boots,        \* boot ids a controller comes up with
  MaxFrameSeq,  \* bound: sequence numbers of a boot
  Stamps,       \* receive times the host may put on a frame
  Bodies,       \* what frames report: complete, age and a status per motor
  MaxRetired,   \* boots remembered as gone (4)
  StaleAfter,   \* age at which feedback is no longer fresh (250 ms)
  MaxReceived   \* bound: frames received

ASSUME TwinAssumption ==
  /\ IsFiniteSet(Groups) /\ "none" \notin Boots
  /\ MaxRetired \in Nat /\ MaxFrameSeq \in Nat

VARIABLES
  ingress,    \* per group: the newest accepted source, boot and sequence
  pending,    \* per group: the frame to be committed, if any
  scheduled,  \* a commit is scheduled
  metrics,    \* [received, rejected, coalesced, applied]
  snapshots,  \* per group: what the console shows
  eras,       \* history variable: per group, the boots accepted since a reset, in order
  shown       \* history variable: per group, the frames shown since a reset

twinVars == <<ingress, pending, scheduled, metrics, snapshots, eras, shown>>

NoIngress == [boot |-> "none"]
NoFrame == [boot |-> "none"]
NoSnapshot == [boot |-> "none", seq |-> -1,
               joints |-> [m \in Motors |-> [state |-> "notObserved", age |-> 0]]]

FramesPending == {g \in Groups : pending[g] # NoFrame}

createMetrics == [received |-> 0, rejected |-> 0, coalesced |-> 0, applied |-> 0]

TwinInit ==
  /\ ingress = [g \in Groups |-> NoIngress]
  /\ pending = [g \in Groups |-> NoFrame]
  /\ scheduled = FALSE
  /\ metrics = createMetrics
  /\ snapshots = [g \in Groups |-> NoSnapshot]
  /\ eras = [g \in Groups |-> <<>>]
  /\ shown = [g \in Groups |-> <<>>]

-----------------------------------------------------------------------------
(* The coordinator.                                                        *)

\* Mutant: a replaced boot is taken for a new one.
RetiredForgotten(prior, f) == FALSE

\* A boot that was replaced does not come back while it is remembered.
Retired(prior, f) == f.boot \in ToSet(prior.retired)

\* Which frame may follow what was accepted before; a group keeps its source.
Follows(prior, f) ==
  \/ prior = NoIngress
  \/ /\ prior.source = f.source
     /\ IF f.boot = prior.boot
          THEN f.seq > prior.seq
          ELSE ~Retired(prior, f) /\ f.stamp >= prior.stamp

Retire(boots, b) ==
  LET all == Append(boots, b)
  IN  IF Len(all) > MaxRetired THEN Tail(all) ELSE all

acceptSequence(prior, f) ==
  IF prior = NoIngress
    THEN [source |-> f.source, boot |-> f.boot, seq |-> f.seq, stamp |-> f.stamp,
          retired |-> <<>>]
  ELSE IF f.boot = prior.boot
    THEN [prior EXCEPT !.seq = f.seq, !.stamp = IF f.stamp > @ THEN f.stamp ELSE @]
  ELSE [prior EXCEPT !.boot = f.boot, !.seq = f.seq, !.stamp = f.stamp,
                     !.retired = Retire(@, prior.boot)]

\* An era is a run of frames of one boot.
ErasWith(boots, b) == IF boots # <<>> /\ boots[Len(boots)] = b THEN boots ELSE Append(boots, b)

\* A frame that is malformed or does not follow is only counted.
ingestTwinFrame(f) ==
  LET g == f.group
  IN  /\ metrics.received < MaxReceived
      /\ IF f.supported /\ Follows(ingress[g], f)
           THEN /\ ingress' = [ingress EXCEPT ![g] = acceptSequence(@, f)]
                /\ pending' = [pending EXCEPT ![g] = f]
                /\ eras' = [eras EXCEPT ![g] = ErasWith(@, f.boot)]
                /\ scheduled' = TRUE
                /\ metrics' = [metrics EXCEPT !.received = @ + 1,
                                 !.coalesced = IF g \in FramesPending THEN @ + 1 ELSE @]
           ELSE /\ metrics' = [metrics EXCEPT !.received = @ + 1, !.rejected = @ + 1]
                /\ UNCHANGED <<ingress, pending, scheduled, eras>>
      /\ UNCHANGED <<snapshots, shown>>

-----------------------------------------------------------------------------
(* The motors of one arm.                                                  *)

\* A complete snapshot without a motor reports it missing; a partial one
\* leaves what was known.  A conflict keeps the age of the last sample.
MotorState(prior, f, m) ==
  LET status == f.body.motors[m]
  IN  CASE status = "conflict" -> [state |-> "conflict", age |-> prior.age]
        [] status = "absent"   -> IF f.body.complete THEN [state |-> "missing", age |-> 0] ELSE prior
        [] status = "valid"    -> [state |-> "present", age |-> f.body.age]
        [] status = "invalid"  -> [state |-> "stale", age |-> 0]

\* The store refuses an old frame of the same boot a second time.
applyMotorFrame(s, f) ==
  IF s.boot = f.boot /\ f.seq <= s.seq THEN s
  ELSE [boot |-> f.boot, seq |-> f.seq,
        joints |-> [m \in Motors |-> MotorState(s.joints[m], f, m)]]

\* commitPending, on the timer: both arms in one batch.
CommitTwinFrames ==
  /\ scheduled
  /\ scheduled' = FALSE
  /\ pending' = [g \in Groups |-> NoFrame]
  /\ metrics' = [metrics EXCEPT !.applied = @ + Cardinality(FramesPending)]
  /\ snapshots' = [g \in Groups |->
        IF g \in FramesPending THEN applyMotorFrame(snapshots[g], pending[g]) ELSE snapshots[g]]
  /\ shown' = [g \in Groups |->
        IF snapshots'[g].boot # "none" /\ snapshots'[g] # snapshots[g] /\ g \in FramesPending
          THEN Append(shown[g], [era |-> Len(eras[g]), boot |-> snapshots'[g].boot,
                                 seq |-> snapshots'[g].seq])
          ELSE shown[g]]
  /\ UNCHANGED <<ingress, eras>>

Older(j) == [j EXCEPT !.age = IF @ < StaleAfter THEN @ + 1 ELSE @]

\* Time passes for everything shown as fresh.
TwinTick ==
  /\ \E g \in Groups, m \in Motors :
       snapshots[g].joints[m].state = "present" /\ snapshots[g].joints[m].age < StaleAfter
  /\ snapshots' = [g \in Groups |-> [snapshots[g] EXCEPT !.joints =
        [m \in Motors |-> IF @[m].state = "present" THEN Older(@[m]) ELSE @[m]]]]
  /\ UNCHANGED <<ingress, pending, scheduled, metrics, eras, shown>>

\* Mutant: only samples that arrived stale are shown as stale.
ExpiredNever(j) == FALSE

ExpiredMotor(j) == j.state = "present" /\ j.age >= StaleAfter

\* The interval timer: what is too old stays shown, but as stale.
expireMotorTelemetry ==
  /\ \E g \in Groups, m \in Motors : ExpiredMotor(snapshots[g].joints[m])
  /\ snapshots' = [g \in Groups |-> [snapshots[g] EXCEPT !.joints =
        [m \in Motors |-> IF ExpiredMotor(@[m]) THEN [@[m] EXCEPT !.state = "stale"] ELSE @[m]]]]
  /\ UNCHANGED <<ingress, pending, scheduled, metrics, eras, shown>>

\* The console's reset clears what is shown, not what was accepted.
resetPreview ==
  /\ snapshots # [g \in Groups |-> NoSnapshot]
  /\ snapshots' = [g \in Groups |-> NoSnapshot]
  /\ UNCHANGED <<ingress, pending, scheduled, metrics, eras, shown>>

\* A change of profile resets the coordinator and clears the store.
resetTwinTelemetry ==
  /\ metrics.received > 0
  /\ ingress' = [g \in Groups |-> NoIngress]
  /\ pending' = [g \in Groups |-> NoFrame]
  /\ scheduled' = FALSE
  /\ metrics' = createMetrics
  /\ snapshots' = [g \in Groups |-> NoSnapshot]
  /\ eras' = [g \in Groups |-> <<>>]
  /\ shown' = [g \in Groups |-> <<>>]

\* isSupportedFrame depends on the frame alone: the fields of a malformed one
\* do not matter, so one body stands for all of them.
TwinFrameSet ==
  {f \in [group : Groups, source : Sources, boot : Boots, seq : 0 .. MaxFrameSeq,
          stamp : Stamps, supported : BOOLEAN, body : Bodies] :
     f.supported \/ f.body = CHOOSE b \in Bodies : TRUE}

TwinNext ==
  \/ \E f \in TwinFrameSet : ingestTwinFrame(f)
  \/ CommitTwinFrames \/ TwinTick \/ expireMotorTelemetry \/ resetPreview \/ resetTwinTelemetry

\* Timers fire: the commit after 20 ms, the freshness check every 125 ms.
TwinFairness ==
  /\ WF_twinVars(CommitTwinFrames)
  /\ WF_twinVars(TwinTick)
  /\ WF_twinVars(expireMotorTelemetry)

TwinSpec == TwinInit /\ [][TwinNext]_twinVars /\ TwinFairness

-----------------------------------------------------------------------------
(* Properties.                                                             *)

\* Across coalescing, reboots of the controller, delayed frames and resets,
\* no frame is lost or shown out of order: every frame received is counted
\* once or waits, what waits has a commit coming, and what an arm shows never
\* goes back: it shows the boot that was accepted last, sequences grow while
\* that boot lasts, and a boot that was left stays left until MaxRetired + 1
\* others have come, which is when the coordinator forgets it.
TwinDelivery ==
  /\ metrics.received = metrics.rejected + metrics.coalesced + metrics.applied
                           + Cardinality(FramesPending)
  /\ scheduled = (FramesPending # {})
  /\ \A g \in Groups :
       /\ \A i \in DOMAIN shown[g] :
            shown[g][i].era \in DOMAIN eras[g] /\ shown[g][i].boot = eras[g][shown[g][i].era]
       /\ \A i, j \in DOMAIN shown[g] : i < j =>
            /\ shown[g][i].era <= shown[g][j].era
            /\ shown[g][i].era = shown[g][j].era => shown[g][i].seq < shown[g][j].seq
       /\ \A a, b \in DOMAIN eras[g] : a < b /\ eras[g][a] = eras[g][b] => b - a > MaxRetired + 1

\* When telemetry stops, or goes on without a motor, the motor does not stay
\* shown as fresh: its freshness is revoked, or the preview is cleared.
TelemetryLossShown ==
  \A g \in Groups, m \in Motors : []<>(snapshots[g].joints[m].state # "present")
=============================================================================
