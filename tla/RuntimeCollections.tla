-------------------------- MODULE RuntimeCollections --------------------------
(***************************************************************************)
(* The bounded collections of the runtime store                            *)
(* (stores/useGatewayRuntimeStore.ts): the protocol frames, the view of    *)
(* them without joint-position polling and the results of direct commands, *)
(* with the terminal that shows and clears them                            *)
(* (pages/terminal/TerminalPage.tsx).                                      *)
(*                                                                         *)
(* A frame is its id and whether it is routine polling.  A direct result   *)
(* is its request, its session, its status and its time stamp.  The search *)
(* box, the direction filter, copying and the wording are left out.  The   *)
(* gateway is external: it is what it reports.                             *)
(***************************************************************************)
EXTENDS Integers, Sequences, SequencesExt, FiniteSets, Selections

CONSTANTS
  LinkIds,        \* hardware session ids
  Requests,       \* ids of direct requests
  FrameLimit,     \* frames the store keeps, ids the page hides (256)
  DirectLimit,    \* direct results the store keeps (128)
  RecentLimit,    \* direct results the page keeps (12)
  MaxEvents,      \* bound: time at which the gateway's last event happens
  MaxReads,       \* bound: authority snapshots
  FeedLimit       \* notifications the gateway queues (128)

ASSUME CollectionAssumption ==
  /\ FrameLimit \in Nat \ {0} /\ DirectLimit \in Nat \ {0}
  /\ RecentLimit \in Nat \ {0} /\ FeedLimit \in Nat \ {0}
  /\ IsFiniteSet(LinkIds) /\ LinkIds # {} /\ IsFiniteSet(Requests)

VARIABLES
  store,      \* [link, frames, operator, direct]: useGatewayRuntimeStore
  terminal,   \* [link, routine, hidden, cleared, admissions]: TerminalPage
  sends,      \* [Requests -> [status, link]]: the page's sendDirect calls
  device,     \* the gateway: [link, used, frames, direct, clock]
  feed,       \* hub notifications on their way, oldest first
  reads       \* [authority, refreshes, latest, left]: REST reads in flight

collectionVars == <<store, terminal, sends, device, feed, reads>>

NoLink == "none"
NewestOf(s, n) == SubSeq(s, IF Len(s) > n THEN Len(s) - n + 1 ELSE 1, Len(s))
Ids(frames) == {frames[i].id : i \in DOMAIN frames}

-----------------------------------------------------------------------------
(* The store.                                                              *)

emptyCollections(link) ==
  [link |-> link, frames |-> <<>>, operator |-> <<>>, direct |-> {}]

\* The frames that are not routine polling.
NotRoutine(frames) == Selected(frames, {i \in DOMAIN frames : ~frames[i].routine})

\* The newest occurrence of every id, the newest FrameLimit of them.
uniqueProtocolFrames(frames) ==
  LET newest == {i \in DOMAIN frames :
                   \A j \in i + 1 .. Len(frames) : frames[j].id # frames[i].id}
  IN  NewestOf(Selected(frames, newest), FrameLimit)

replaceProtocolFrames(s, frames) ==
  LET unique == uniqueProtocolFrames(frames)
  IN  [s EXCEPT !.frames = unique, !.operator = NotRoutine(unique)]

\* Mutant: frames that left the store stay in the operator's view.
RetainedAll(operator, frames) == operator

\* What the operator's view keeps of its frames when `frames` is the store's.
RetainedOperator(operator, frames) ==
  Selected(operator, {i \in DOMAIN operator : operator[i].id \in Ids(frames)})

appendProtocolFrame(s, frame) ==
  LET frames == Append(NewestOf(s.frames, FrameLimit - 1), frame)
      operator == RetainedOperator(s.operator, frames)
  IN  IF frame.id \in Ids(s.frames) THEN s
      ELSE [s EXCEPT !.frames = frames,
                     !.operator = IF frame.routine THEN operator
                                  ELSE Append(operator, frame)]

\* Results by request, an incoming one over the current, the newest n by stamp.
MergeResults(current, incoming, n) ==
  LET merged == incoming
        \cup {r \in current : \A q \in incoming : q.id # r.id}
  IN  {r \in merged : Cardinality({q \in merged : q.stamp > r.stamp}) < n}

replaceDirectCommandHistory(s, results) ==
  [s EXCEPT !.direct = MergeResults({}, results, DirectLimit)]

upsertDirectCommandResult(s, result) ==
  IF result.link # s.link THEN s
  ELSE [s EXCEPT !.direct = MergeResults(@, {result}, DirectLimit)]

setSession(s, link) == IF s.link = link THEN s ELSE emptyCollections(link)

-----------------------------------------------------------------------------
(* The gateway, as far as the collections see it.                          *)

\* The gateway's queue drops the oldest notification when it is full.
Notify(messages) == NewestOf(feed \o messages, FeedLimit)

\* ResetSessionEvidence of a new connection: the histories are cleared.
DeviceConnects ==
  /\ device.clock < MaxEvents
  /\ \E link \in LinkIds \ device.used :
       /\ device' = [device EXCEPT !.link = link, !.used = @ \cup {link},
                                   !.frames = <<>>, !.direct = {},
                                   !.clock = @ + 1]
       /\ feed' = Notify(<<[kind |-> "session", link |-> link]>>)
  /\ UNCHANGED <<store, terminal, sends, reads>>

DeviceFrame(routine) ==
  LET frame == [id |-> device.clock, routine |-> routine]
  IN  /\ device.clock < MaxEvents
      /\ device' = [device EXCEPT !.clock = @ + 1,
                                  !.frames = NewestOf(Append(@, frame), FrameLimit)]
      /\ feed' = Notify(<<[kind |-> "frame", frame |-> frame]>>)
      /\ UNCHANGED <<store, terminal, sends, reads>>

Result(r, link, status, clock) ==
  [id |-> r, link |-> link, status |-> status, stamp |-> clock]

\* The request reaches the gateway: queued, or rejected for its session.
DeviceAdmits(r) ==
  LET queued == Result(r, device.link, "queued", device.clock)
  IN  /\ sends[r].status = "asked" /\ device.clock < MaxEvents
      /\ sends' = [sends EXCEPT ![r].status = "admitted"]
      /\ IF sends[r].link = device.link
         THEN /\ device' = [device EXCEPT !.direct = @ \cup {queued},
                                          !.clock = @ + 1]
              /\ feed' = Notify(<<[kind |-> "result", result |-> queued]>>)
         ELSE device' = [device EXCEPT !.clock = @ + 1] /\ UNCHANGED feed
      /\ UNCHANGED <<store, terminal, reads>>

\* The request is transmitted, or fails, and the gateway says so.
DeviceSettles(r) ==
  \E old \in device.direct :
    LET settled == Result(r, old.link, "settled", device.clock)
    IN  /\ old.id = r /\ old.status = "queued" /\ device.clock < MaxEvents
        /\ device' = [device EXCEPT !.direct = (@ \ {old}) \cup {settled},
                                    !.clock = @ + 1]
        /\ feed' = Notify(<<[kind |-> "result", result |-> settled]>>)
        /\ UNCHANGED <<store, terminal, sends, reads>>

-----------------------------------------------------------------------------
(* The coordinator's callbacks and REST reads.                             *)

\* acceptSession saw a new identity: refreshDirectCommandHistory begins.
BeginRefresh(r) ==
  [r EXCEPT !.latest = @ + 1,
            !.refreshes = @ \cup {[seq |-> r.latest + 1, served |-> FALSE,
                                   results |-> {}]}]

HubSession ==
  /\ feed # <<>> /\ Head(feed).kind = "session"
  /\ store' = setSession(store, Head(feed).link)
  /\ reads' = IF Head(feed).link = store.link THEN reads ELSE BeginRefresh(reads)
  /\ feed' = Tail(feed)
  /\ UNCHANGED <<terminal, sends, device>>

HubFrame ==
  /\ feed # <<>> /\ Head(feed).kind = "frame"
  /\ store' = appendProtocolFrame(store, Head(feed).frame)
  /\ feed' = Tail(feed)
  /\ UNCHANGED <<terminal, sends, device, reads>>

HubResult ==
  /\ feed # <<>> /\ Head(feed).kind = "result"
  /\ store' = upsertDirectCommandResult(store, Head(feed).result)
  /\ feed' = Tail(feed)
  /\ UNCHANGED <<terminal, sends, device, reads>>

RefreshServed ==
  \E f \in reads.refreshes :
    /\ ~f.served
    /\ reads' = [reads EXCEPT !.refreshes = (@ \ {f})
                   \cup {[f EXCEPT !.served = TRUE, !.results = device.direct]}]
    /\ UNCHANGED <<store, terminal, sends, device, feed>>

\* An answer applies only if no later refresh was begun; a failed one never.
RefreshReturns ==
  \E f \in reads.refreshes :
    /\ reads' = [reads EXCEPT !.refreshes = @ \ {f}]
    /\ \/ f.served /\ f.seq = reads.latest
          /\ store' = replaceDirectCommandHistory(store, f.results)
       \/ (f.served => f.seq # reads.latest) /\ UNCHANGED store
    /\ UNCHANGED <<terminal, sends, device, feed>>

\* refreshAuthority: Promise.all of reads the gateway serves one by one (the
\* two histories as one: nothing relates them).
NoAuthority == [asked |-> {}, link |-> NoLink, frames |-> <<>>, results |-> {}]

AuthorityBegins ==
  /\ reads.left > 0 /\ reads.authority = NoAuthority
  /\ reads' = [reads EXCEPT !.left = @ - 1,
                 !.authority.asked = {"session", "histories"}]
  /\ UNCHANGED <<store, terminal, sends, device, feed>>

AuthorityServed(what) ==
  /\ what \in reads.authority.asked
  /\ reads' = [reads EXCEPT !.authority =
       [asked |-> (@.asked \ {what}) \cup {"return"},
        link |-> IF what = "session" THEN device.link ELSE @.link,
        frames |-> IF what = "session" THEN @.frames ELSE device.frames,
        results |-> IF what = "session" THEN @.results ELSE device.direct]]
  /\ UNCHANGED <<store, terminal, sends, device, feed>>

AuthorityReturns ==
  LET read == reads.authority
      accepted == setSession(store, read.link)
  IN  /\ read.asked = {"return"}
      /\ store' = replaceDirectCommandHistory(
                    replaceProtocolFrames(accepted, read.frames), read.results)
      /\ reads' = [reads EXCEPT !.authority = NoAuthority]
      /\ UNCHANGED <<terminal, sends, device, feed>>

\* One of the reads fails: nothing is applied.
AuthorityFails ==
  /\ reads.authority # NoAuthority
  /\ reads' = [reads EXCEPT !.authority = NoAuthority]
  /\ UNCHANGED <<store, terminal, sends, device, feed>>

-----------------------------------------------------------------------------
(* TerminalPage.                                                           *)

CaptureFrames == IF terminal.routine THEN store.frames ELSE store.operator

VisibleFrames ==
  Selected(CaptureFrames, {i \in DOMAIN CaptureFrames :
                             CaptureFrames[i].id \notin ToSet(terminal.hidden)})

\* The effect on a new session id: a clean page.
SessionEffect ==
  /\ terminal.link # store.link
  /\ terminal' = [terminal EXCEPT !.link = store.link, !.hidden = <<>>,
                                  !.cleared = {}, !.admissions = {}]
  /\ UNCHANGED <<store, sends, device, feed, reads>>

\* React runs pending effects before it handles a click.
Rendered == terminal.link = store.link

ToggleRoutine ==
  /\ Rendered
  /\ terminal' = [terminal EXCEPT !.routine = ~@]
  /\ UNCHANGED <<store, sends, device, feed, reads>>

\* new Set([...current, ...captured ids].slice(-256)): a Set keeps the place
\* of an id's first insertion.
HiddenAfter(current, captured) ==
  LET all == NewestOf(current \o captured, FrameLimit)
      first == {i \in DOMAIN all : \A j \in 1 .. i - 1 : all[j] # all[i]}
  IN  Selected(all, first)

ClearView ==
  LET captured == [i \in DOMAIN CaptureFrames |-> CaptureFrames[i].id]
  IN  /\ Rendered /\ VisibleFrames # <<>>
      /\ terminal' = [terminal EXCEPT
                        !.hidden = HiddenAfter(@, captured),
                        !.cleared = ToSet(captured)]
      /\ UNCHANGED <<store, sends, device, feed, reads>>

SendDirect(r) ==
  /\ Rendered /\ store.link # NoLink
  /\ sends[r].status = "unused"
  /\ sends' = [sends EXCEPT ![r] = [status |-> "asked", link |-> store.link]]
  /\ UNCHANGED <<store, terminal, device, feed, reads>>

\* The admission's result as the gateway has it now; a request of another
\* session is "rejected".
Admission(r) ==
  LET known == {q \in device.direct : q.id = r}
  IN  IF known # {} THEN CHOOSE q \in known : TRUE
      ELSE Result(r, sends[r].link, "rejected", device.clock)

\* The answer of sendDirect, or its failure, whatever the page shows by then.
SendReturns(r) ==
  /\ sends[r].status \in {"asked", "admitted"}
  /\ sends' = [sends EXCEPT ![r].status = "returned"]
  /\ \E result \in {Result(r, sends[r].link, "failed", device.clock)}
       \cup (IF sends[r].status = "admitted" THEN {Admission(r)} ELSE {}) :
       terminal' = [terminal EXCEPT !.admissions =
                      MergeResults(@, {result}, RecentLimit)]
  /\ device' = [device EXCEPT !.clock = @ + 1]
  /\ UNCHANGED <<store, feed, reads>>

\* recentDirectResults: the store's results over the page's.
RecentResults == MergeResults(terminal.admissions, store.direct, RecentLimit)

-----------------------------------------------------------------------------
CollectionInit ==
  /\ store = emptyCollections(NoLink)
  /\ terminal = [link |-> NoLink, routine |-> FALSE, hidden |-> <<>>,
                 cleared |-> {}, admissions |-> {}]
  /\ sends = [r \in Requests |-> [status |-> "unused", link |-> NoLink]]
  /\ LET link == CHOOSE id \in LinkIds : TRUE    \* any one: they are alike
     IN  device = [link |-> link, used |-> {link}, frames |-> <<>>,
                   direct |-> {}, clock |-> 0]
  /\ feed = <<>>
  /\ reads = [authority |-> NoAuthority, refreshes |-> {}, latest |-> 0,
              left |-> MaxReads]

CollectionNext ==
  \/ DeviceConnects
  \/ \E routine \in BOOLEAN : DeviceFrame(routine)
  \/ HubSession \/ HubFrame \/ HubResult
  \/ RefreshServed \/ RefreshReturns
  \/ AuthorityBegins \/ AuthorityReturns \/ AuthorityFails
  \/ \E what \in {"session", "histories"} : AuthorityServed(what)
  \/ SessionEffect \/ ToggleRoutine \/ ClearView
  \/ \E r \in Requests : \/ DeviceAdmits(r) \/ DeviceSettles(r)
                         \/ SendDirect(r) \/ SendReturns(r)

CollectionSpec == CollectionInit /\ [][CollectionNext]_collectionVars

-----------------------------------------------------------------------------
(* Properties.                                                             *)

\* The operator's view is exactly the frames of the store that are not
\* polling, in their order and none twice, although one is rebuilt from
\* snapshots and the other edited frame by frame (appendProtocolFrame,
\* replaceProtocolFrames); and what the operator cleared last stays out of
\* sight for the rest of the session, whatever snapshot brings it back,
\* although the list of hidden ids is itself cut to its newest.
OperatorView ==
  /\ store.operator = NotRoutine(store.frames)
  /\ Len(store.frames) <= FrameLimit
  /\ Cardinality(Ids(store.frames)) = Len(store.frames)
  /\ \A i \in DOMAIN VisibleFrames : VisibleFrames[i].id \notin terminal.cleared
===============================================================================
