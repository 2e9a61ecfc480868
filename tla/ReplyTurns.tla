----------------------------- MODULE ReplyTurns -----------------------------
(***************************************************************************)
(* What DummySerialSession.TransactAsync promises its callers on a line    *)
(* whose replies carry no tag, without scheduler, fences or tasks: callers *)
(* take turns; an urgent caller may take the turn of one that is not; only *)
(* the caller whose turn it is, and whose line was begun, can be given a   *)
(* record; each record is given at most once; an answer stays as it is;    *)
(* and a caller returns a response only if it was given one in its turn.   *)
(***************************************************************************)
EXTENDS Integers

CONSTANTS
    Transaction,    \* the calls, each made at most once
    Urgent,         \* those that may take a turn away
    Record,         \* what the line may bring
    Accepts,        \* [Transaction -> SUBSET Record]: the replies each expects
    None

VARIABLES
    phase,      \* "idle", "asked", "turn", "leaving" (decided, tidies up), "over"
    turn,       \* the call whose turn it is, or None
    begun,      \* calls whose line the port was given in their turn
    reply,      \* what a call was told: a record, a reason or "none"
    spent,      \* records that nobody will be given any more
    verdict     \* how a call ends

vars == <<phase, turn, begun, reply, spent, verdict>>

Failures == {"conflict", "timeout", "preempted", "cancelled", "failed"}

Init ==
    /\ phase = [t \in Transaction |-> "idle"]
    /\ turn = None /\ begun = {} /\ spent = {}
    /\ reply = [t \in Transaction |-> "none"]
    /\ verdict = [t \in Transaction |-> "none"]

Move(t, p) == phase' = [phase EXCEPT ![t] = p]
Unanswered(t) == phase[t] = "turn" /\ reply[t] = "none"

\* The holder is told o, unless it has an answer or has decided.
Tell(o) == reply' = [t \in Transaction |->
                       IF t = turn /\ Unanswered(t) THEN o ELSE reply[t]]

Ask(t) ==
    /\ phase[t] = "idle"
    /\ Move(t, "asked")
    /\ UNCHANGED <<turn, begun, reply, spent, verdict>>

Refuse(t) ==
    /\ phase[t] = "idle"
    /\ Move(t, "over") /\ verdict' = [verdict EXCEPT ![t] = "disposed"]
    /\ UNCHANGED <<turn, begun, reply, spent>>

GiveUp(t) ==
    /\ phase[t] = "asked"
    /\ Move(t, "over") /\ verdict' = [verdict EXCEPT ![t] = "cancelled"]
    /\ UNCHANGED <<turn, begun, reply, spent>>

Take(t) ==
    /\ phase[t] = "asked"
    /\ \/ turn = None /\ reply' = reply
       \/ t \in Urgent /\ turn \notin Urgent \union {None} /\ Tell("preempted")
    /\ turn' = t
    /\ Move(t, "turn")
    /\ UNCHANGED <<begun, spent, verdict>>

\* The port is given the line of the call whose turn it is.
BeginLine ==
    /\ turn # None
    /\ begun' = begun \union {turn}
    /\ UNCHANGED <<phase, turn, reply, spent, verdict>>

\* A record arrives: whose turn it is gets it if it expects it, or hears of a
\* device error; or nobody wants it.
Answer(c) ==
    /\ c \in Record \ spent
    /\ turn \in begun /\ Unanswered(turn)
    /\ \/ c \in Accepts[turn] /\ Tell(c)
       \/ Tell("error")
    /\ spent' = spent \union {c}
    /\ UNCHANGED <<phase, turn, begun, verdict>>

Drop ==
    /\ spent' \in SUBSET Record /\ spent \subseteq spent'
    /\ UNCHANGED <<phase, turn, begun, reply, verdict>>

\* The call is told why, and its turn ends.
Close ==
    /\ turn # None
    /\ turn' = None
    /\ Tell("closing") \/ Tell("faulted")
    /\ UNCHANGED <<phase, begun, spent, verdict>>

\* A call decides how it ends: with what it was told, or with a failure of its
\* own, which forgets what it was told.
Return(t) ==
    /\ phase[t] = "turn"
    /\ \/ reply[t] \in Record /\ verdict' = [verdict EXCEPT ![t] = "response"] /\ reply' = reply
       \/ \E o \in Failures \union ({reply[t]} \ (Record \union {"none"})) :
            /\ verdict' = [verdict EXCEPT ![t] = o]
            /\ reply' = [reply EXCEPT ![t] = "none"]
    /\ Move(t, "leaving")
    /\ UNCHANGED <<turn, begun, spent>>

Leave(t) ==
    /\ phase[t] = "leaving"
    /\ turn' = IF turn = t THEN None ELSE turn
    /\ Move(t, "over")
    /\ UNCHANGED <<begun, reply, spent, verdict>>

Next ==
    \/ \E t \in Transaction :
         Ask(t) \/ Refuse(t) \/ GiveUp(t) \/ Take(t) \/ Return(t) \/ Leave(t)
    \/ BeginLine \/ Close \/ Drop
    \/ \E c \in Record : Answer(c)

Spec == Init /\ [][Next]_vars
=============================================================================
