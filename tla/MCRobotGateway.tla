--------------------------- MODULE MCRobotGateway ---------------------------
(***************************************************************************)
(* Instances of RobotGateway for TLC.  The name of a command tells its     *)
(* kind.                                                                   *)
(***************************************************************************)
EXTENDS RobotGateway, TLC

CONSTANTS m1, m2, enable, setMode, other, jointA, jointB, home, stop

Kinds == [c \in Command |->
            CASE c = enable -> "enable"
              [] c \in {setMode, other} -> "setMode"
              [] c \in {jointA, jointB} -> "jointGroup"
              [] c = home -> "home"
              [] c = stop -> "stopAndDisable"]
\* The two joint commands are alike.
Alike == Permutations({jointA, jointB})
Modes == [c \in Command |-> IF c = other THEN m1 ELSE m2]

\* A bound for whole lifecycles: two connections, or one and a command that is
\* submitted at any time of it.  The first connection is always the same one.
MaxWork == 2
Opened == {s \in Session : line[s] # "none"}
Work == Cardinality(Opened) + Cardinality({c \in Command : cmd[c].pc # "idle"})
FirstSession == CHOOSE s \in Session : TRUE
LifecycleBound == Work <= MaxWork /\ (Opened # {} => FirstSession \in Opened)
=============================================================================
