----------------------------- MODULE MCWorkbench -----------------------------
(* The instance of Workbench for TLC: small action libraries and files, the *)
(* bodies of twin frames, and the profile packages that are inspected.      *)
EXTENDS Workbench

-----------------------------------------------------------------------------
\* Storage starts empty or with one program, of the last revision or the one
\* before it; an edited copy of that
\* program and one with a pose out of range lie on disk.
Point == [waypointId |-> "w1", pose |-> 0, wait |-> NoWait, source |-> "manual",
          capturedAt |-> NoWait]
SavedOnce == [programId |-> "p1", name |-> "ok", revision |-> 1, createdAt |-> 0,
              updatedAt |-> 0, waypoints |-> <<Point>>]

OneProgram == {[id \in {} |-> NoDraft]} \union
              {[id \in {"p1"} |-> [SavedOnce EXCEPT !.revision = r]] : r \in {1, 2}}
ActionFiles == {[SavedOnce EXCEPT !.waypoints = <<[Point EXCEPT !.pose = x]>>] : x \in {1, 2}}

-----------------------------------------------------------------------------
\* A complete report, a partial one and one with a conflict.
FrameBody(c, a, x, y) == [complete |-> c, age |-> a, motors |-> <<x, y>>]
ThreeBodies == {FrameBody(TRUE, 0, "valid", "valid"), FrameBody(FALSE, 0, "valid", "absent"),
                FrameBody(TRUE, 1, "conflict", "invalid")}

-----------------------------------------------------------------------------
\* A package that is accepted, and for each rule one that breaks it.
RelPath(segs) == [absolute |-> FALSE, segments |-> segs]
ZipEntry(segs, size) ==
  [raw |-> RelPath(segs), slash |-> FALSE, size |-> size, actual |-> 1, allowed |-> TRUE]
ProfileJoint(k) == [jointId |-> k, urdfJointName |-> k, protocolIndex |-> k, lower |-> 0, upper |-> 1]
TwoJoints == [wellFormed |-> TRUE, dof |-> 2, joints |-> <<ProfileJoint(1), ProfileJoint(2)>>, groups |-> <<{1}, {2}>>,
             urdfPath |-> <<"model", "arm.urdf">>]
GoodPackage == [bytes |-> 2, zip |-> TRUE,
         entries |-> <<ZipEntry(<<"manifest.json">>, 1), ZipEntry(<<"model", "arm.urdf">>, 1),
                       [ZipEntry(<<"mesh", "">>, 0) EXCEPT !.slash = TRUE], ZipEntry(<<".", "mesh", "link.stl">>, 1)>>,
         profile |-> TwoJoints,
         urdf |-> [xml |-> TRUE, joints |-> {1, 2, 3},
                   meshes |-> {RelPath(<<"..", "mesh", ".", "link.stl">>)}]]
Packages ==
  LET With(e) == [GoodPackage EXCEPT !.entries = Append(@, e)]
      J(f) == [GoodPackage EXCEPT !.profile.joints = f]
      M(r) == [GoodPackage EXCEPT !.urdf.meshes = @ \cup {r}]
  IN <<GoodPackage,
       With(ZipEntry(<<"MESH", "link.stl">>, 1)), With([ZipEntry(<<"a">>, 1) EXCEPT !.raw.absolute = TRUE]),
       With(ZipEntry(<<"mesh", "..", "a">>, 1)), With([ZipEntry(<<"a">>, 1) EXCEPT !.allowed = FALSE]),
       With(ZipEntry(<<"a", "">>, 0)), With(ZipEntry(<<"mesh", "link.stl", "">>, 0)),
       With(ZipEntry(<<"a">>, 9)), With(ZipEntry(<<"a">>, -1)), With(ZipEntry(<<".">>, 0)),
       [GoodPackage EXCEPT !.entries = @ \o <<ZipEntry(<<"a">>, 1), ZipEntry(<<"reserved">>, 1)>>],
       [GoodPackage EXCEPT !.entries = Tail(@)], [GoodPackage EXCEPT !.entries = Reverse(@)],
       [GoodPackage EXCEPT !.entries[1].size = 2], [GoodPackage EXCEPT !.entries[2].size = 2],
       [GoodPackage EXCEPT !.entries[1].actual = 2], [GoodPackage EXCEPT !.entries[2].actual = 2],
       [GoodPackage EXCEPT !.entries[4].actual = 9],
       [GoodPackage EXCEPT !.entries = SubSeq(@, 1, 2)], [GoodPackage EXCEPT !.bytes = 3], [GoodPackage EXCEPT !.zip = FALSE],
       [GoodPackage EXCEPT !.profile.wellFormed = FALSE], [GoodPackage EXCEPT !.profile.dof = 1],
       J(<<ProfileJoint(1), ProfileJoint(1)>>), J(<<ProfileJoint(1), [ProfileJoint(2) EXCEPT !.protocolIndex = 1]>>),
       J(<<ProfileJoint(1), [ProfileJoint(2) EXCEPT !.urdfJointName = 1]>>), J(<<ProfileJoint(1), [ProfileJoint(2) EXCEPT !.lower = 1]>>),
       J(<<ProfileJoint(1), [ProfileJoint(2) EXCEPT !.urdfJointName = 4]>>),
       [GoodPackage EXCEPT !.profile.groups = <<>>], [GoodPackage EXCEPT !.profile.groups = <<{1}>>],
       [GoodPackage EXCEPT !.profile.groups = <<{1}, {1, 2}>>], [GoodPackage EXCEPT !.profile.groups = <<{1}, {2, 3}>>],
       [GoodPackage EXCEPT !.urdf.xml = FALSE], M(RelPath(<<"..", "..", "mesh", "link.stl">>)),
       M([absolute |-> TRUE, segments |-> <<"mesh", "link.stl">>]), M(RelPath(<<"arm.urdf">>)),
       M(RelPath(<<"x", "..", "..", "mesh", "link.stl">>)), M(RelPath(<<"..", "mesh">>)), M(RelPath(<<"..", "Mesh", "link.stl">>))>>
SegmentsInLowerCase == [s \in {"manifest.json", "model", "arm.urdf", "mesh", "link.stl", "MESH", "Mesh", "a", "x", "..", "reserved"} |->
             IF s \in {"MESH", "Mesh"} THEN "mesh" ELSE s]

-----------------------------------------------------------------------------
\* Joint groups around the rounding, the limits and the length of a line;
\* lines an operator may type; replies whole, cut short and mixed up.
Six(x) == [k \in 1 .. 6 |-> x]
JointGroup(positions, speed) == DummyCommand("jointGroup", 0, positions, speed)
JointGroups ==
  {JointGroup([Six(0) EXCEPT ![1] = x, ![6] = y], v) :
     x \in {-1699996, -12344, -4, 0, 6, 99, 12346}, y \in {0, 9999},
     v \in {NoSpeed, -10, 0, 4, 6, 999999, 1000000, 1000004}}
    \cup UNION {{JointGroup([Six(0) EXCEPT ![k] = DummyJointLimits[k][end] + x], 100000) :
                    x \in {-1000, -6, -4, 0, 4, 6, 10000}} : k \in 1 .. 6, end \in 1 .. 2}
    \cup {JointGroup(ps, v) : v \in {NoSpeed, 123456, 991236},
             ps \in {Six(-10001234), Six(1000),
                     <<-1691236, -741236, 1791236, -1791236, -1191236, -7191236>>}}
    \cup {JointGroup(<<0>>, 10000)}

OperatorLines ==
  LET Group(ts, n) == DummyLine(">", 0, ts, n)
      Text(x) == NumberText(x, "decimal", 3)
      seven == [k \in 1 .. 7 |-> Text(1)]
      texts == {NumberText(1, "hex", 3), NumberText(0, "junk", 2), Text(0), Text(200000), Text(-1)}
  IN  {DummyLine(h, 0, <<>>, Len(h)) : h \in Range(exactCommands) \cup {"$0,0,0,0,0,0"}}
        \cup {DummyLine("#CMDMODE", m, <<>>, n) : m \in 0 .. 4, n \in {10, 11}}
        \cup {Group(seven, n) : n \in {28, 63, 64, 255, 256}}
        \cup {Group(SubSeq(seven, 1, k), 28) : k \in {1, 5, 6}}
        \cup {Group([seven EXCEPT ![i] = t], 28) : i \in {1, 7}, t \in texts}
        \cup {[DummyLine("!STOP", 0, <<>>, 5) EXCEPT !.bytes = b] : b \in {"multiline", "nonAscii"}}
        \cup {DummyLine("", 0, <<>>, 0)}

ControllerReplies ==
  LET ok == Word("ok")
      Real(n) == Token("real", "", n, TRUE)
      Hex(n) == Token("hex", "", n, TRUE)
      tokens == {ok, ErrorWord(""), ErrorWord("E1"), Word("Started"), Word("INT_POINT"), Numeral(1),
                 Numeral(2), Numeral(4), Numeral(LargestInt), Numeral(LargestInt + 1), Real(3)}
      Whole(ts) == ReplyLine(ts, {})
      Joints(t) == <<ok, Real(1), Numeral(2), t, Real(4), Real(5), Real(6)>>
      names == {"SEQ_POINT", "INT_POINT", "COMP_CURRENT", "int_point", ""}
      brackets == {ModeNumber(n, c) : n \in {NotDigits, 1, 2, 4, LargestInt + 1}, c \in BOOLEAN}
      parens == {ModeName(w, c) : w \in names, c \in BOOLEAN}
      acks == {ModeAckPrefix, Append(ModeAckPrefix, ok)}
                \cup {Append(ModeAckPrefix, b) : b \in brackets}
                \cup {ModeAckPrefix \o <<b, p>> : b \in brackets, p \in parens \cup {ok}}
                \cup {ModeAckPrefix \o <<b, p, p>> : b \in brackets, p \in parens}
  IN  {Whole(ts) : ts \in UNION {[1 .. n -> tokens] : n \in 0 .. 3}}
        \cup {Whole(<<Numeral(n)>>) : n \in {15, 16, 254, 255, 256}}
        \cup {Whole(SubSeq(Joints(t), 1, n)) : n \in 4 .. 7, t \in tokens \cup {Hex(3)}}
        \cup {Whole(ts) : ts \in acks}
        \cup UNION {{ReplyLine(ts, {k}) : k \in 1 .. Len(ts) - 1} :
                      ts \in acks \cup {Joints(Real(3)), <<Word("Started"), ok>>, <<ok, Numeral(1)>>,
                                        <<ok, Numeral(2), Word("INT_POINT")>>,
                                        Append(Joints(Real(3)), Real(7)),
                                        <<ErrorWord(""), Word("E1"), ok>>, <<ErrorWord("E1"), ok>>}}

\* Requests that a formatter takes or refuses, and one frame of each other kind.
Field(k, v) == <<Spell(k), Spell(v)>>
ControllerRequests ==
  {ArmRequest(n, Spell("STOP"), fs) : n \in {0, 1, 99, 100}, fs \in {<<>>, <<Field("a", "1")>>}}
    \cup {ArmRequest(7, op, <<>>) : op \in {Spell("STOPX"), Spell("stop")} \cup requestOperations}
    \cup {ArmRequest(7, Spell("HELLO"), fs) :
            fs \in {<<Field("a", "1"), Field("a_1", "0")>>, <<Field("a", "1"), Field("a", "1")>>,
                    <<Field("A", "1")>>, <<Field("a", "")>>, <<<<Spell("a"), <<Star>>>>>>,
                    <<<<Spell("a"), <<200>>>>>>,
                    <<Field("a", "1"), Field("b", "1"), Field("c", "1"), Field("d", "1")>>}}
ControllerFrames ==
  {[kind |-> k[1], sequence |-> k[2], subject |-> Spell(k[3]), fields |-> <<Field("t", "5")>>] :
     k \in {<<"ACK", 3, "accepted">>, <<"RSP", 3, "ok">>, <<"ERR", 0, "BUSY">>,
            <<"DONE", 4, "STOP">>, <<"EVT", 0, "BOOT">>, <<"TEL", 0, "JPOS">>}}

-----------------------------------------------------------------------------
\* Host settings at and beyond every bound, one command of each shape and
\* direct requests with identifiers and lines at the limits.
Host(policy, desktop, envelope) ==
  [policy |-> policy, desktop |-> desktop, speedLimit |-> envelope[1], tolerance |-> envelope[2],
   settled |-> envelope[3], timeout |-> envelope[4]]
Environments ==
  {Host(p, d, e) : p \in {"disabled", "supervised", "engineering"}, d \in BOOLEAN,
     e \in {<<Null, Null, Null, Null>>, <<30, Null, 300, 9000>>, <<Null, 50, 300, 9000>>,
            <<0, 50, 300, 9000>>, <<1, 500, 5000, 5001>>, <<1, 1, 100, 500>>,
            <<1, 501, 100, 500>>, <<1, 1, 600, 600>>}}
WireCommand(kind, mode, positions, speed) ==
  [kind |-> kind, commandId |-> 1, sessionId |-> 1, profileId |-> "dummy-6dof", mode |-> mode,
   positions |-> positions, speed |-> speed]
WireCommands ==
  LET enable == WireCommand("enable", Null, Null, Null)
  IN  {enable, WireCommand("setMode", 9, Null, Null), WireCommand("jointGroup", Null, 6, 5),
       WireCommand("jointGroup", Null, Null, Null), WireCommand("jointGroup", Null, 7, Null),
       [enable EXCEPT !.commandId = 129], [enable EXCEPT !.profileId = "other"]}
DirectCommands ==
  {[requestId |-> i, sessionId |-> s, profileId |-> "dummy-6dof", line |-> l] :
     i \in {0, 36, 128, 129}, s \in {0, 36}, l \in {0, 255, 256}}
=============================================================================
