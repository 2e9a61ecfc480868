------------------------------ MODULE AsciiCodec ------------------------------
(***************************************************************************)
(* The two line protocols of the contracts package, from the request to    *)
(* its reader: Dummy ASCII (shared/contracts/src/dummyAsciiV1.ts), whose    *)
(* lines the console formats, the terminal validates and the gateway       *)
(* (DummyAsciiProtocol.cs) parses on its own; and Aethor Arm ASCII          *)
(* (aethorArmAsciiV1.ts), whose frames carry a CRC.                         *)
(*                                                                         *)
(* A Dummy line is its head, its arguments and its length: a number's text *)
(* is the value it denotes, how it is written and how many characters it   *)
(* takes.  An Arm frame is its bytes, because the CRC is over them.        *)
(***************************************************************************)
EXTENDS Integers, Sequences, SequencesExt, Bitwise

CONSTANTS
  GroupCommands,   \* joint-group requests, in ten-thousandths of a degree
  TypedLines,      \* lines an operator types at the terminal
  ReplyLines,      \* lines a Dummy controller answers with
  LargestInt,      \* the largest int of the gateway, scaled down from 2^31 - 1
  SpeedLimit,      \* engineering speed ceiling of the gateway, likewise
  ArmRequests,     \* requests to an Arm controller
  ArmFrames,       \* frames of other kinds, as they come from a controller
  ARM_MAX_LINE,    \* AETHOR_ARM_ASCII_MAX_LINE_BYTES
  SequenceLimit,   \* UINT32_MAX
  Noise            \* bytes that damage puts into a frame

VARIABLES
  asked,     \* the request, line or reply this exchange is about
  wire,      \* the line: of the Dummy protocol, or the bytes of a frame
  readings   \* what each reader made of it

codecVars == <<asked, wire, readings>>

-----------------------------------------------------------------------------
(* Dummy ASCII: commands.                                                  *)

DUMMY_ASCII_MAX_LINE_CHARS == 255
DUMMY_ASCII_MOTION_QUEUE_BYTES == 64

\* The commands without arguments and the line of each.
exactCommands ==
  [start |-> "!START", stop |-> "!STOP", disable |-> "!DISABLE", home |-> "!HOME",
   reset |-> "!RESET", queryJointPositions |-> "#GETJPOS", queryMode |-> "#GETMODE",
   queryEnable |-> "#GETENABLE"]
Queries == {"#GETJPOS", "#GETMODE", "#GETENABLE"}

isAllowedMode(m) == m \in 1 .. 3

NoSpeed == 0 - 1000000
DummyCommand(type, mode, positions, speed) ==
  [type |-> type, mode |-> mode, positionsDeg |-> positions, speedDegS |-> speed]

DummyStructuredCommands ==
  {DummyCommand(t, 0, <<>>, NoSpeed) : t \in DOMAIN exactCommands}
    \cup {DummyCommand("setMode", m, <<>>, NoSpeed) : m \in 0 .. 4}
    \cup GroupCommands

Refused == [head |-> "refused", mode |-> 0, values |-> <<>>, chars |-> 0, bytes |-> "printable"]
DummyLine(head, mode, values, chars) ==
  [head |-> head, mode |-> mode, values |-> values, chars |-> chars, bytes |-> "printable"]

\* A number's text: value in thousandths, notation and length.
NumberText(value, notation, chars) == [value |-> value, notation |-> notation, chars |-> chars]

AbsOf(v) == IF v < 0 THEN 0 - v ELSE v
DigitsOf(n) == CHOOSE d \in 1 .. 9 : n < 10^d /\ (d = 1 \/ n >= 10^(d - 1))

\* Mutant: the digits beyond the third are cut off instead of rounded.
formatTruncated(v) ==
  NumberText(IF v < 0 THEN 0 - (AbsOf(v) \div 10) ELSE v \div 10, "decimal",
             DigitsOf(AbsOf(v) \div 10000) + 4)

\* toFixed(3) with the trailing zeros, and a bare point, removed.  A tie goes
\* up here; the binary value of a tie may lie below it, half a step away too.
formatFiniteNumber(v) ==
  LET size == IF AbsOf(v) < 5 THEN 0 ELSE (AbsOf(v) + 5) \div 10
      fraction == IF size % 1000 = 0 THEN 0
                  ELSE IF size % 100 = 0 THEN 2 ELSE IF size % 10 = 0 THEN 3 ELSE 4
      sign == IF v < 0 /\ size # 0 THEN 1 ELSE 0
  IN  NumberText(IF v < 0 THEN 0 - size ELSE size, "decimal",
                 sign + DigitsOf(size \div 1000) + fraction)

\* The length of the values joined by commas after the ">".
GroupChars(values) == FoldLeft(LAMBDA n, t : n + t.chars + 1, 0, values)

formatDummyCommand(c) ==
  LET given == c.positionsDeg \o (IF c.speedDegS = NoSpeed THEN <<>> ELSE <<c.speedDegS>>)
      values == [k \in DOMAIN given |-> formatFiniteNumber(given[k])]
  IN  CASE c.type \in DOMAIN exactCommands ->
             DummyLine(exactCommands[c.type], 0, <<>>, Len(exactCommands[c.type]))
        [] c.type = "setMode" ->
             IF isAllowedMode(c.mode) THEN DummyLine("#CMDMODE", c.mode, <<>>, 10) ELSE Refused
        [] OTHER ->
             IF \/ Len(c.positionsDeg) # 6
                \/ c.speedDegS # NoSpeed /\ c.speedDegS <= 0
                \/ GroupChars(values) >= DUMMY_ASCII_MOTION_QUEUE_BYTES
               THEN Refused ELSE DummyLine(">", 0, values, GroupChars(values))

Verdict(code, kind, risk) == [code |-> code, kind |-> kind, risk |-> risk]
invalid(code) == Verdict(code, "invalid", "low")
valid(kind, risk) == Verdict("VALID", kind, risk)

\* Number() reads decimal and hexadecimal notation, and nothing else is finite.
validateJointGroupLine(l) ==
  IF Len(l.values) \notin {6, 7} THEN invalid("ARGUMENT_COUNT")
  ELSE IF \/ \E k \in DOMAIN l.values : l.values[k].notation \notin {"decimal", "hex"}
          \/ Len(l.values) = 7 /\ l.values[7].value <= 0
    THEN invalid("INVALID_NUMBER")
  ELSE IF l.chars >= DUMMY_ASCII_MOTION_QUEUE_BYTES THEN invalid("MOTION_LINE_TOO_LONG")
  ELSE valid("jointGroup", "high")

validateDummyRawCommand(l) ==
  CASE l.chars = 0 -> invalid("EMPTY")
    [] l.chars # 0 /\ l.bytes = "multiline" -> invalid("MULTILINE")
    [] l.bytes # "multiline" /\ l.chars > DUMMY_ASCII_MAX_LINE_CHARS -> invalid("TOO_LONG")
    [] l.chars \in 1 .. DUMMY_ASCII_MAX_LINE_CHARS /\ l.bytes = "nonAscii" -> invalid("NON_ASCII")
    [] OTHER ->
         CASE l.head \in Queries -> valid("query", "low")
           [] l.head \in Range(exactCommands) \ Queries -> valid("system", "high")
           [] l.head = "#CMDMODE" ->
                IF isAllowedMode(l.mode) THEN valid("mode", "high") ELSE invalid("MODE_NOT_ALLOWED")
           [] l.head = ">" -> validateJointGroupLine(l)
           [] OTHER -> invalid("COMMAND_NOT_ALLOWED")

\* The terminal's verdict, and with it whether its send button is armed.
validateDummyCommand(l) == validateDummyRawCommand(l).code = "VALID"

-----------------------------------------------------------------------------
(* Dummy ASCII: the gateway's own reader of the same lines.                *)

NoCommand == DummyCommand("rejected", 0, <<>>, NoSpeed)

\* The lower and upper limit of each joint, in ten-thousandths of a degree.
DummyJointLimits ==
  <<<<0 - 1700000, 1700000>>, <<0 - 750000, 900000>>, <<0, 1800000>>,
    <<0 - 1800000, 1800000>>, <<0 - 1200000, 1200000>>, <<0 - 7200000, 7200000>>>>
InLimits(k, x) == x >= DummyJointLimits[k][1] /\ x <= DummyJointLimits[k][2]

\* A group needs an explicit speed, decimal numbers and targets in range; a
\* mode is written with exactly one blank and one digit.  Values are read
\* back into ten-thousandths.
TryParseEngineeringCommand(l) ==
  LET read == [k \in DOMAIN l.values |-> l.values[k].value * 10]
      direct == {"start", "stop", "disable", "queryJointPositions", "queryMode", "queryEnable"}
  IN  IF l.bytes # "printable" \/ l.chars \notin 1 .. DUMMY_ASCII_MAX_LINE_CHARS THEN NoCommand
      ELSE IF \E t \in direct : exactCommands[t] = l.head
        THEN DummyCommand(CHOOSE t \in direct : exactCommands[t] = l.head, 0, <<>>, NoSpeed)
      ELSE IF l.head = "#CMDMODE" /\ l.chars = 10 /\ isAllowedMode(l.mode)
        THEN DummyCommand("setMode", l.mode, <<>>, NoSpeed)
      ELSE IF /\ l.head = ">" /\ Len(l.values) = 7
              /\ \A k \in 1 .. 7 : l.values[k].notation = "decimal"
              /\ \A k \in 1 .. 6 : InLimits(k, read[k])
              /\ read[7] > 0 /\ read[7] <= SpeedLimit
        THEN DummyCommand("jointGroup", 0, SubSeq(read, 1, 6), read[7])
      ELSE NoCommand

-----------------------------------------------------------------------------
(* Characters.                                                             *)

CharRun(first, chars) ==
  [c \in {SubSeq(chars, i, i) : i \in 1 .. Len(chars)} |->
     first - 1 + CHOOSE i \in 1 .. Len(chars) : SubSeq(chars, i, i) = c]
CharCode == CharRun(48, "0123456789") @@ CharRun(65, "ABCDEFGHIJKLMNOPQRSTUVWXYZ")
              @@ CharRun(97, "abcdefghijklmnopqrstuvwxyz") @@ CharRun(95, "_")

\* The bytes of a word.
Spell(s) == [i \in 1 .. Len(s) |-> CharCode[SubSeq(s, i, i)]]

UpperBytes == 65 .. 90

-----------------------------------------------------------------------------
(* Dummy ASCII: replies.  A line is its tokens and the places where a tab   *)
(* and not a blank stands between two of them.  The token "[n]" or "(NAME)" *)
(* of a mode acknowledgement may lack its end.                              *)

modeNames == <<"SEQ_POINT", "INT_POINT", "CONT_TRAJ">>
Acks == {"Started", "Stopped", "Disabled", "Homing"}

Token(form, text, value, closed) ==
  [form |-> form, text |-> text, value |-> value, closed |-> closed]
Word(w) == Token("word", w, 0, TRUE)
Numeral(n) == Token("digits", "", n, TRUE)
ErrorWord(suffix) == Token("error", suffix, 0, TRUE)
ModeNumber(n, closed) == Token("bracket", "", n, closed)
ModeName(name, closed) == Token("paren", name, 0, closed)

NotDigits == 0 - 1   \* the number of a bracket that holds no digits
ReplyLine(tokens, tabs) == [tokens |-> tokens, tabs |-> tabs]

ModeAckPrefix == <<Word("ok"), Word("Set"), Word("command"), Word("mode"), Word("to")>>

\* Two tokens and a blank between them, as a literal.
IsLiteral(l, ts) == l.tokens = ts /\ l.tabs = {}

\* What a reply says: its kind, its numbers and its word.
Reading(kind, numbers, word) == [kind |-> kind, numbers |-> numbers, word |-> word]
UnknownReply == Reading("unknown", <<>>, Word(""))
MalformedReply(reason) == Reading("malformed", <<>>, Word(reason))

\* A mode by number and name; the name must be the mode's.
ModeReading(kind, n, name) ==
  IF ~isAllowedMode(n) THEN Reading("unsupportedMode", <<n>>, name)
  ELSE IF name # Word(modeNames[n]) THEN MalformedReply("invalid-mode-name")
  ELSE Reading(kind, <<n>>, name)

\* /^ok Set command mode to \[(\d+)] \(([A-Z_]+)\)$/
IsModeAck(l) ==
  /\ l.tabs = {} /\ Len(l.tokens) = 7 /\ SubSeq(l.tokens, 1, 5) = ModeAckPrefix
  /\ l.tokens[6].form = "bracket" /\ l.tokens[6].closed /\ l.tokens[6].value # NotDigits
  /\ l.tokens[7].form = "paren" /\ l.tokens[7].closed /\ l.tokens[7].text # ""
  /\ Range(Spell(l.tokens[7].text)) \subseteq UpperBytes \cup {95}

\* Number() of a token is finite; tokens end at any white space.
parseDummyResponseLine(l) ==
  LET ts == l.tokens
      ok == ts # <<>> /\ ts[1] = Word("ok")
  IN  IF ts = <<>> THEN UnknownReply
      ELSE IF \E a \in Acks : IsLiteral(l, <<Word(a), Word("ok")>>)
        THEN Reading("systemAck", <<>>, ts[1])
      ELSE IF ts = <<Word("ok")>> THEN Reading("genericAck", <<>>, Word(""))
      ELSE IF ts[1].form = "error"
        THEN Reading("error", <<>>, IF ts[1].text # "" THEN Word(ts[1].text)
                                    ELSE IF Len(ts) = 1 THEN Word("UNKNOWN") ELSE ts[2])
      ELSE IF Len(ts) = 1 /\ ts[1].form = "digits"
        THEN IF ts[1].value \in (0 .. 15) \cup {255}
               THEN Reading("queue", <<ts[1].value>>, Word("")) ELSE MalformedReply("invalid-queue-value")
      ELSE IF IsModeAck(l) THEN ModeReading("modeAck", ts[6].value, Word(ts[7].text))
      ELSE IF ok /\ Len(ts) = 2 /\ ts[2] \in {Numeral(0), Numeral(1)}
        THEN Reading("enable", <<ts[2].value>>, Word(""))
      ELSE IF ok /\ Len(ts) = 3 /\ ts[2].form = "digits"
        THEN ModeReading("mode", ts[2].value, ts[3])
      ELSE IF ok /\ Len(ts) = 7
        THEN IF \A k \in 2 .. 7 : ts[k].form \in {"digits", "real", "hex"}
               THEN Reading("jointPositions", [k \in 1 .. 6 |-> ts[k + 1].value], Word(""))
               ELSE MalformedReply("invalid-number")
      ELSE UnknownReply

\* The gateway's reader ends a token at a blank only: tokens with a tab
\* between them are one, which is neither a number nor a name it knows.
Garbled == Word("two words and a tab")
SplitAtBlanks(l) ==
  LET starts == SelectSeq([k \in DOMAIN l.tokens |-> k], LAMBDA k : k - 1 \notin l.tabs)
  IN  [k \in DOMAIN starts |-> IF starts[k] \in l.tabs THEN Garbled ELSE l.tokens[starts[k]]]

\* Its integers are 32 bits wide.
TryParseInteger(t) == t.form \in {"digits", "bracket"} /\ t.closed /\ t.value \in 0 .. LargestInt

\* Mutant: the end of the name in a mode acknowledgement is not looked at.
AckWithoutEnd(l) ==
  IF ~TryParseInteger(l.tokens[6]) THEN MalformedReply("invalid-number")
  ELSE IF Len(l.tokens) # 7 \/ 6 \in l.tabs \/ l.tokens[7].form # "paren" THEN UnknownReply
  ELSE ModeReading("modeAck", l.tokens[6].value, Word(l.tokens[7].text))

\* A bracket that does not end, or holds no integer, is malformed; what
\* follows it must be a blank and a name, to the end of the line.
ParseModeAcknowledgement(l) ==
  LET ts == l.tokens
      last == ts[Len(ts)]
  IN  IF ~TryParseInteger(ts[6]) THEN MalformedReply("invalid-number")
      ELSE IF Len(ts) = 6 \/ 6 \in l.tabs \/ ts[7].form # "paren" THEN UnknownReply
      ELSE IF last.form # "paren" \/ ~last.closed \/ (Len(ts) = 7 /\ last.text = "") THEN UnknownReply
      ELSE ModeReading("modeAck", ts[6].value, IF Len(ts) = 7 THEN Word(last.text) ELSE Garbled)

\* A numeral that is too wide throws inside the receive handler, which ends
\* the session: "overflow" is no reading but that exception.
ParseResponseLine(l) ==
  LET ts == SplitAtBlanks(l)
      ok == ts # <<>> /\ ts[1] = Word("ok")
      modeAck == /\ Len(l.tokens) > 5 /\ SubSeq(l.tokens, 1, 5) = ModeAckPrefix
                 /\ l.tabs \cap (1 .. 5) = {} /\ l.tokens[6].form = "bracket"
      error == l.tokens # <<>> /\ l.tokens[1].form = "error"
      \* The rest of an error line, its first tab trimmed.
      rest == SplitAtBlanks([l EXCEPT !.tabs = @ \ {1}])
      code == IF l.tokens[1].text # "" THEN IF 1 \in l.tabs THEN Garbled ELSE Word(l.tokens[1].text)
              ELSE IF Len(rest) = 1 THEN Word("UNKNOWN") ELSE rest[2]
  IN  CASE ts = <<>> -> UnknownReply
        [] \E a \in Acks : IsLiteral(l, <<Word(a), Word("ok")>>) -> Reading("systemAck", <<>>, ts[1])
        [] ts = <<Word("ok")>> -> Reading("genericAck", <<>>, Word(""))
        [] error -> Reading("error", <<>>, code)
        [] Len(ts) = 1 /\ ts[1].form = "digits" ->
             IF ts[1].value > LargestInt THEN Reading("overflow", <<>>, Word(""))
             ELSE IF ts[1].value = 255 \/ ts[1].value <= 15 THEN Reading("queue", <<ts[1].value>>, Word(""))
             ELSE MalformedReply("invalid-queue-value")
        [] modeAck -> ParseModeAcknowledgement(l)
        [] ok /\ Len(ts) = 2 /\ ts[2] \in {Numeral(0), Numeral(1)} ->
             Reading("enable", <<ts[2].value>>, Word(""))
        [] ok /\ Len(ts) = 3 /\ ts[2].form = "digits" /\ TryParseInteger(ts[2]) ->
             ModeReading("mode", ts[2].value, ts[3])
        [] ok /\ Len(ts) = 7 /\ ~modeAck ->
             IF \A k \in 2 .. 7 : ts[k].form \in {"digits", "real"}
               THEN Reading("jointPositions", [k \in 1 .. 6 |-> ts[k + 1].value], Word(""))
               ELSE MalformedReply("invalid-number")
        [] OTHER -> UnknownReply

-----------------------------------------------------------------------------
(* Aethor Arm ASCII: frames of bytes under a CRC.                          *)

Space == 32
Star == 42
Equals == 61
DigitBytes == 48 .. 57
LowerBytes == 97 .. 122
isPrintableAscii(bytes) == \A i \in DOMAIN bytes : bytes[i] \in 32 .. 126

\* The operations, and the risk the terminal shows for each.
operationPolicy ==
  [HELLO |-> "low", GET_INFO |-> "low", GET_CONFIG |-> "low", GET_STATE |-> "low",
   GET_JPOS |-> "low", GET_MOTORS |-> "low", GET_DIAG |-> "low", HEARTBEAT |-> "low",
   SET_STREAM |-> "medium", ALIGN_REFERENCE |-> "high", ENABLE |-> "high", STOP |-> "high",
   DISABLE |-> "high", CLEAR_FAULT |-> "high", MOVE_JOINTS |-> "high"]
requestOperations == {Spell(op) : op \in DOMAIN operationPolicy}
frameKinds == {"REQ", "ACK", "RSP", "ERR", "DONE", "EVT", "TEL"}

\* CRC-16 with polynomial 0x1021, start value 0xffff, most significant bit first;
\* the eight steps of a byte are tabulated.
CrcBit(crc) == IF crc >= 32768 THEN ((crc * 2) % 65536) ^^ 4129 ELSE crc * 2
CrcByte(b) ==
  LET after[bit \in 0 .. 8] == IF bit = 0 THEN b * 256 ELSE CrcBit(after[bit - 1])
  IN  after[8]
CrcTable == [b \in 0 .. 255 |-> CrcByte(b)]
CrcStep(crc, b) == ((crc % 256) * 256) ^^ CrcTable[(crc \div 256) ^^ b]
computeAethorArmCrc16Ascii(body) == FoldLeft(CrcStep, 65535, body)

formatCrc(crc) ==
  [i \in 1 .. 4 |-> LET d == (crc \div (16^(4 - i))) % 16 IN IF d < 10 THEN 48 + d ELSE 55 + d]
Decimal(n) == [i \in 1 .. DigitsOf(n) |-> 48 + ((n \div (10^(DigitsOf(n) - i))) % 10)]

fieldKeyPattern(k) ==
  /\ k # <<>> /\ k[1] \in LowerBytes
  /\ \A i \in DOMAIN k : k[i] \in LowerBytes \cup DigitBytes \cup {95}
upperTokenPattern(t) ==
  t # <<>> /\ t[1] \in UpperBytes /\ \A i \in DOMAIN t : t[i] \in UpperBytes \cup DigitBytes \cup {95}
ValueClean(v) == v # <<>> /\ \A i \in DOMAIN v : v[i] \notin {Space, Star, Equals}

assertField(fields, k) ==
  /\ fieldKeyPattern(fields[k][1])
  /\ ValueClean(fields[k][2]) /\ isPrintableAscii(fields[k][2])
  /\ \A j \in 1 .. k - 1 : fields[j][1] # fields[k][1]

\* The line: tokens joined by single blanks, a blank, a star and the CRC.
FrameBytes(kind, sequence, subject, fields) ==
  LET head == Spell(kind) \o <<Space>> \o Decimal(sequence) \o <<Space>> \o subject
      body == FoldLeft(LAMBDA s, f : s \o <<Space>> \o f[1] \o <<Equals>> \o f[2], head, fields)
  IN  body \o <<Space, Star>> \o formatCrc(computeAethorArmCrc16Ascii(body))

ArmRequest(id, operation, fields) ==
  [kind |-> "REQ", sequence |-> id, subject |-> operation, fields |-> fields]

\* The empty line stands for a refusal.
formatAethorArmRequest(r) ==
  LET line == FrameBytes("REQ", r.sequence, r.subject, r.fields)
  IN  IF /\ r.sequence \in 1 .. SequenceLimit /\ r.subject \in requestOperations
         /\ \A k \in DOMAIN r.fields : assertField(r.fields, k)
         /\ Len(line) <= ARM_MAX_LINE
        THEN line ELSE <<>>

\* The pieces of a line between one byte and the next.
SplitAtByte(s, b) ==
  LET marks == SelectSeq([i \in 1 .. Len(s) |-> i], LAMBDA i : s[i] = b)
      cut(k) == IF k = 0 THEN 0 ELSE IF k > Len(marks) THEN Len(s) + 1 ELSE marks[k]
  IN  [k \in 1 .. Len(marks) + 1 |-> SubSeq(s, cut(k - 1) + 1, cut(k) - 1)]

DecimalValue(t) == FoldLeft(LAMBDA n, b : n * 10 + (b - 48), 0, t)

requiresNonZeroSequence(kind) == kind \in {"REQ", "ACK", "RSP", "DONE"}

isValidSubject(kind, subject) ==
  CASE kind = "ACK" -> subject = Spell("accepted")
    [] kind = "RSP" -> subject = Spell("ok")
    [] OTHER -> upperTokenPattern(subject)

NoArmFrame == ArmRequest(0, <<>>, <<>>)
ArmReading(code, frame) == [code |-> code, frame |-> frame]

\* A body whose CRC holds: kind, number, subject and fields, in this order.
parseBody(body) ==
  LET tokens == SplitAtByte(body, Space)
      kinds == {k \in frameKinds : Spell(k) = tokens[1]}
      kind == CHOOSE k \in kinds : TRUE
      pairs == [i \in 1 .. Len(tokens) - 3 |-> SplitAtByte(tokens[i + 3], Equals)]
      Bad(p) == Len(p) # 2 \/ ~fieldKeyPattern(p[1]) \/ ~ValueClean(p[2])
  IN  IF Len(tokens) < 3 \/ (\E i \in DOMAIN tokens : tokens[i] = <<>>) \/ kinds = {}
           \/ Len(tokens[2]) > 10 \/ ~(Range(tokens[2]) \subseteq DigitBytes)
        THEN ArmReading("BAD_FRAME", NoArmFrame)
      ELSE IF \/ DecimalValue(tokens[2]) > SequenceLimit
              \/ requiresNonZeroSequence(kind) /\ DecimalValue(tokens[2]) = 0
        THEN ArmReading("SEQUENCE_OUT_OF_RANGE", NoArmFrame)
      ELSE IF ~isValidSubject(kind, tokens[3]) THEN ArmReading("BAD_FRAME", NoArmFrame)
      ELSE IF kind = "REQ" /\ tokens[3] \notin requestOperations
        THEN ArmReading("UNKNOWN_OPERATION", NoArmFrame)
      ELSE IF \/ \E i \in DOMAIN pairs : Bad(pairs[i])
              \/ \E i, j \in DOMAIN pairs : i # j /\ pairs[i][1] = pairs[j][1]
        THEN ArmReading("BAD_FRAME", NoArmFrame)
      ELSE ArmReading("VALID", [kind |-> kind, sequence |-> DecimalValue(tokens[2]),
                                subject |-> tokens[3], fields |-> pairs])

\* The last six bytes are a blank, a star and four upper-case hex digits.
parseAethorArmAsciiFrame(line) ==
  LET marker == Len(line) - 5
      body == SubSeq(line, 1, marker - 1)
      crcText == SubSeq(line, marker + 2, Len(line))
  IN  CASE line = <<>> -> ArmReading("EMPTY", NoArmFrame)
        [] line # <<>> /\ Range(line) \cap {10, 13} # {} -> ArmReading("MULTILINE", NoArmFrame)
        [] Range(line) \cap {10, 13} = {} /\ Len(line) > ARM_MAX_LINE ->
             ArmReading("TOO_LONG", NoArmFrame)
        [] OTHER ->
             IF ~isPrintableAscii(line) THEN ArmReading("NON_ASCII", NoArmFrame)
             ELSE IF \/ marker <= 1 \/ line[marker] # Space \/ line[marker + 1] # Star
                     \/ ~(Range(crcText) \subseteq DigitBytes \cup (65 .. 70))
                     \/ Star \in Range(body)
               THEN ArmReading("BAD_FRAME", NoArmFrame)
             ELSE IF formatCrc(computeAethorArmCrc16Ascii(body)) # crcText
               THEN ArmReading("BAD_CRC", NoArmFrame)
             ELSE parseBody(body)

\* The terminal takes requests only.
validateAethorCandidateCommand(line) ==
  LET parsed == parseAethorArmAsciiFrame(line)
  IN  parsed.code = "VALID" /\ parsed.frame.kind = "REQ"

-----------------------------------------------------------------------------
CodecInit ==
  /\ asked = [what |-> "nothing"]
  /\ wire = <<>>
  /\ readings = [done |-> FALSE]

\* The console formats a command; a refusal writes nothing.
FormatDummy(c) ==
  /\ asked' = [what |-> "command", is |-> c]
  /\ wire' = formatDummyCommand(c)
  /\ UNCHANGED readings

TypeDummy(l) ==
  /\ asked' = [what |-> "typed", is |-> l]
  /\ wire' = l
  /\ UNCHANGED readings

\* The web's verdict on a Dummy line, and the gateway's reading of it: a
\* formatted line is sent as it is, a typed one only when it is valid.
ReadDummy ==
  /\ asked.what \in {"command", "typed"} /\ ~readings.done
  /\ wire.head # "refused"
  /\ LET web == validateDummyRawCommand(wire)
      IN  readings' = [done |-> TRUE, web |-> web,
                       gateway |-> IF asked.what = "command" \/ validateDummyCommand(wire)
                                     THEN TryParseEngineeringCommand(wire) ELSE NoCommand]
  /\ UNCHANGED <<asked, wire>>

ReceiveReply(l) ==
  /\ asked' = [what |-> "reply"]
  /\ wire' = l
  /\ readings' = [done |-> TRUE, web |-> parseDummyResponseLine(l), gateway |-> ParseResponseLine(l)]

FormatArm(r) ==
  /\ asked' = [what |-> "request", is |-> r, intact |-> TRUE]
  /\ wire' = formatAethorArmRequest(r)
  /\ UNCHANGED readings

\* A controller frames its answers and reports the same way.
ControllerFrame(f) ==
  /\ asked' = [what |-> "frame", is |-> f, intact |-> TRUE]
  /\ wire' = FrameBytes(f.kind, f.sequence, f.subject, f.fields)
  /\ UNCHANGED readings

\* The line changes one byte, or exchanges two neighbours.
DamageFrame ==
  /\ asked.what \in {"request", "frame"} /\ ~readings.done
  /\ asked.intact
  /\ \/ \E i \in DOMAIN wire, b \in Noise : wire[i] # b /\ wire' = [wire EXCEPT ![i] = b]
     \/ \E i \in 1 .. Len(wire) - 1 :
          /\ wire[i] # wire[i + 1]
          /\ wire' = [wire EXCEPT ![i] = wire[i + 1], ![i + 1] = wire[i]]
  /\ asked' = [asked EXCEPT !.intact = FALSE]
  /\ UNCHANGED readings

ReadFrame ==
  /\ asked.what \in {"request", "frame"} /\ ~readings.done
  /\ readings' = [done |-> TRUE, web |-> parseAethorArmAsciiFrame(wire),
                  sendable |-> validateAethorCandidateCommand(wire)]
  /\ UNCHANGED <<asked, wire>>

\* An exchange begins with a line that somebody writes.
CodecNext ==
  \/ /\ asked.what = "nothing"
     /\ \/ \E c \in DummyStructuredCommands : FormatDummy(c)
        \/ \E l \in TypedLines : TypeDummy(l)
        \/ \E l \in ReplyLines : ReceiveReply(l)
        \/ \E r \in ArmRequests : FormatArm(r)
        \/ \E f \in ArmFrames : ControllerFrame(f)
  \/ ReadDummy
  \/ DamageFrame
  \/ ReadFrame

CodecSpec == CodecInit /\ [][CodecNext]_codecVars

-----------------------------------------------------------------------------
\* What the console formats, the gateway executes: the same command, with
\* every number within half a thousandth of a degree of the one asked for.
\* It refuses only what it never executes: HOME and RESET, a group without a
\* speed or out of range, and a speed that rounds to zero.
Executable(c) ==
  /\ c.type \notin {"home", "reset"} /\ (c.type = "setMode" => isAllowedMode(c.mode))
  /\ c.type = "jointGroup" =>
       /\ Len(c.positionsDeg) = 6 /\ c.speedDegS >= 5 /\ c.speedDegS <= SpeedLimit
       /\ \A k \in 1 .. 6 : InLimits(k, c.positionsDeg[k])
CommandsAgree ==
  asked.what = "command" =>
    LET c == asked.is
        g == readings.gateway
        Near(x, y) == AbsOf(x - y) <= 5
    IN  /\ Executable(c) => wire.head # "refused"
        /\ readings.done /\ Executable(c) => g.type = c.type
        /\ readings.done /\ g.type # "rejected" =>
             /\ readings.web.code = "VALID"
             /\ g.type = c.type /\ g.mode = c.mode
             /\ c.type = "jointGroup" =>
                  /\ Near(g.speedDegS, c.speedDegS)
                  /\ \A k \in 1 .. 6 : Near(g.positionsDeg[k], c.positionsDeg[k])

\* What the operator sends after the terminal called it a query, a mode or a
\* joint group is executed as one, or not at all.
KindOfType(t) ==
  CASE t \in {"queryJointPositions", "queryMode", "queryEnable"} -> "query"
    [] t = "setMode" -> "mode"
    [] t = "jointGroup" -> "jointGroup"
    [] OTHER -> "system"
TypedAgree ==
  asked.what = "typed" /\ readings.done /\ readings.gateway.type # "rejected" =>
    /\ readings.web.kind = KindOfType(readings.gateway.type)
    /\ readings.web.risk = IF readings.web.kind = "query" THEN "low" ELSE "high"

\* A frame that arrives intact is read as the request or report it frames,
\* and a damaged one is never taken for a frame.
FramesAgree ==
  asked.what \in {"request", "frame"} /\ readings.done =>
    /\ asked.intact /\ wire # <<>> /\ Len(wire) <= ARM_MAX_LINE =>
         readings.web = ArmReading("VALID", asked.is)
    /\ ~asked.intact => readings.web.code # "VALID" /\ ~readings.sendable
    /\ readings.sendable => asked.what = "request"

\* What the gateway takes from a reply as evidence (an acknowledgement, a mode,
\* a position, room in the queue), the contract's parser reads from the same
\* line.  The other way it needs a line without a tab, a hexadecimal numeral or
\* a numeral too wide for the gateway.  On a reply that is evidence for neither
\* the two may differ: one is malformed where the other is unknown.
Evidence == {"systemAck", "genericAck", "queue", "enable", "mode", "modeAck", "jointPositions"}
PlainLine(l) ==
  l.tabs = {} /\ \A k \in DOMAIN l.tokens : l.tokens[k].form # "hex" /\ l.tokens[k].value <= LargestInt
RepliesAgree ==
  asked.what = "reply" =>
    LET web == readings.web
        gateway == readings.gateway
    IN  /\ gateway.kind \in Evidence => web = gateway
        /\ PlainLine(wire) /\ web.kind \in Evidence \cup {"unsupportedMode", "error"} => gateway = web
        /\ (web.kind = "error") = (gateway.kind = "error")

\* The ends of both line protocols agree: a formatted command is executed as
\* asked or refused for a stated reason, a typed one as announced, a reply is
\* evidence of the same thing at both ends, and a frame is read back exactly
\* or, damaged, not at all (formatDummyCommand, validateDummyRawCommand,
\* TryParseEngineeringCommand, parseDummyResponseLine, ParseResponseLine,
\* formatAethorArmRequest, parseAethorArmAsciiFrame).
CodecAgrees == CommandsAgree /\ TypedAgree /\ FramesAgree /\ RepliesAgree
=============================================================================
