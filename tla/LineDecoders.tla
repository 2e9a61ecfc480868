---------------------------- MODULE LineDecoders ----------------------------
(***************************************************************************)
(* The two streaming line decoders of the contracts package: Dummy ASCII   *)
(* (shared/contracts/src/dummyAsciiV1.ts) and Aethor Arm ASCII             *)
(* (aethorArmAsciiV1.ts).  Bytes arrive in chunks cut anywhere; a decoder  *)
(* carries a buffer and the reason to discard the line over the cut, and   *)
(* its loop handles one byte at a time, so one step per byte stands for    *)
(* every way to cut the stream.  A byte is its class.  What each decoder   *)
(* reported is compared with the lines of the whole stream read at once.   *)
(***************************************************************************)
EXTENDS Integers, Sequences, SequencesExt, Selections

CONSTANTS
  MAX_LINE,     \* longest line (DUMMY_ASCII_MAX_LINE_CHARS, AETHOR_ARM_...)
  MaxStream     \* bound: bytes of a stream

ASSUME DecoderAssumption == MAX_LINE \in Nat \ {0} /\ MaxStream \in Nat

VARIABLES
  stream,      \* every byte since the decoders were created
  dummy,       \* [buffer, reason]
  arm,         \* [buffer, pendingCr, reason]
  decoded,     \* records reported so far, by decoder
  finished     \* the stream ended and the decoders were told

decoderVars == <<stream, dummy, arm, decoded, finished>>

Bytes == {"text", "cr", "lf", "control", "high"}

createDummyLineDecoder == [buffer |-> <<>>, reason |-> "none"]
createAethorArmLineDecoder == [buffer |-> <<>>, pendingCr |-> FALSE, reason |-> "none"]

\* A record: a line, or what was kept of a discarded one and why.
Record(buffer, reason) == [line |-> buffer, reason |-> reason]

-----------------------------------------------------------------------------
(* One byte through each loop: the next state and the records it adds.     *)

\* A line end reports a discarded line or a line that is not empty.
Reported(buffer, reason) ==
  IF reason = "none" /\ buffer = <<>> THEN <<>> ELSE <<Record(buffer, reason)>>

\* Mutant: one byte more than the longest line is let through.
DummyOverlongLate(buffer) == Len(buffer) > MAX_LINE + 1

DummyOverlong(buffer) == Len(buffer) >= MAX_LINE + 1

\* CR and LF both end a line; control characters are text to this decoder.
decodeDummyAsciiChunk(b) ==
  LET longer == Append(dummy.buffer, b)
  IN  IF b \in {"cr", "lf"}
        THEN [state |-> createDummyLineDecoder,
              records |-> Reported(dummy.buffer, dummy.reason)]
      ELSE [state |->
              IF dummy.reason # "none" THEN dummy
              ELSE IF b = "high" THEN [dummy EXCEPT !.reason = "non-ascii"]
              ELSE [buffer |-> longer,
                    reason |-> IF DummyOverlong(longer) THEN "overlong" ELSE "none"],
            records |-> <<>>]

\* Only LF ends a line; a CR must be the byte before it.
decodeAethorArmAsciiChunk(b) ==
  LET longer == Append(arm.buffer, b)
  IN  IF b = "lf"
        THEN [state |-> createAethorArmLineDecoder,
              records |-> Reported(arm.buffer, arm.reason)]
      ELSE [state |->
              IF arm.reason # "none" THEN arm
              ELSE IF arm.pendingCr \/ b = "control"
                THEN [arm EXCEPT !.reason = "control-character"]
              ELSE IF b = "cr" THEN [arm EXCEPT !.pendingCr = TRUE]
              ELSE IF b = "high" THEN [arm EXCEPT !.reason = "non-ascii"]
              ELSE IF Len(longer) > MAX_LINE
                THEN [arm EXCEPT !.reason = "overlong"]
              ELSE [arm EXCEPT !.buffer = longer],
            records |-> <<>>]

Unfinished(reason) == IF reason = "none" THEN "incomplete" ELSE reason

finishDummyLineDecoder ==
  IF dummy.buffer # <<>> \/ dummy.reason # "none"
    THEN <<Record(dummy.buffer, Unfinished(dummy.reason))>> ELSE <<>>

finishAethorArmLineDecoder ==
  IF arm.buffer # <<>> \/ arm.pendingCr \/ arm.reason # "none"
    THEN <<Record(arm.buffer, Unfinished(arm.reason))>> ELSE <<>>

-----------------------------------------------------------------------------
DecoderInit ==
  /\ stream = <<>>
  /\ dummy = createDummyLineDecoder /\ arm = createAethorArmLineDecoder
  /\ decoded = [dummy |-> <<>>, arm |-> <<>>]
  /\ finished = FALSE

DecodeByte(b) ==
  LET d == decodeDummyAsciiChunk(b)
      a == decodeAethorArmAsciiChunk(b)
  IN  /\ ~finished /\ Len(stream) < MaxStream
      /\ stream' = Append(stream, b)
      /\ dummy' = d.state /\ arm' = a.state
      /\ decoded' = [dummy |-> decoded.dummy \o d.records,
                     arm |-> decoded.arm \o a.records]
      /\ UNCHANGED finished

FinishDecoders ==
  /\ ~finished
  /\ finished' = TRUE
  /\ decoded' = [dummy |-> decoded.dummy \o finishDummyLineDecoder,
                 arm |-> decoded.arm \o finishAethorArmLineDecoder]
  /\ dummy' = createDummyLineDecoder /\ arm' = createAethorArmLineDecoder
  /\ UNCHANGED stream

DecoderNext == (\E b \in Bytes : DecodeByte(b)) \/ FinishDecoders

DecoderSpec == DecoderInit /\ [][DecoderNext]_decoderVars

-----------------------------------------------------------------------------
(* The reference: the stream cut at its line ends, each piece judged whole. *)

\* The pieces between the ends of lines, and after the last one.
Pieces(ends) ==
  LET marks == {i \in DOMAIN stream : stream[i] \in ends}
      n == Cardinality(marks)
      cut(k) == IF k = 0 THEN 0 ELSE IF k > n THEN Len(stream) + 1 ELSE PositionOf(marks, k)
  IN  [k \in 1 .. n + 1 |-> SubSeq(stream, cut(k - 1) + 1, cut(k) - 1)]

\* The first place where a piece stops being a line of the protocol.
FirstBad(piece, Bad(_)) ==
  LET bad == {i \in DOMAIN piece : Bad(i)}
  IN  IF bad = {} THEN 0 ELSE CHOOSE i \in bad : \A j \in bad : i <= j

DummyJudged(piece) ==
  LET bad == FirstBad(piece, LAMBDA i : piece[i] = "high" \/ i > MAX_LINE)
  IN  IF bad = 0 THEN Record(piece, "none")
      ELSE IF piece[bad] = "high"
        THEN Record(SubSeq(piece, 1, bad - 1), "non-ascii")
      ELSE Record(SubSeq(piece, 1, bad), "overlong")

ArmJudged(piece) ==
  LET bare == IF piece # <<>> /\ piece[Len(piece)] = "cr" THEN Front(piece) ELSE piece
      bad == FirstBad(bare, LAMBDA i : bare[i] \in {"cr", "control", "high"} \/ i > MAX_LINE)
      kept == SubSeq(bare, 1, bad - 1)
  IN  IF bad = 0 THEN Record(bare, "none")
      ELSE IF bare[bad] = "high" THEN Record(kept, "non-ascii")
      ELSE IF bare[bad] = "text" THEN Record(kept, "overlong")
      ELSE Record(kept, "control-character")

\* The records a decoder owes: the judged pieces, empty lines left out, and
\* for the last piece only once the stream ended.
Owed(ends, Judged(_)) ==
  LET pieces == Pieces(ends)
      judged == [k \in DOMAIN pieces |-> Judged(pieces[k])]
      ended == Front(judged)
      closed == Selected(ended, {k \in DOMAIN ended : ended[k] # Record(<<>>, "none")})
      last == judged[Len(judged)]
  IN  IF ~finished \/ pieces[Len(pieces)] = <<>> THEN closed
      ELSE Append(closed, Record(last.line, Unfinished(last.reason)))

\* However the stream is cut into chunks, each decoder reports exactly the
\* lines of the stream: none lost, none merged with a discarded neighbour,
\* each rejected for its first fault (decodeDummyAsciiChunk,
\* decodeAethorArmAsciiChunk and their finish functions).
DecodersFrame ==
  /\ decoded.dummy = Owed({"cr", "lf"}, DummyJudged)
  /\ decoded.arm = Owed({"lf"}, ArmJudged)
=============================================================================
