---------------------------- MODULE JsonStrings ----------------------------
(***************************************************************************)
(* The strings of src/src/util/json.cpp: the escapes that the writer puts   *)
(* in, and the reader that takes them out, character by character.          *)
(*                                                                          *)
(* Abstractions.  A string is the sequence of the codes of its bytes.       *)
(***************************************************************************)
EXTENDS Integers, Sequences, SequencesExt

Quote     == 34
Backslash == 92

(* The characters with an escape of one letter: \b \t \n \f \r \" and \\.   *)
Letters == {<<8, 98>>, <<9, 116>>, <<10, 110>>, <<12, 102>>, <<13, 114>>,
            <<Quote, Quote>>, <<Backslash, Backslash>>}

HexDigit(d) == IF d < 10 THEN 48 + d ELSE 87 + d
Escaped(code) ==
    LET short == {pair \in Letters : pair[1] = code}
    IN  IF short # {} THEN <<Backslash, (CHOOSE pair \in short : TRUE)[2]>>
        ELSE IF code < 32
          THEN <<Backslash, 117, 48, 48, HexDigit(code \div 16), HexDigit(code % 16)>>
        ELSE <<code>>

(* jsonEscape(), without the opening quote.                                 *)
JsonEscape(codes) == FlattenSeq([i \in DOMAIN codes |-> Escaped(codes[i])]) \o <<Quote>>

HexValue(code) ==
    CASE code \in 48 .. 57 -> code - 48
      [] code \in 97 .. 102 -> code - 87
      [] code \in 65 .. 70 -> code - 55
      [] OTHER -> -1

(* The UTF-8 bytes of a \u escape.                                          *)
Utf8(code) ==
    CASE code < 128 -> <<code>>
      [] code \in 128 .. 2047 -> <<192 + (code \div 64), 128 + (code % 64)>>
      [] OTHER -> <<224 + (code \div 4096), 128 + ((code \div 64) % 64), 128 + (code % 64)>>

(* parseString(), from behind the opening quote: each turn of its loop      *)
(* reads a character or an escape, until the closing quote or a failure.    *)
Reading(pos, read)  == [is |-> "reading", pos |-> pos, read |-> read]
ClosedAt(pos, read) == [is |-> "closed", pos |-> pos, read |-> read]
Refused == [is |-> "refused"]

Escape(codes, pos, read) ==
    LET short == {pair \in Letters \cup {<<47, 47>>} : pair[2] = codes[pos + 1]}
        hex   == [k \in 0 .. 3 |-> HexValue(codes[pos + 2 + k])]
    IN  IF pos + 1 > Len(codes) THEN Refused
        ELSE IF short # {} THEN Reading(pos + 2, Append(read, (CHOOSE pair \in short : TRUE)[1]))
        ELSE IF codes[pos + 1] # 117 \/ pos + 5 > Len(codes) THEN Refused
        ELSE IF \E k \in 0 .. 3 : hex[k] < 0 THEN Refused
        ELSE Reading(pos + 6,
               read \o Utf8(4096 * hex[0] + 256 * hex[1] + 16 * hex[2] + hex[3]))

Turn(codes, s) ==
    IF s.is # "reading" THEN s
    ELSE IF s.pos > Len(codes) THEN Refused
    ELSE IF codes[s.pos] = Quote THEN ClosedAt(s.pos + 1, s.read)
    ELSE IF codes[s.pos] # Backslash THEN Reading(s.pos + 1, Append(s.read, codes[s.pos]))
    ELSE Escape(codes, s.pos, s.read)

(* A turn reads a character at least, and the last one ends the loop.       *)
ParseString(codes) ==
    LET after[n \in 0 .. Len(codes) + 1] ==
          IF n = 0 THEN Reading(1, <<>>) ELSE Turn(codes, after[n - 1])
    IN  after[Len(codes) + 1]

-----------------------------------------------------------------------------
(* A string that the program escapes is read as it was, whatever it holds.  *)
StringsComeBack(codes) ==
    LET escaped == JsonEscape(codes)
    IN  ParseString(escaped) = ClosedAt(Len(escaped) + 1, codes)
=============================================================================
