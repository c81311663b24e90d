----------------------------- MODULE LineBuffer -----------------------------
(***************************************************************************)
(* The LineBuffer of src/src/stratum/message.cpp, which makes lines of what *)
(* recv() returns, as StratumClient::runConnection() uses it: append what   *)
(* one recv() gave, drop the connection if the buffer overflowed, take every *)
(* complete line, read on; clear() when the next connection begins.         *)
(***************************************************************************)
EXTENDS Integers, Sequences, SequencesExt

CONSTANTS MaxLineLength,   \* kMaxLineLength, 2^20 in the program
          MaxChunk,        \* sizeof(buffer) of runConnection(), 8192
          MaxStream        \* bound: bytes that a pool sends in one connection

ASSUME LengthsAssumption ==
    /\ MaxLineLength \in Nat \ {0} /\ MaxChunk \in 1 .. MaxLineLength
    /\ MaxStream \in Nat

(* Bytes: a newline, a carriage return, anything else.                      *)
Bytes == {"\n", "\r", "x"}

VARIABLES buffer, overflowed,  \* the fields of LineBuffer
          pc,                  \* runConnection(): recv, drain, or dropped
          stream,              \* what the pool has sent in this connection
          delivered            \* the lines handed to Message::parse()

vars == <<buffer, overflowed, pc, stream, delivered>>

Init ==
    /\ buffer = <<>> /\ overflowed = FALSE
    /\ pc = "recv" /\ stream = <<>> /\ delivered = <<>>

IsNewline(b) == b = "\n"
NewlineIn(s) == SelectInSeq(s, IsNewline)       \* buffer_.find('\n'), or 0

(* A CR before the newline is not part of the line.                         *)
WithoutCR(line) ==
    IF line # <<>> /\ Last(line) = "\r" THEN Front(line) ELSE line

(* Wrong form: newlines are not looked for.                                 *)
AppendByLength(data) ==
    LET all == buffer \o data
    IN  /\ buffer' = IF overflowed \/ Len(all) > MaxLineLength THEN <<>> ELSE all
        /\ overflowed' = (overflowed \/ Len(all) > MaxLineLength)

(* append() of what one recv() gave, and the client's test of overflowed(). *)
AppendBytes(data) ==
    LET all == buffer \o data
        tooLong == Len(all) > MaxLineLength /\ NewlineIn(all) = 0
    IN  /\ buffer' = IF overflowed THEN buffer ELSE IF tooLong THEN <<>> ELSE all
        /\ overflowed' = (overflowed \/ tooLong)

Receive ==
    /\ pc = "recv"
    /\ \E data \in BoundedSeq(Bytes, MaxChunk) \ {<<>>} :
         /\ Len(stream) + Len(data) <= MaxStream
         /\ stream' = stream \o data
         /\ AppendBytes(data)
    /\ pc' = IF overflowed' THEN "dropped" ELSE "drain"
    /\ UNCHANGED delivered

(* Wrong form: what follows the line is lost.                               *)
NextLineDropsRest ==
    /\ pc = "drain" /\ NewlineIn(buffer) # 0
    /\ delivered' = delivered \o <<WithoutCR(SubSeq(buffer, 1, NewlineIn(buffer) - 1))>>
    /\ buffer' = <<>>
    /\ UNCHANGED <<overflowed, pc, stream>>

(* nextLine() that finds a line, ...                                        *)
NextLine ==
    /\ pc = "drain" /\ NewlineIn(buffer) # 0
    /\ LET newline == NewlineIn(buffer) IN
         /\ delivered' = delivered \o <<WithoutCR(SubSeq(buffer, 1, newline - 1))>>
         /\ buffer' = SubSeq(buffer, newline + 1, Len(buffer))
    /\ UNCHANGED <<overflowed, pc, stream>>

(* ... and one that does not.                                               *)
NoLine ==
    /\ pc = "drain" /\ NewlineIn(buffer) = 0
    /\ pc' = "recv"
    /\ UNCHANGED <<buffer, overflowed, stream, delivered>>

(* The connection is lost while waiting, or was dropped; the next one       *)
(* begins with clear(), which leaves overflowed_ as it is.                  *)
Reconnect ==
    /\ pc \in {"recv", "dropped"}
    /\ buffer' = <<>> /\ stream' = <<>> /\ delivered' = <<>>
    /\ pc' = "recv" /\ UNCHANGED overflowed

Next == Receive \/ NextLine \/ NoLine \/ Reconnect
Spec == Init /\ [][Next]_vars

-----------------------------------------------------------------------------
(* Every variable has its type, and the buffer never holds more than a      *)
(* longest line and what one recv() returns.                                *)
TypeOK ==
    /\ buffer \in Seq(Bytes) /\ Len(buffer) <= MaxLineLength + MaxChunk
    /\ overflowed \in BOOLEAN
    /\ pc \in {"recv", "drain", "dropped"}
    /\ stream \in Seq(Bytes) /\ delivered \in Seq(Seq(Bytes))

(* The first lines of the stream end at these places, and make the lines     *)
(* delivered; what follows them is in the buffer.                           *)
CutAt(ends) ==
    /\ ends[0] = 0
    /\ \A k \in 1 .. Len(delivered) :
         /\ ends[k - 1] < ends[k] /\ stream[ends[k]] = "\n"
         /\ \A i \in ends[k - 1] + 1 .. ends[k] - 1 : stream[i] # "\n"
         /\ delivered[k] = WithoutCR(SubSeq(stream, ends[k - 1] + 1, ends[k] - 1))
    /\ buffer = SubSeq(stream, ends[Len(delivered)] + 1, Len(stream))

(* However recv() cuts the stream up, the lines delivered are the first      *)
(* lines of the stream, in order and each once, the rest is still buffered, *)
(* and nothing of an earlier connection is among them; and the client never *)
(* waits with a complete line undelivered, nor with more than MaxLineLength *)
(* bytes of an unfinished one.                                              *)
LinesOfTheStream ==
    /\ ~overflowed =>
         \E ends \in [0 .. Len(delivered) ->
                         {i \in 0 .. Len(stream) : i = 0 \/ stream[i] = "\n"}] :
           CutAt(ends)
    /\ pc = "recv" => NewlineIn(buffer) = 0 /\ Len(buffer) <= MaxLineLength

(* The last n bytes of s are of one unfinished line.                        *)
Unfinished(s, n) == n <= Len(s) /\ \A i \in Len(s) - n + 1 .. Len(s) : s[i] # "\n"

(* Only an unfinished line that is too long makes the buffer overflow: not  *)
(* several finished ones that come in the same recv().                      *)
OverflowIsDeserved ==
    [][~overflowed /\ overflowed' => Unfinished(stream', MaxLineLength + 1)]_vars

=============================================================================
