------------------------------- MODULE Sha256 -------------------------------
(***************************************************************************)
(* The buffering of SHA-256 in src/src/bitcoin/sha256.cpp: update() and     *)
(* finalize().  The compression function is external data flow: what is     *)
(* followed is the sequence of blocks that it is given.                     *)
(*                                                                          *)
(* Abstractions.  The bytes of a message are told apart by their places; a  *)
(* marker, a zero and a byte of the length are bytes like no other, and so  *)
(* is what buffer_ holds before it is written.                              *)
(***************************************************************************)
EXTENDS Integers, Sequences, SequencesExt

CONSTANTS BlockSize,    \* kBlockSize, 64
          LengthSize    \* 8: the bytes of the length at the end

ASSUME BlockAssumption ==
    LengthSize \in Nat \ {0} /\ BlockSize \in Nat /\ LengthSize < BlockSize

MessageBytes == {"byte"} \X Nat
Marker == <<"marker">>     \* 0x80
ZeroByte == <<"zero">>
Unwritten == <<"unwritten">>
LengthByte(length, k) == <<"length", length, k>>

(* buffer_, bufferLen_, bitLength_ in bytes, and what transform() was given. *)
InitialContext ==
    [buffer |-> [i \in 1 .. BlockSize |-> Unwritten], used |-> 0, length |-> 0, blocks |-> <<>>]

(* memcpy() and memset() to a place of the buffer.                          *)
Copied(buffer, at, bytes) ==
    [i \in DOMAIN buffer |-> IF i - at \in DOMAIN bytes THEN bytes[i - at] ELSE buffer[i]]
Zeroed(buffer, from, to) ==
    [i \in DOMAIN buffer |-> IF i \in from + 1 .. to THEN ZeroByte ELSE buffer[i]]

Transformed(ctx) == [ctx EXCEPT !.blocks = Append(@, ctx.buffer), !.used = 0]

(* update(): what the buffer has room for, whole blocks, and the rest.      *)
WholeBlocks(bytes) == Len(bytes) \div BlockSize
Fill(ctx, bytes) ==
    LET take == Min({Len(bytes), BlockSize - ctx.used})
    IN  [ctx EXCEPT !.buffer = Copied(@, ctx.used, SubSeq(bytes, 1, take)), !.used = @ + take]
Blocks(ctx, bytes) ==
    LET rest == SubSeq(bytes, BlockSize * WholeBlocks(bytes) + 1, Len(bytes))
    IN  [ctx EXCEPT
           !.blocks = @ \o [k \in 1 .. WholeBlocks(bytes) |->
                              SubSeq(bytes, BlockSize * (k - 1) + 1, BlockSize * k)],
           !.buffer = Copied(@, 0, rest),
           !.used   = IF rest = <<>> THEN @ ELSE Len(rest)]

Update(ctx, bytes) ==
    LET counted == [ctx EXCEPT !.length = @ + Len(bytes)]
        filled  == Fill(counted, bytes)
    IN  IF ctx.used = 0 THEN Blocks(counted, bytes)
        ELSE IF filled.used < BlockSize THEN filled
        ELSE Blocks(Transformed(filled), SubSeq(bytes, BlockSize - ctx.used + 1, Len(bytes)))

(* The context after calls of update(), one for each part.                  *)
Updated(parts) ==
    LET context[n \in 0 .. Len(parts)] ==
          IF n = 0 THEN InitialContext ELSE Update(context[n - 1], parts[n])
    IN  context[Len(parts)]

(* finalize(): the marker, zeros, and the length at the end of a block.     *)
Marked(ctx) == [ctx EXCEPT !.buffer = Copied(@, ctx.used, <<Marker>>), !.used = @ + 1]
Closed(ctx) ==
    LET padded == Zeroed(ctx.buffer, ctx.used, BlockSize - LengthSize)
        length == [k \in 1 .. LengthSize |-> LengthByte(ctx.length, k)]
    IN  Transformed([ctx EXCEPT !.buffer = Copied(padded, BlockSize - LengthSize, length)])

(* Wrong form: the length is put where it may already hold the marker.      *)
FinalizeTight(ctx) ==
    LET marked == Marked(ctx)
    IN  IF marked.used > BlockSize - LengthSize + 1
          THEN Closed(Transformed([marked EXCEPT !.buffer = Zeroed(@, marked.used, BlockSize)]))
          ELSE Closed(marked)

Finalize(ctx) ==
    LET marked == Marked(ctx)
    IN  IF marked.used > BlockSize - LengthSize
          THEN Closed(Transformed([marked EXCEPT !.buffer = Zeroed(@, marked.used, BlockSize)]))
          ELSE Closed(marked)

-----------------------------------------------------------------------------
(* However a message is cut up into calls of update(), the blocks that are  *)
(* compressed are those of FIPS 180-4: the message, the marker, as few      *)
(* zeros as there can be, and the length; nothing stale is among them.      *)
PaddingIsStandard(parts) ==
    LET message == FlattenSeq(parts)
        closing == Len(message) + 1 + LengthSize
        zeros   == (BlockSize - (closing % BlockSize)) % BlockSize
        padded  == message \o <<Marker>> \o [i \in 1 .. zeros |-> ZeroByte]
                     \o [k \in 1 .. LengthSize |-> LengthByte(Len(message), k)]
    IN  FlattenSeq(Finalize(Updated(parts)).blocks) = padded
=============================================================================
