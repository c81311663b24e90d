----------------------------- MODULE Difficulty -----------------------------
(***************************************************************************)
(* The targets of src/src/bitcoin/difficulty.cpp: compact nBits, the target *)
(* of a share difficulty, and the difficulty that a hash achieved.          *)
(*                                                                          *)
(* Abstractions.  A hash is the integer it stands for.  nBits is a record   *)
(* of its exponent byte and its three-byte word.  A difficulty, a double in *)
(* the program, is a multiple of 1 / Unit, which is fine enough to tell its *)
(* scaled value from the integer below it.                                  *)
(***************************************************************************)
EXTENDS UInt256

CONSTANTS ByteBits,           \* 8
          DifficultyOneLimb,  \* limb 3 of difficultyOneTarget()
          ScaleBits           \* 32: a scaled difficulty is 2^32 times as large

ASSUME DifficultyAssumption ==
    /\ ByteBits \in Nat \ {0} /\ 3 * ByteBits <= LimbBits /\ Width % ByteBits = 0
    /\ ScaleBits \in Nat \ {0} /\ ScaleBits < LimbBits
    /\ DifficultyOneLimb \in 1 .. Pow2[LimbBits - ScaleBits] - 1

ByteBase == Pow2[ByteBits]
Word     == 0 .. Pow2[3 * ByteBits] - 1   \* the mantissa and its sign bit
SignBit  == Pow2[3 * ByteBits - 1]        \* 0x00800000

(* The mantissa is moved by the bytes that the exponent has above three.    *)
Mantissa(nBits) == nBits.word % SignBit
Negative(nBits) == nBits.word >= SignBit /\ Mantissa(nBits) # 0
ShiftBytes(nBits) == nBits.exponent - 3

(* "Would the mantissa be pushed past bit 255?"                             *)
Overflows(nBits) ==
    /\ nBits.exponent > 3 /\ Mantissa(nBits) # 0
    /\ \/ ShiftBytes(nBits) * ByteBits > Width
       \/ BitLength(FromLimb(Mantissa(nBits))) + ShiftBytes(nBits) * ByteBits > Width

(* decodeCompactBits()                                                      *)
Accepted(nBits) == ~Negative(nBits) /\ ~Overflows(nBits)
DecodeCompactBits(nBits) ==
    IF ~Accepted(nBits) THEN Zero
    ELSE IF nBits.exponent <= 3
           THEN FromLimb(Mantissa(nBits) \div Pow2[ByteBits * (3 - nBits.exponent)])
           ELSE ShiftLeft(FromLimb(Mantissa(nBits)), ShiftBytes(nBits) * ByteBits)

SignificantBytes(target) == (BitLength(target) + ByteBits - 1) \div ByteBits

(* The three highest bytes of the target.                                   *)
LeadingWord(target) ==
    LET size == SignificantBytes(target)
    IN  IF size <= 3 THEN target[0] * Pow2[ByteBits * (3 - size)]
                     ELSE ShiftRight(target, ByteBits * (size - 3))[0] % Pow2[3 * ByteBits]

(* encodeCompactBits(): renormalized where it would set the sign bit.       *)
EncodeCompactBits(target) ==
    IF IsZero(target) THEN [exponent |-> 0, word |-> 0]
    ELSE IF LeadingWord(target) >= SignBit
      THEN [exponent |-> SignificantBytes(target) + 1,
            word     |-> LeadingWord(target) \div ByteBase]
      ELSE [exponent |-> SignificantBytes(target), word |-> LeadingWord(target)]

-----------------------------------------------------------------------------
(* Share difficulties.                                                      *)

DifficultyOne == [i \in Limbs |-> IF i = 3 THEN DifficultyOneLimb ELSE 0]
Unit          == Pow2[ScaleBits + 1]

(* The scaled difficulty and the difficulty, cast to uint64_t.              *)
Scaled(d)  == d \div 2
Whole(d)   == d \div Unit
IsLarge(d) == d >= 2 * LimbBase      \* scaled, it does not fit in a uint64_t

(* Wrong form: the numerator of a large difficulty stays scaled.            *)
ShareTargetScaled(d) ==
    IF d <= 0 THEN Zero
    ELSE IF d < 2 THEN Largest
    ELSE Divide(ShiftLeft(DifficultyOne, ScaleBits),
                FromLimb(IF IsLarge(d) THEN Whole(d) ELSE Scaled(d)))

(* targetFromShareDifficulty()                                              *)
TargetFromShareDifficulty(d) ==
    IF d <= 0 THEN Zero
    ELSE IF d < 2 THEN Largest
    ELSE IF IsLarge(d) THEN Divide(DifficultyOne, FromLimb(Whole(d)))
    ELSE Divide(ShiftLeft(DifficultyOne, ScaleBits), FromLimb(Scaled(d)))

HashMeetsTarget(hash, target) == ~IsZero(target) /\ AtMost(hash, target)

(* shareDifficultyOfHashFixed32(), by which the best share is found.        *)
ShareDifficultyOfHash(hash) ==
    IF IsZero(hash) THEN Largest
    ELSE Divide(ShiftLeft(DifficultyOne, ScaleBits), hash)

-----------------------------------------------------------------------------
(* nBits = 0xEEMMMMMM stands for 0x00MMMMMM * 256^(EE - 3) (difficulty.hpp:  *)
(* 22), and is refused exactly if it is negative or needs more than 256 bits. *)
DecodesItsValue(nBits) ==
    LET shift == ByteBits * ShiftBytes(nBits)
        fits  == \/ shift <= 0 \/ Mantissa(nBits) = 0
                 \/ shift < Width /\ Mantissa(nBits) < Pow2[Width - shift]
    IN  /\ Accepted(nBits) <=> ~Negative(nBits) /\ fits
        /\ Accepted(nBits) =>
             Value(DecodeCompactBits(nBits)) =
               IF Mantissa(nBits) = 0 THEN 0
               ELSE IF shift >= 0 THEN Mantissa(nBits) * Pow2[shift]
               ELSE Mantissa(nBits) \div Pow2[-shift]

(* A target is encoded by an nBits that is accepted and means the target, or *)
(* the largest number below it that so short a mantissa can stand for.      *)
EncodingIsTight(target) ==
    LET nBits   == EncodeCompactBits(target)
        decoded == DecodeCompactBits(nBits)
        lost    == Value(target) - Value(decoded)
    IN  /\ nBits.word \in Word /\ Accepted(nBits)
        /\ lost \in 0 .. Pow2[ByteBits * (IF nBits.exponent > 3 THEN nBits.exponent - 3 ELSE 0)] - 1
        /\ EncodeCompactBits(decoded) = nBits

(* What was decoded is encoded again without a loss: "round-trips every     *)
(* canonically-encoded target" (difficulty.hpp:33-34).                      *)
RoundTrips(nBits) ==
    LET target == DecodeCompactBits(nBits)
    IN  DecodeCompactBits(EncodeCompactBits(target)) = target

(* A harder share never has an easier target, also where the computation    *)
(* goes over from the scaled numerator to the plain one.                    *)
HarderIsSmaller(d) ==
    AtMost(TargetFromShareDifficulty(d + 1), TargetFromShareDifficulty(d))

(* A share meets the target of a difficulty exactly if the difficulty by    *)
(* which it is ranked is that high; a large difficulty loses its fraction.  *)
RanksLikeItsTarget(hash, d) ==
    LET meets  == HashMeetsTarget(hash, TargetFromShareDifficulty(d))
        ranked == Value(ShareDifficultyOfHash(hash))
    IN  IF IsLarge(d) THEN meets => ranked >= Whole(d) * Pow2[ScaleBits]
                      ELSE d >= 2 => (meets <=> ranked >= Scaled(d))
=============================================================================
