-------------------------- MODULE LineBufferProofs --------------------------
(***************************************************************************)
(* Theorems about LineBuffer, for every length limit and every stream of    *)
(* bytes, cut up in any way.                                                *)
(***************************************************************************)
EXTENDS LineBuffer, SequenceTheorems, WellFoundedInduction, TLAPS

(* A set of numbers has a least one.                                        *)
LEMMA LeastOf ==
    ASSUME NEW T \in SUBSET Nat, T # {}
    PROVE  \E x \in T : \A y \in T : x <= y
<1>1. PICK x \in T : \A y \in T : <<y, x>> \notin OpToRel(<, Nat)
  BY NatLessThanWellFounded, WFMin
<1>2. ASSUME NEW y \in T PROVE x <= y
  <2>1. x \in Nat /\ y \in Nat
    OBVIOUS
  <2>2. ~(y < x)
    BY <1>1, <2>1 DEF OpToRel
  <2>. QED BY <2>1, <2>2
<1>. QED BY <1>2

(* find() gives the place of the first newline, or nothing.                 *)
LEMMA NewlineFound ==
    ASSUME NEW s \in Seq(Bytes)
    PROVE  /\ NewlineIn(s) \in 0 .. Len(s)
           /\ NewlineIn(s) = 0 <=> \A i \in 1 .. Len(s) : s[i] # "\n"
           /\ NewlineIn(s) # 0 => /\ s[NewlineIn(s)] = "\n"
                                  /\ \A i \in 1 .. NewlineIn(s) - 1 : s[i] # "\n"
<1>. DEFINE I == {i \in 1 .. Len(s) : s[i] = "\n"}
<1>1. NewlineIn(s) = IF I # {} THEN Min(I) ELSE 0
  BY DEF NewlineIn, SelectInSeq, IsNewline
<1>2. CASE I = {}
  BY <1>1, <1>2
<1>3. CASE I # {}
  <2>1. \E x \in I : \A y \in I : x <= y
    <3>1. I \in SUBSET Nat
      OBVIOUS
    <3>. HIDE DEF I
    <3>. QED BY <1>3, <3>1, LeastOf
  <2>2. Min(I) \in I /\ \A y \in I : Min(I) <= y
    BY <2>1 DEF Min
  <2>3. \A i \in 1 .. Min(I) - 1 : s[i] # "\n"
    BY <2>2
  <2>. QED BY <1>1, <1>3, <2>2, <2>3
<1>. QED BY <1>2, <1>3

(* A part of what follows the first e bytes is a part of the whole.         *)
LEMMA PartOfRest ==
    ASSUME NEW s \in Seq(Bytes), NEW e \in 0 .. Len(s), NEW a \in Nat \ {0}, NEW b \in Int,
           b <= Len(s) - e
    PROVE  SubSeq(SubSeq(s, e + 1, Len(s)), a, b) = SubSeq(s, e + a, e + b)
<1>. DEFINE rest == SubSeq(s, e + 1, Len(s))
            x == SubSeq(rest, a, b)
            y == SubSeq(s, e + a, e + b)
<1>1. /\ rest \in Seq(Bytes) /\ Len(rest) = Len(s) - e
      /\ \A i \in 1 .. Len(s) - e : rest[i] = s[e + i]
  <2>1. \A i \in e + 1 .. Len(s) : s[i] \in Bytes
    BY ElementOfSeq
  <2>2. /\ rest \in Seq(Bytes) /\ Len(rest) = IF e + 1 <= Len(s) THEN Len(s) - (e + 1) + 1 ELSE 0
        /\ \A i \in 1 .. Len(s) - (e + 1) + 1 : rest[i] = s[(e + 1) + i - 1]
    BY <2>1, SubSeqProperties
  <2>. QED BY <2>2
<1>2. /\ x \in Seq(Bytes) /\ Len(x) = IF a <= b THEN b - a + 1 ELSE 0
      /\ \A i \in 1 .. b - a + 1 : x[i] = rest[a + i - 1]
  <2>1. \A i \in a .. b : rest[i] \in Bytes
    BY <1>1, ElementOfSeq
  <2>. HIDE DEF rest
  <2>. QED BY <2>1, SubSeqProperties
<1>3. /\ y \in Seq(Bytes) /\ Len(y) = IF a <= b THEN b - a + 1 ELSE 0
      /\ \A i \in 1 .. b - a + 1 : y[i] = s[e + a + i - 1]
  <2>1. \A i \in e + a .. e + b : s[i] \in Bytes
    BY ElementOfSeq
  <2>2. /\ y \in Seq(Bytes)
        /\ Len(y) = IF e + a <= e + b THEN (e + b) - (e + a) + 1 ELSE 0
        /\ \A i \in 1 .. (e + b) - (e + a) + 1 : y[i] = s[(e + a) + i - 1]
    BY <2>1, SubSeqProperties
  <2>. QED BY <2>2
<1>4. \A i \in 1 .. Len(x) : x[i] = y[i]
  BY <1>1, <1>2, <1>3
<1>. HIDE DEF x, y
<1>. QED BY <1>2, <1>3, <1>4, SeqEqual

(* What is appended to the whole is appended to what follows the first e    *)
(* bytes, and the parts of the whole stay what they are.                    *)
LEMMA RestExtends ==
    ASSUME NEW s \in Seq(Bytes), NEW d \in Seq(Bytes), NEW e \in 0 .. Len(s)
    PROVE  SubSeq(s, e + 1, Len(s)) \o d = SubSeq(s \o d, e + 1, Len(s \o d))
<1>. DEFINE x == SubSeq(s, e + 1, Len(s))
            y == SubSeq(s \o d, e + 1, Len(s \o d))
<1>1. /\ s \o d \in Seq(Bytes) /\ Len(s \o d) = Len(s) + Len(d)
      /\ \A i \in 1 .. Len(s) + Len(d) :
           (s \o d)[i] = IF i <= Len(s) THEN s[i] ELSE d[i - Len(s)]
  BY ConcatProperties
<1>2. /\ x \in Seq(Bytes) /\ Len(x) = Len(s) - e
      /\ \A i \in 1 .. Len(s) - e : x[i] = s[e + i]
  <2>1. \A i \in e + 1 .. Len(s) : s[i] \in Bytes
    BY ElementOfSeq
  <2>2. /\ x \in Seq(Bytes) /\ Len(x) = IF e + 1 <= Len(s) THEN Len(s) - (e + 1) + 1 ELSE 0
        /\ \A i \in 1 .. Len(s) - (e + 1) + 1 : x[i] = s[(e + 1) + i - 1]
    BY <2>1, SubSeqProperties
  <2>. QED BY <2>2
<1>3. /\ y \in Seq(Bytes) /\ Len(y) = Len(s) + Len(d) - e
      /\ \A i \in 1 .. Len(s) + Len(d) - e : y[i] = (s \o d)[e + i]
  <2>1. \A i \in e + 1 .. Len(s \o d) : (s \o d)[i] \in Bytes
    BY <1>1, ElementOfSeq
  <2>2. /\ y \in Seq(Bytes)
        /\ Len(y) = IF e + 1 <= Len(s \o d) THEN Len(s \o d) - (e + 1) + 1 ELSE 0
        /\ \A i \in 1 .. Len(s \o d) - (e + 1) + 1 : y[i] = (s \o d)[(e + 1) + i - 1]
    BY <1>1, <2>1, SubSeqProperties
  <2>. QED BY <1>1, <2>2
<1>4. /\ x \o d \in Seq(Bytes) /\ Len(x \o d) = Len(x) + Len(d)
      /\ \A i \in 1 .. Len(x) + Len(d) :
           (x \o d)[i] = IF i <= Len(x) THEN x[i] ELSE d[i - Len(x)]
  <2>. HIDE DEF x
  <2>. QED BY <1>2, ConcatProperties
<1>. HIDE DEF x, y
<1>5. ASSUME NEW i \in 1 .. Len(x \o d) PROVE (x \o d)[i] = y[i]
  <2>1. i \in 1 .. Len(s) + Len(d) - e /\ y[i] = (s \o d)[e + i]
    <3>1. Len(x \o d) = Len(s) + Len(d) - e
      <4>1. Len(s) \in Nat /\ Len(d) \in Nat /\ e \in Nat
        BY LenProperties
      <4>2. Len(x \o d) = (Len(s) - e) + Len(d)
        BY <1>2, <1>4
      <4>. QED BY <4>1, <4>2
    <3>2. i \in 1 .. Len(s) + Len(d) - e
      BY <3>1
    <3>. QED BY <1>3, <3>2
  <2>2. CASE i <= Len(x)
    <3>1. (x \o d)[i] = s[e + i]
      BY <1>2, <1>4, <2>2
    <3>2. (s \o d)[e + i] = s[e + i]
      BY <1>1, <1>2, <2>1, <2>2
    <3>. QED BY <2>1, <3>1, <3>2
  <2>3. CASE ~(i <= Len(x))
    <3>1. (x \o d)[i] = d[i - Len(x)]
      BY <1>4, <2>3
    <3>2. (s \o d)[e + i] = d[(e + i) - Len(s)]
      BY <1>1, <1>2, <2>1, <2>3
    <3>3. (e + i) - Len(s) = i - Len(x)
      BY <1>2
    <3>. QED BY <2>1, <3>1, <3>2, <3>3
  <2>. QED BY <2>2, <2>3
<1>6. Len(x \o d) = Len(y)
  BY <1>2, <1>3, <1>4
<1>7. x \o d = y
  BY <1>3, <1>4, <1>5, <1>6, SeqEqual
<1>. QED BY <1>7 DEF x, y

(* The parts of the whole stay what they are when something is appended.    *)
LEMMA PartKept ==
    ASSUME NEW s \in Seq(Bytes), NEW d \in Seq(Bytes),
           NEW a \in Nat \ {0}, NEW b \in Int, b <= Len(s)
    PROVE  SubSeq(s \o d, a, b) = SubSeq(s, a, b)
<1>. DEFINE x == SubSeq(s \o d, a, b)
            y == SubSeq(s, a, b)
<1>1. /\ s \o d \in Seq(Bytes) /\ Len(s \o d) = Len(s) + Len(d)
      /\ \A i \in 1 .. Len(s) : (s \o d)[i] = s[i]
  BY ConcatProperties
<1>2. /\ x \in Seq(Bytes) /\ Len(x) = IF a <= b THEN b - a + 1 ELSE 0
      /\ \A i \in 1 .. b - a + 1 : x[i] = (s \o d)[a + i - 1]
  <2>1. \A i \in a .. b : (s \o d)[i] \in Bytes
    BY <1>1, ElementOfSeq
  <2>. QED BY <1>1, <2>1, SubSeqProperties
<1>3. /\ y \in Seq(Bytes) /\ Len(y) = IF a <= b THEN b - a + 1 ELSE 0
      /\ \A i \in 1 .. b - a + 1 : y[i] = s[a + i - 1]
  <2>1. \A i \in a .. b : s[i] \in Bytes
    BY ElementOfSeq
  <2>. QED BY <2>1, SubSeqProperties
<1>4. \A i \in 1 .. Len(x) : x[i] = y[i]
  BY <1>1, <1>2, <1>3
<1>. HIDE DEF x, y
<1>5. x = y
  BY <1>2, <1>3, <1>4, SeqEqual
<1>. QED BY <1>5 DEF x, y

(* A line without its CR is a line.                                         *)
LEMMA LineType ==
    ASSUME NEW s \in Seq(Bytes)
    PROVE  WithoutCR(s) \in Seq(Bytes)
<1>1. CASE s # <<>> /\ Last(s) = "\r"
  <2>1. Len(s) - 1 \in 0 .. Len(s) /\ \A i \in 1 .. Len(s) - 1 : s[i] \in Bytes
    BY <1>1, EmptySeq, ElementOfSeq
  <2>2. Front(s) \in Seq(Bytes)
    BY <2>1, SubSeqProperties DEF Front
  <2>. QED BY <1>1, <2>2 DEF WithoutCR
<1>2. CASE ~(s # <<>> /\ Last(s) = "\r")
  BY <1>2 DEF WithoutCR
<1>. QED BY <1>1, <1>2

(* What one recv() returns.                                                 *)
LEMMA ChunkType ==
    ASSUME NEW d \in BoundedSeq(Bytes, MaxChunk)
    PROVE  d \in Seq(Bytes) /\ Len(d) <= MaxChunk
BY LengthsAssumption DEF BoundedSeq, SeqOf

-----------------------------------------------------------------------------
TypeInv ==
    /\ buffer \in Seq(Bytes) /\ overflowed \in BOOLEAN
    /\ pc \in {"recv", "drain", "dropped"}
    /\ stream \in Seq(Bytes) /\ delivered \in Seq(Seq(Bytes))

(* What is left in the buffer: while lines are taken, the part behind a      *)
(* newline came with the last recv(), and the part before it has no other.  *)
LengthInv ==
    /\ Len(buffer) <= MaxLineLength + MaxChunk
    /\ pc = "drain" => ~overflowed
    /\ pc = "drain" /\ NewlineIn(buffer) # 0 =>
         Len(buffer) - NewlineIn(buffer) < MaxChunk
    /\ pc = "drain" /\ NewlineIn(buffer) = 0 => Len(buffer) <= MaxLineLength
    /\ pc = "recv" => NewlineIn(buffer) = 0 /\ Len(buffer) <= MaxLineLength

Places(n, s) == [0 .. n -> {i \in 0 .. Len(s) : i = 0 \/ s[i] = "\n"}]
CutInv == ~overflowed => \E ends \in Places(Len(delivered), stream) : CutAt(ends)

BufferInv == TypeInv /\ LengthInv /\ CutInv

-----------------------------------------------------------------------------
LEMMA BufferInit == Init => BufferInv
<1>. SUFFICES ASSUME Init PROVE BufferInv
  OBVIOUS
<1>1. buffer = <<>> /\ stream = <<>> /\ delivered = <<>> /\ pc = "recv" /\ overflowed = FALSE
  BY DEF Init
<1>2. TypeInv
  <2>1. buffer \in Seq(Bytes) /\ stream \in Seq(Bytes) /\ delivered \in Seq(Seq(Bytes))
    BY <1>1, EmptySeq
  <2>. QED BY <1>1, <2>1 DEF TypeInv
<1>3. LengthInv
  <2>1. Len(buffer) = 0
    BY <1>1
  <2>2. NewlineIn(buffer) = 0
    <3>1. buffer \in Seq(Bytes)
      BY <1>1, EmptySeq
    <3>2. NewlineIn(buffer) \in 0 .. Len(buffer)
      BY <3>1, NewlineFound
    <3>. QED BY <2>1, <3>2
  <2>. QED BY <1>1, <2>1, <2>2, LengthsAssumption DEF LengthInv
<1>4. CutInv
  <2>. DEFINE ends == [k \in 0 .. 0 |-> 0]
  <2>1. ends \in Places(Len(delivered), stream) /\ ends[0] = 0
    BY <1>1 DEF Places
  <2>2. SubSeq(stream, 1, Len(stream)) = <<>>
    BY <1>1
  <2>3. CutAt(ends)
    BY <1>1, <2>1, <2>2 DEF CutAt
  <2>. QED BY <2>1, <2>3 DEF CutInv
<1>. QED BY <1>2, <1>3, <1>4 DEF BufferInv

(* Reading on after a cut: the places where the lines end stay.             *)
LEMMA CutExtends ==
    ASSUME TypeInv, NEW d \in Seq(Bytes), stream' = stream \o d,
           buffer' = buffer \o d, delivered' = delivered,
           NEW ends \in Places(Len(delivered), stream), CutAt(ends)
    PROVE  ends \in Places(Len(delivered'), stream') /\ CutAt(ends)'
<1>. DEFINE n == Len(delivered)
<1>1. n \in Nat /\ stream \in Seq(Bytes) /\ delivered \in Seq(Seq(Bytes))
  BY DEF TypeInv
<1>2. /\ \A k \in 0 .. n : ends[k] \in 0 .. Len(stream)
      /\ \A k \in 0 .. n : ends[k] = 0 \/ stream[ends[k]] = "\n"
  BY <1>1 DEF Places
<1>3. /\ stream' \in Seq(Bytes) /\ Len(stream') = Len(stream) + Len(d)
      /\ \A i \in 1 .. Len(stream) : stream'[i] = stream[i]
  BY <1>1, ConcatProperties
<1>4. ends \in Places(Len(delivered'), stream')
  <2>1. \A k \in 0 .. n : ends[k] \in {i \in 0 .. Len(stream') : i = 0 \/ stream'[i] = "\n"}
    BY <1>1, <1>2, <1>3
  <2>. QED BY <1>1, <2>1 DEF Places
<1>5. ASSUME NEW k \in 1 .. n
      PROVE  /\ ends[k - 1] < ends[k] /\ stream'[ends[k]] = "\n"
             /\ \A i \in ends[k - 1] + 1 .. ends[k] - 1 : stream'[i] # "\n"
             /\ delivered[k] = WithoutCR(SubSeq(stream', ends[k - 1] + 1, ends[k] - 1))
  <2>1. k - 1 \in 0 .. n /\ k \in 0 .. n
    BY <1>1
  <2>2. ends[k - 1] \in 0 .. Len(stream) /\ ends[k] \in 0 .. Len(stream)
    BY <1>2, <2>1
  <2>3. /\ ends[k - 1] < ends[k] /\ stream[ends[k]] = "\n"
        /\ \A i \in ends[k - 1] + 1 .. ends[k] - 1 : stream[i] # "\n"
        /\ delivered[k] = WithoutCR(SubSeq(stream, ends[k - 1] + 1, ends[k] - 1))
    BY DEF CutAt
  <2>4. SubSeq(stream', ends[k - 1] + 1, ends[k] - 1) = SubSeq(stream, ends[k - 1] + 1, ends[k] - 1)
    <3>. DEFINE a == ends[k - 1] + 1
                b == ends[k] - 1
    <3>1. a \in Nat \ {0} /\ b \in Int /\ b <= Len(stream)
      BY <2>2
    <3>. HIDE DEF a, b
    <3>2. SubSeq(stream \o d, a, b) = SubSeq(stream, a, b)
      BY <1>1, <3>1, PartKept
    <3>. QED BY <3>2 DEF a, b
  <2>5. stream'[ends[k]] = "\n"
    BY <1>3, <2>2, <2>3
  <2>6. \A i \in ends[k - 1] + 1 .. ends[k] - 1 : i \in 1 .. Len(stream)
    BY <2>2
  <2>7. \A i \in ends[k - 1] + 1 .. ends[k] - 1 : stream'[i] # "\n"
    BY <1>3, <2>3, <2>6
  <2>. QED BY <2>3, <2>4, <2>5, <2>7
<1>6. buffer' = SubSeq(stream', ends[n] + 1, Len(stream'))
  <2>1. n \in 0 .. n /\ ends[n] \in 0 .. Len(stream)
    BY <1>1, <1>2
  <2>2. buffer = SubSeq(stream, ends[n] + 1, Len(stream))
    BY DEF CutAt
  <2>. QED BY <1>1, <2>1, <2>2, RestExtends
<1>7. ends[0] = 0
  BY DEF CutAt
<1>. QED BY <1>4, <1>5, <1>6, <1>7 DEF CutAt

LEMMA ReceiveStep == BufferInv /\ Receive => BufferInv'
<1>. SUFFICES ASSUME BufferInv, Receive PROVE BufferInv'
  OBVIOUS
<1>. USE DEF BufferInv
<1>1. PICK d \in BoundedSeq(Bytes, MaxChunk) : stream' = stream \o d /\ AppendBytes(d)
  BY DEF Receive
<1>2. d \in Seq(Bytes) /\ Len(d) <= MaxChunk
  BY <1>1, ChunkType
<1>. DEFINE all == buffer \o d
<1>3. /\ buffer \in Seq(Bytes) /\ all \in Seq(Bytes) /\ Len(all) = Len(buffer) + Len(d)
      /\ \A i \in 1 .. Len(buffer) : all[i] = buffer[i]
  BY <1>2, ConcatProperties DEF TypeInv
<1>4. /\ pc = "recv" /\ NewlineIn(buffer) = 0 /\ Len(buffer) <= MaxLineLength
      /\ overflowed \in BOOLEAN /\ delivered' = delivered
      /\ pc' = IF overflowed' THEN "dropped" ELSE "drain"
  BY DEF Receive, LengthInv, TypeInv
<1>5. \A i \in 1 .. Len(buffer) : all[i] # "\n"
  BY <1>3, <1>4, NewlineFound
<1>6. CASE overflowed
  <2>1. buffer' = buffer /\ overflowed' = TRUE /\ pc' = "dropped"
    BY <1>1, <1>4, <1>6 DEF AppendBytes
  <2>2. stream' \in Seq(Bytes)
    BY <1>1, <1>2, ConcatProperties DEF TypeInv
  <2>3. TypeInv'
    BY <1>4, <2>1, <2>2 DEF TypeInv
  <2>4. LengthInv'
    BY <2>1 DEF LengthInv
  <2>. QED BY <2>1, <2>3, <2>4 DEF CutInv
<1>7. CASE ~overflowed /\ Len(all) > MaxLineLength /\ NewlineIn(all) = 0
  <2>1. buffer' = <<>> /\ overflowed' = TRUE /\ pc' = "dropped"
    BY <1>1, <1>4, <1>7 DEF AppendBytes
  <2>2. stream' \in Seq(Bytes)
    BY <1>1, <1>2, ConcatProperties DEF TypeInv
  <2>3. TypeInv'
    BY <1>4, <2>1, <2>2 DEF TypeInv
  <2>4. LengthInv'
    BY <2>1, LengthsAssumption DEF LengthInv
  <2>. QED BY <2>1, <2>3, <2>4 DEF CutInv
<1>8. CASE ~overflowed /\ ~(Len(all) > MaxLineLength /\ NewlineIn(all) = 0)
  <2>1. buffer' = all /\ overflowed' = FALSE /\ pc' = "drain"
    BY <1>1, <1>4, <1>8 DEF AppendBytes
  <2>2. stream' \in Seq(Bytes)
    BY <1>1, <1>2, ConcatProperties DEF TypeInv
  <2>3. TypeInv'
    BY <1>3, <1>4, <2>1, <2>2 DEF TypeInv
  <2>. HIDE DEF all
  <2>4. NewlineIn(all) \in 0 .. Len(all) /\ (NewlineIn(all) # 0 => NewlineIn(all) > Len(buffer))
    <3>1. /\ NewlineIn(all) \in 0 .. Len(all)
          /\ NewlineIn(all) # 0 => all[NewlineIn(all)] = "\n"
      BY <1>3, NewlineFound
    <3>2. ASSUME NewlineIn(all) # 0, ~(NewlineIn(all) > Len(buffer)) PROVE FALSE
      <4>1. NewlineIn(all) \in 1 .. Len(buffer)
        BY <1>3, <3>1, <3>2
      <4>. QED BY <1>5, <3>1, <3>2, <4>1
    <3>. QED BY <3>1, <3>2
  <2>5. LengthInv'
    <3>1. Len(all) <= MaxLineLength + MaxChunk
      BY <1>2, <1>3, <1>4, LengthsAssumption
    <3>2. NewlineIn(all) # 0 => Len(all) - NewlineIn(all) < MaxChunk
      BY <1>2, <1>3, <2>4, LengthsAssumption
    <3>3. NewlineIn(all) = 0 => Len(all) <= MaxLineLength
      BY <1>3, <1>8, LengthsAssumption
    <3>4. /\ Len(buffer') <= MaxLineLength + MaxChunk
          /\ NewlineIn(buffer') # 0 => Len(buffer') - NewlineIn(buffer') < MaxChunk
          /\ NewlineIn(buffer') = 0 => Len(buffer') <= MaxLineLength
      BY <2>1, <3>1, <3>2, <3>3
    <3>5. overflowed' = FALSE /\ pc' = "drain"
      BY <2>1
    <3>. QED BY <3>4, <3>5 DEF LengthInv, NewlineIn
  <2>6. CutInv'
    <3>1. PICK ends \in Places(Len(delivered), stream) : CutAt(ends)
      BY <1>8 DEF CutInv
    <3>2. ends \in Places(Len(delivered'), stream') /\ CutAt(ends)'
      BY <1>1, <1>2, <1>4, <2>1, <3>1, CutExtends DEF all
    <3>. QED BY <3>2 DEF CutInv
  <2>. QED BY <2>3, <2>5, <2>6
<1>. QED BY <1>4, <1>6, <1>7, <1>8

LEMMA NextLineStep == BufferInv /\ NextLine => BufferInv'
<1>. SUFFICES ASSUME BufferInv, NextLine PROVE BufferInv'
  OBVIOUS
<1>. DEFINE p == NewlineIn(buffer)
            n == Len(delivered)
            line == SubSeq(buffer, 1, p - 1)
            rest == SubSeq(buffer, p + 1, Len(buffer))
<1>1. /\ pc = "drain" /\ p # 0 /\ overflowed = FALSE /\ pc' = "drain" /\ overflowed' = FALSE
      /\ stream' = stream /\ buffer' = rest
      /\ delivered' = delivered \o <<WithoutCR(line)>>
  <2>1. overflowed \in BOOLEAN /\ ~overflowed
    BY DEF NextLine, BufferInv, TypeInv, LengthInv
  <2>. QED BY <2>1 DEF NextLine
<1>2. /\ buffer \in Seq(Bytes) /\ stream \in Seq(Bytes) /\ delivered \in Seq(Seq(Bytes))
      /\ n \in Nat
  BY DEF BufferInv, TypeInv
<1>3. p \in 1 .. Len(buffer) /\ buffer[p] = "\n" /\ \A i \in 1 .. p - 1 : buffer[i] # "\n"
  BY <1>1, <1>2, NewlineFound
<1>4. Len(buffer) - p < MaxChunk
  BY <1>1 DEF BufferInv, LengthInv
<1>. HIDE DEF p
<1>5. line \in Seq(Bytes) /\ rest \in Seq(Bytes) /\ Len(rest) = Len(buffer) - p
  <2>1. \A i \in 1 .. Len(buffer) : buffer[i] \in Bytes
    BY <1>2, ElementOfSeq
  <2>2. line \in Seq(Bytes)
    BY <1>2, <1>3, <2>1, SubSeqProperties
  <2>3. /\ rest \in Seq(Bytes)
        /\ Len(rest) = IF p + 1 <= Len(buffer) THEN Len(buffer) - (p + 1) + 1 ELSE 0
    BY <1>2, <1>3, <2>1, SubSeqProperties
  <2>. QED BY <1>2, <1>3, <2>2, <2>3
<1>. HIDE DEF line, rest
<1>6. /\ delivered' \in Seq(Seq(Bytes)) /\ Len(delivered') = n + 1
      /\ \A k \in 1 .. n : delivered'[k] = delivered[k]
      /\ delivered'[n + 1] = WithoutCR(line)
  <2>1. WithoutCR(line) \in Seq(Bytes)
    BY <1>5, LineType
  <2>. HIDE DEF n
  <2>2. n = Len(delivered)
    BY DEF n
  <2>. QED BY <1>1, <1>2, <2>1, <2>2
<1>7. TypeInv'
  BY <1>1, <1>2, <1>5, <1>6 DEF TypeInv
<1>8. LengthInv'
  <2>1. NewlineIn(rest) \in 0 .. Len(rest)
    BY <1>5, NewlineFound
  <2>2. /\ Len(rest) <= MaxLineLength + MaxChunk
        /\ NewlineIn(rest) # 0 => Len(rest) - NewlineIn(rest) < MaxChunk
        /\ NewlineIn(rest) = 0 => Len(rest) <= MaxLineLength
    BY <1>2, <1>3, <1>4, <1>5, <2>1, LengthsAssumption
  <2>3. /\ Len(buffer') <= MaxLineLength + MaxChunk
        /\ NewlineIn(buffer') # 0 => Len(buffer') - NewlineIn(buffer') < MaxChunk
        /\ NewlineIn(buffer') = 0 => Len(buffer') <= MaxLineLength
    BY <1>1, <2>2
  <2>. QED BY <1>1, <2>3 DEF LengthInv, NewlineIn
<1>9. CutInv'
  <2>1. PICK ends \in Places(n, stream) : CutAt(ends)
    BY <1>1 DEF BufferInv, CutInv
  <2>. DEFINE e == ends[n]
  <2>2. /\ \A k \in 0 .. n : ends[k] \in {i \in 0 .. Len(stream) : i = 0 \/ stream[i] = "\n"}
        /\ e \in 0 .. Len(stream)
    <3>1. \A k \in 0 .. n : ends[k] \in {i \in 0 .. Len(stream) : i = 0 \/ stream[i] = "\n"}
      BY <2>1 DEF Places
    <3>2. n \in 0 .. n
      BY <1>2
    <3>. QED BY <3>1, <3>2
  <2>3. buffer = SubSeq(stream, e + 1, Len(stream)) /\ ends[0] = 0
    BY <2>1 DEF CutAt
  <2>4. /\ Len(buffer) = Len(stream) - e
        /\ \A i \in 1 .. Len(buffer) : buffer[i] = stream[e + i]
    <3>1. \A i \in e + 1 .. Len(stream) : stream[i] \in Bytes
      BY <1>2, <2>2, ElementOfSeq
    <3>. HIDE DEF e
    <3>2. /\ Len(buffer) = IF e + 1 <= Len(stream) THEN Len(stream) - (e + 1) + 1 ELSE 0
          /\ \A i \in 1 .. Len(stream) - (e + 1) + 1 : buffer[i] = stream[(e + 1) + i - 1]
      BY <1>2, <2>2, <2>3, <3>1, SubSeqProperties
    <3>. QED BY <1>2, <2>2, <3>2
  <2>. HIDE DEF e
  <2>5. e + p \in 1 .. Len(stream) /\ stream[e + p] = "\n"
    BY <1>2, <1>3, <2>2, <2>4
  <2>6. \A i \in e + 1 .. e + p - 1 : stream[i] # "\n"
    <3>. TAKE i \in e + 1 .. e + p - 1
    <3>1. i - e \in 1 .. p - 1 /\ i - e \in 1 .. Len(buffer)
      BY <1>2, <1>3, <2>2
    <3>2. buffer[i - e] = stream[e + (i - e)] /\ e + (i - e) = i
      BY <2>2, <2>4, <3>1
    <3>. QED BY <1>3, <3>1, <3>2
  <2>7. line = SubSeq(stream, e + 1, e + p - 1)
    <3>1. p - 1 \in Int /\ p - 1 <= Len(stream) - e
      BY <1>2, <1>3, <2>2, <2>4
    <3>2. SubSeq(buffer, 1, p - 1) = SubSeq(stream, e + 1, e + (p - 1))
      BY <1>2, <2>2, <2>3, <3>1, PartOfRest
    <3>3. e + (p - 1) = e + p - 1
      BY <1>3, <2>2
    <3>. QED BY <3>2, <3>3 DEF line
  <2>8. rest = SubSeq(stream, e + p + 1, Len(stream))
    <3>1. p + 1 \in Nat \ {0} /\ Len(buffer) \in Int /\ Len(buffer) <= Len(stream) - e
      BY <1>2, <1>3, <2>2, <2>4
    <3>2. SubSeq(buffer, p + 1, Len(buffer)) = SubSeq(stream, e + (p + 1), e + Len(buffer))
      BY <1>2, <2>2, <2>3, <3>1, PartOfRest
    <3>3. e + (p + 1) = e + p + 1 /\ e + Len(buffer) = Len(stream)
      BY <1>2, <1>3, <2>2, <2>4
    <3>. QED BY <3>2, <3>3 DEF rest
  <2>. PICK more : more = [k \in 0 .. n + 1 |-> IF k = n + 1 THEN e + p ELSE ends[k]]
    OBVIOUS
  <2>9. more \in Places(n + 1, stream)
    BY <1>2, <2>2, <2>5 DEF Places
  <2>10. /\ more[0] = 0 /\ more[n + 1] = e + p /\ more[n] = e
         /\ \A k \in 0 .. n : more[k] = ends[k]
    BY <1>2, <2>3 DEF e
  <2>11. ASSUME NEW k \in 1 .. n + 1
         PROVE  /\ more[k - 1] < more[k] /\ stream[more[k]] = "\n"
                /\ \A i \in more[k - 1] + 1 .. more[k] - 1 : stream[i] # "\n"
                /\ delivered'[k] = WithoutCR(SubSeq(stream, more[k - 1] + 1, more[k] - 1))
    <3>1. CASE k = n + 1
      <4>1. k - 1 = n /\ more[k - 1] = e /\ more[k] = e + p
        BY <1>2, <2>10, <3>1
      <4>2. e < e + p
        BY <1>3, <2>2
      <4>3. delivered'[k] = WithoutCR(SubSeq(stream, e + 1, e + p - 1))
        BY <1>6, <2>7, <3>1
      <4>4. \A i \in more[k - 1] + 1 .. more[k] - 1 : stream[i] # "\n"
        BY <2>6, <4>1
      <4>5. more[k - 1] < more[k] /\ stream[more[k]] = "\n"
        BY <2>5, <4>1, <4>2
      <4>6. delivered'[k] = WithoutCR(SubSeq(stream, more[k - 1] + 1, more[k] - 1))
        <5>1. e + (p - 1) = (e + p) - 1
          BY <1>3, <2>2
        <5>2. delivered'[k] = WithoutCR(SubSeq(stream, e + 1, (e + p) - 1))
          BY <4>3, <5>1
        <5>. QED BY <4>1, <5>2
      <4>. QED BY <4>4, <4>5, <4>6
    <3>2. CASE k # n + 1
      <4>1. k \in 1 .. n /\ k - 1 \in 0 .. n /\ k \in 0 .. n
        BY <1>2, <3>2
      <4>2. more[k - 1] = ends[k - 1] /\ more[k] = ends[k]
        BY <2>10, <4>1
      <4>3. /\ ends[k - 1] < ends[k] /\ stream[ends[k]] = "\n"
            /\ \A i \in ends[k - 1] + 1 .. ends[k] - 1 : stream[i] # "\n"
            /\ delivered[k] = WithoutCR(SubSeq(stream, ends[k - 1] + 1, ends[k] - 1))
        BY <2>1, <4>1 DEF CutAt
      <4>. QED BY <1>6, <4>1, <4>2, <4>3
    <3>. QED BY <3>1, <3>2
  <2>12. CutAt(more)'
    <3>1. buffer' = SubSeq(stream', more[Len(delivered')] + 1, Len(stream'))
      BY <1>1, <1>6, <2>8, <2>10
    <3>2. more[0] = 0 /\ stream' = stream /\ Len(delivered') = n + 1
      BY <1>1, <1>6, <2>10
    <3>. HIDE DEF n
    <3>3. \A k \in 1 .. Len(delivered') :
            /\ more[k - 1] < more[k] /\ stream'[more[k]] = "\n"
            /\ \A i \in more[k - 1] + 1 .. more[k] - 1 : stream'[i] # "\n"
            /\ delivered'[k] = WithoutCR(SubSeq(stream', more[k - 1] + 1, more[k] - 1))
      BY <2>11, <3>2
    <3>. QED BY <3>1, <3>2, <3>3 DEF CutAt
  <2>13. more \in Places(Len(delivered'), stream')
    BY <1>1, <1>6, <2>9
  <2>. QED BY <2>12, <2>13 DEF CutInv
<1>. QED BY <1>7, <1>8, <1>9 DEF BufferInv

LEMMA NoLineStep == BufferInv /\ NoLine => BufferInv'
BY DEF BufferInv, TypeInv, LengthInv, CutInv, CutAt, NewlineIn, NoLine

LEMMA ReconnectStep == BufferInv /\ Reconnect => BufferInv'
<1>. SUFFICES ASSUME BufferInv, Reconnect PROVE BufferInv'
  OBVIOUS
<1>1. buffer' = <<>> /\ stream' = <<>> /\ delivered' = <<>> /\ pc' = "recv"
  BY DEF Reconnect
<1>2. Len(buffer') = 0 /\ NewlineIn(buffer') = 0
  <2>1. Len(<<>>) = 0 /\ <<>> \in Seq(Bytes)
    BY EmptySeq
  <2>2. NewlineIn(<<>>) \in 0 .. Len(<<>>)
    BY <2>1, NewlineFound
  <2>. QED BY <1>1, <2>1, <2>2
<1>3. TypeInv'
  <2>1. buffer' \in Seq(Bytes) /\ stream' \in Seq(Bytes) /\ delivered' \in Seq(Seq(Bytes))
    BY <1>1, EmptySeq
  <2>2. overflowed' \in BOOLEAN
    BY DEF Reconnect, BufferInv, TypeInv
  <2>. QED BY <1>1, <2>1, <2>2 DEF TypeInv
<1>4. LengthInv'
  <2>1. pc' = "recv" /\ Len(buffer') <= MaxLineLength + MaxChunk /\ Len(buffer') <= MaxLineLength
    BY <1>1, <1>2, LengthsAssumption
  <2>. QED BY <1>2, <2>1 DEF LengthInv, NewlineIn
<1>5. CutInv'
  <2>. DEFINE ends == [k \in 0 .. 0 |-> 0]
  <2>1. ends \in Places(Len(delivered'), stream') /\ ends[0] = 0 /\ Len(delivered') = 0
    BY <1>1 DEF Places
  <2>2. SubSeq(stream', 1, Len(stream')) = <<>>
    BY <1>1
  <2>3. CutAt(ends)'
    BY <1>1, <2>1, <2>2 DEF CutAt
  <2>. QED BY <2>1, <2>3 DEF CutInv
<1>. QED BY <1>3, <1>4, <1>5 DEF BufferInv

LEMMA BufferStutters == BufferInv /\ UNCHANGED vars => BufferInv'
<1>. SUFFICES ASSUME BufferInv, UNCHANGED vars PROVE BufferInv'
  OBVIOUS
<1>. USE DEF vars, BufferInv
<1>1. TypeInv'
  BY DEF TypeInv
<1>2. LengthInv'
  BY DEF LengthInv, NewlineIn
<1>3. CutInv'
  BY DEF CutInv, CutAt
<1>. QED BY <1>1, <1>2, <1>3

(* The invariant of the buffer. It says more than LinesOfTheStream: a recv()  *)
(* is only read when the last newline has been taken out of what is buffered, *)
(* so what follows a newline always fits into one recv().                   *)
THEOREM BufferCorrect == Spec => []BufferInv
<1>1. BufferInv /\ [Next]_vars => BufferInv'
  BY ReceiveStep, NextLineStep, NoLineStep, ReconnectStep, BufferStutters DEF Next
<1>. QED BY BufferInit, <1>1, PTL DEF Spec

-----------------------------------------------------------------------------
(* Every variable of the buffer keeps its type, and the buffer its bound.   *)
THEOREM TypeCorrect == Spec => []TypeOK
<1>1. BufferInv => TypeOK
  BY DEF BufferInv, TypeInv, LengthInv, TypeOK
<1>. QED BY <1>1, BufferCorrect, PTL

(* The lines delivered are those of the stream, however recv() cuts it.     *)
THEOREM LinesCorrect == Spec => []LinesOfTheStream
<1>1. BufferInv => LinesOfTheStream
  BY DEF BufferInv, LengthInv, CutInv, Places, LinesOfTheStream
<1>. QED BY <1>1, BufferCorrect, PTL

(* Only an unfinished line that is too long drops the connection.           *)
THEOREM OverflowCorrect == Spec => OverflowIsDeserved
<1>1. BufferInv /\ [Next]_vars => [~overflowed /\ overflowed' => Unfinished(stream', MaxLineLength + 1)]_vars
  <2>. SUFFICES ASSUME BufferInv, [Next]_vars, ~overflowed, overflowed'
                PROVE  Unfinished(stream', MaxLineLength + 1)
    OBVIOUS
  <2>1. Receive
    BY DEF Next, NextLine, NoLine, Reconnect, vars
  <2>2. PICK d \in BoundedSeq(Bytes, MaxChunk) : stream' = stream \o d /\ AppendBytes(d)
    BY <2>1 DEF Receive
  <2>. DEFINE all == buffer \o d
              n == Len(delivered)
  <2>3. /\ d \in Seq(Bytes) /\ buffer \in Seq(Bytes) /\ stream \in Seq(Bytes) /\ n \in Nat
        /\ all \in Seq(Bytes)
    BY <2>2, ChunkType, ConcatProperties DEF BufferInv, TypeInv
  <2>4. Len(all) > MaxLineLength /\ NewlineIn(all) = 0
    BY <2>2 DEF AppendBytes
  <2>5. \A i \in 1 .. Len(all) : all[i] # "\n"
    BY <2>3, <2>4, NewlineFound
  <2>6. PICK ends \in Places(n, stream) : CutAt(ends)
    BY DEF BufferInv, CutInv
  <2>. DEFINE e == ends[n]
  <2>7. e \in 0 .. Len(stream) /\ buffer = SubSeq(stream, e + 1, Len(stream))
    <3>1. n \in 0 .. n /\ \A k \in 0 .. n : ends[k] \in 0 .. Len(stream)
      BY <2>3, <2>6 DEF Places
    <3>. QED BY <2>6, <3>1 DEF CutAt
  <2>. HIDE DEF e
  <2>8. all = SubSeq(stream', e + 1, Len(stream'))
    BY <2>2, <2>3, <2>7, RestExtends
  <2>9. /\ stream' \in Seq(Bytes) /\ Len(stream') = Len(stream) + Len(d)
        /\ e \in 0 .. Len(stream')
    <3>1. stream' \in Seq(Bytes) /\ Len(stream') = Len(stream) + Len(d)
      BY <2>2, <2>3, ConcatProperties
    <3>. QED BY <2>3, <2>7, <3>1
  <2>. HIDE DEF all
  <2>10. /\ Len(all) = Len(stream') - e
         /\ \A i \in 1 .. Len(all) : all[i] = stream'[e + i]
    <3>1. \A i \in e + 1 .. Len(stream') : stream'[i] \in Bytes
      BY <2>9, ElementOfSeq
    <3>2. /\ Len(all) = IF e + 1 <= Len(stream') THEN Len(stream') - (e + 1) + 1 ELSE 0
          /\ \A i \in 1 .. Len(stream') - (e + 1) + 1 : all[i] = stream'[(e + 1) + i - 1]
      BY <2>8, <2>9, <3>1, SubSeqProperties
    <3>. QED BY <2>9, <3>2
  <2>11. MaxLineLength + 1 <= Len(stream') - e
    BY <2>3, <2>4, <2>9, <2>10, LengthsAssumption
  <2>12. ASSUME NEW i \in Len(stream') - (MaxLineLength + 1) + 1 .. Len(stream')
         PROVE  stream'[i] # "\n"
    <3>1. i - e \in 1 .. Len(all) /\ e + (i - e) = i
      BY <2>3, <2>9, <2>10, <2>11, LengthsAssumption
    <3>. QED BY <2>5, <2>10, <3>1
  <2>13. MaxLineLength + 1 <= Len(stream')
    BY <2>9, <2>11, LengthsAssumption
  <2>. QED BY <2>12, <2>13 DEF Unfinished
<1>. QED BY <1>1, BufferCorrect, PTL DEF Spec, OverflowIsDeserved

=============================================================================
