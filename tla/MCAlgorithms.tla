---------------------------- MODULE MCAlgorithms ----------------------------
(***************************************************************************)
(* The inputs of Algorithms on which TLC tries the algorithms, and texts    *)
(* for the JSON parser.                                                     *)
(***************************************************************************)
EXTENDS Algorithms, Json, JsonStrings

CONSTANTS EdgeLimbs,      \* limbs at the edges of what a limb can hold
          MaxExponent,    \* exponents of nBits that are tried
          MaxLeaves,      \* leaves of the trees that are tried
          MaxTime,        \* clocks of the statistics
          MaxRecordings,  \* recordings of the statistics
          MaxPart,        \* bytes in one call of update()
          MaxText         \* tokens of the texts that are tried

ASSUME InputsAssumption ==
    /\ EdgeLimbs \subseteq 0 .. LimbBase - 1 /\ MaxExponent \in Nat
    /\ MaxLeaves \in Nat \ {0}
    /\ MaxTime \in Nat /\ MaxRecordings \in Nat /\ MaxPart \in Nat /\ MaxText \in Nat

Edges == [Limbs -> EdgeLimbs]

(* Difficulties from the least up, where the numerator changes, and the     *)
(* highest that fit.                                                        *)
EdgeDifficulties == (1 .. 24) \cup (118 .. 160) \cup (1008 .. 1022)

(* Recordings; hashes get an amount of their own by their place.            *)
Times == 0 .. MaxTime
TriedRecordings ==
    Recording({"hashes"}, Times, {1}) \cup Recording({"hashes"}, {1}, {0})
      \cup Recording({"share"}, {0}, {1, 2}) \cup Recording({"begin", "end"}, {1}, {0})
Weighed(recordings) ==
    [i \in DOMAIN recordings |->
       IF recordings[i].kind = "hashes" THEN [recordings[i] EXCEPT !.amount = @ * 2 ^ i]
       ELSE recordings[i]]

(* A message in three parts; its bytes are told apart by their places.      *)
Part(sizes, k) == [i \in 1 .. sizes[k] |-> <<"byte", MaxPart * k + i>>]
Messages == {[k \in 1 .. 3 |-> Part(sizes, k)] : sizes \in [1 .. 3 -> 0 .. MaxPart]}

(* Jobs that can and cannot be worked on.                                   *)
TriedJobs ==
    [jobId : {"", "j"}, coinbase1 : {<<>>, <<1>>}, extranonce1 : {<<2>>}, coinbase2 : {<<3>>},
     branch : {<<"left">>, <<"left", "right">>}, extranonce2Size : 0 .. 3, difficulty : {0, 5},
     nBits : [exponent : {3, MaxExponent}, word : {0, 1, SignBit + 1}]]

(* Blocks whose fields are told apart by their bytes.                       *)
Block(word) ==
    [jobId |-> "j", previous |-> [i \in 1 .. WordBytes * HashWords |-> i % ByteBase],
     coinbase1 |-> <<1>>, coinbase2 |-> <<3>>, branch |-> <<"left">>,
     version |-> WriteLE32(word), bits |-> WriteLE32((word + 5) % ByteBase ^ WordBytes),
     timestamp |-> WriteLE32((7 * word + 3) % ByteBase ^ WordBytes)]

Values ==
    {Null, Truth(FALSE), Truth(TRUE), Text("n"), Digits(2)}
      \cup {Number(n) : n \in (-2 .. Ports + 1) \cup {IntSpace \div 2 - 1}}
Patches == UNION {[{field} -> Values] : field \in DOMAIN Defaults}

(* Trees of containers of containers, and of containers of those.           *)
Leaves == {Scalar(token) : token \in Scalars} \cup {Array(<<>>), Object(<<>>)}
Around(first, second) ==
    {Array(<<x>>) : x \in first} \cup {Array(<<x, y>>) : x \in first, y \in second}
      \cup {Array(<<y, x>>) : x \in first, y \in second}
      \cup {Object(<<Member(k, x)>>) : k \in Keys, x \in first}
      \cup {Object(<<Member(k, x), Member(l, y)>>) : k \in Keys, l \in Keys,
                                                     x \in first, y \in second}
ShallowTrees == Leaves \cup Around(Leaves, Leaves)
Trees == ShallowTrees \cup Around(ShallowTrees, {Scalar("null")})
GoodTexts == {Dump(tree) : tree \in {t \in Trees : Nesting(t) < MaxDepth}}
ShortTokens == Tokens \ {"b"}

Codes == {0, 8, 10, 31, 47, 48, Quote, Backslash, 98, 110, 117, 128, 255}

TriedSubjects ==
    [kind : {"numbers"}, a : Edges, b : Edges]
      \cup [kind : {"shift"}, a : Edges, shift : 0 .. Width + 1]
      \cup [kind : {"nBits"}, exponent : 0 .. MaxExponent, word : Word]
      \cup [kind : {"target"}, target : Edges]
      \cup [kind : {"share"}, hash : Edges, d : EdgeDifficulties]
      \cup {[kind |-> "leaves", leaves |-> [i \in 1 .. n |-> <<i>>]] : n \in 1 .. MaxLeaves}
      \cup {[kind |-> "recordings", recordings |-> Weighed(recordings)] :
              recordings \in [1 .. MaxRecordings -> TriedRecordings]}
      \cup [kind : {"message"}, parts : Messages]
      \cup [kind : {"work"}, job : TriedJobs, a : Counters, b : Counters]
      \cup [kind : {"wire"}, block : {Block(word) : word \in Words}, extranonce1 : {<<2>>},
            extranonce2 : [1 .. 2 -> Bytes], nonce : Words]
      \cup [kind : {"tree"}, tree : Trees]
      \cup [kind : {"text"}, text : BoundedSeq(ShortTokens, MaxText)]
      \cup [kind : {"string"}, codes : BoundedSeq(Codes, 3)]
      \cup [kind : {"patch"}, patch : Patches, edited : DOMAIN Defaults, to : Values]

(* Texts are read as the grammar says, up to the depth that is allowed, and *)
(* what is written is read again as it was.                                 *)
TextsAreRead ==
    /\ subject.kind = "tree"   => ReadsTheTree(subject.tree)
    /\ subject.kind = "text"   => ReadsOnlyTrees(subject.text, GoodTexts)
    /\ subject.kind = "string" => StringsComeBack(subject.codes)
=============================================================================
