-------------------------- MODULE AlgorithmProofs ---------------------------
(****************************************************************************)
(* Theorems about Algorithms, for every set of allowed inputs and every size *)
(* of the words: what holds of the chosen input holds of all.               *)
(****************************************************************************)
EXTENDS Algorithms, JsonStrings, ArithmeticProofs, SequenceTheorems, FiniteSetTheorems

(* Before the choice there is no input, and after it an allowed one.        *)
InputInv == subject = [kind |-> "none"] \/ Allowed(subject)

(* Before the choice there is no input, and after it an allowed one.        *)
LEMMA SubjectAllowed == Spec => []InputInv
<1>1. Init => InputInv
  BY DEF Init, InputInv
<1>2. InputInv /\ [Next]_subject => InputInv'
  <2>. SUFFICES ASSUME InputInv, [Next]_subject PROVE InputInv'
    OBVIOUS
  <2>1. CASE Choose
    BY <2>1, SubjectsAssumption DEF Choose, InputInv
  <2>2. CASE UNCHANGED subject
    BY <2>2 DEF InputInv
  <2>. QED BY <2>1, <2>2 DEF Next, Chosen
<1>. QED BY <1>1, <1>2, PTL DEF Spec

(* The 256-bit integers of bitcoin/uint256.cpp are exact, for every width of *)
(* their limbs and every operand: sums, borrows, shifts and long division.  *)
THEOREM NumbersCorrect == Spec => []NumbersAreExact
<1>1. InputInv => NumbersAreExact
  <2>. SUFFICES ASSUME InputInv PROVE NumbersAreExact
    OBVIOUS
  <2>1. ASSUME subject.kind = "numbers"
        PROVE  SumsAreExact(subject.a, subject.b) /\ QuotientsAreExact(subject.a, subject.b)
    <3>1. subject.a \in UInts /\ subject.b \in UInts
      BY <2>1 DEF InputInv, Allowed
    <3>. QED BY <3>1, SumsExact, QuotientsExact
  <2>2. ASSUME subject.kind = "shift" PROVE ShiftsAreExact(subject.a, subject.shift)
    <3>1. subject.a \in UInts /\ subject.shift \in Nat
      BY <2>2 DEF InputInv, Allowed
    <3>. QED BY <3>1, ShiftsExact
  <2>. QED BY <2>1, <2>2 DEF NumbersAreExact
<1>. QED BY <1>1, SubjectAllowed, PTL

(* Compact targets are decoded and encoded exactly, and the targets of share *)
(* difficulties fall as the difficulty rises and rank shares as they should, *)
(* for every word size (bitcoin/difficulty.cpp).                            *)
THEOREM TargetsCorrect == Spec => []TargetsAreExact
<1>1. InputInv => TargetsAreExact
  <2>. SUFFICES ASSUME InputInv PROVE TargetsAreExact
    OBVIOUS
  <2>. DEFINE nBits == [exponent |-> subject.exponent, word |-> subject.word]
  <2>1. ASSUME subject.kind = "nBits" PROVE DecodesItsValue(nBits) /\ RoundTrips(nBits)
    <3>1. nBits.exponent \in Nat /\ nBits.word \in Word
      BY <2>1 DEF InputInv, Allowed
    <3>. HIDE DEF nBits
    <3>. QED BY <3>1, DecodesExact, RoundTripsExact
  <2>2. ASSUME subject.kind = "target" PROVE EncodingIsTight(subject.target)
    <3>1. subject.target \in UInts
      BY <2>2 DEF InputInv, Allowed
    <3>. QED BY <3>1, EncodesTight
  <2>3. ASSUME subject.kind = "share"
        PROVE  HarderIsSmaller(subject.d) /\ RanksLikeItsTarget(subject.hash, subject.d)
    <3>1. subject.hash \in UInts /\ subject.d \in 1 .. Unit * LimbBase - 2
      BY <2>3 DEF InputInv, Allowed
    <3>2. \A n \in Int : \A d \in 1 .. n - 2 : d \in 1 .. n - 1
      OBVIOUS
    <3>3. Unit * LimbBase \in Int
      BY NumeratorsAre, LimbBaseIs
    <3>4. subject.d \in 1 .. Unit * LimbBase - 1
      BY <3>1, <3>2, <3>3
    <3>. QED BY <3>1, <3>4, HarderSmaller, RankingExact
  <2>. QED BY <2>1, <2>2, <2>3 DEF TargetsAreExact
<1>. QED BY <1>1, SubjectAllowed, PTL

-----------------------------------------------------------------------------
(* Configurations.                                                          *)

Fields == {"device", "cpuThreads", "port", "level", "name", "password", "root"}

(* A cast is done once: what it yields, it leaves alone.                    *)
LEMMA CastOnce ==
    ASSUME NEW n \in Int
    PROVE  /\ CastToInt(n) \in Int /\ CastToInt(CastToInt(n)) = CastToInt(n)
           /\ n \in 0 .. IntSpace \div 2 - 1 => CastToInt(n) = n
<1>. DEFINE low == n % IntSpace
            half == IntSpace \div 2
            v == CastToInt(n)
<1>1. IntSpace \in Nat \ {0} /\ half \in Nat /\ half <= IntSpace
  BY WidthsAssumption
<1>2. low \in 0 .. IntSpace - 1 /\ v = IF low < half THEN low ELSE low - IntSpace
  BY <1>1, DivMod DEF CastToInt
<1>. HIDE DEF v
<1>3. /\ v \in Int /\ v \in -IntSpace .. IntSpace - 1
      /\ (v < 0 => v = low - IntSpace) /\ (v >= 0 => v = low)
  <2>. HIDE DEF low, half
  <2>. QED BY <1>1, <1>2
<1>4. v % IntSpace = low
  <2>. HIDE DEF low, half
  <2>1. CASE v < 0
    <3>1. v \in -IntSpace .. -1 /\ v + IntSpace = low
      BY <1>1, <1>2, <1>3, <2>1
    <3>. QED BY <1>1, <1>3, <3>1, ModNear
  <2>2. CASE v >= 0
    <3>1. v \in 0 .. IntSpace - 1 /\ v = low
      BY <1>1, <1>2, <1>3, <2>2
    <3>. QED BY <1>1, <1>3, <3>1, ModNear
  <2>. QED BY <1>3, <2>1, <2>2
<1>5. CastToInt(v) = v
  BY <1>2, <1>4 DEF CastToInt
<1>6. n \in 0 .. half - 1 => v = n
  <2>1. n \in 0 .. half - 1 => n \in 0 .. IntSpace - 1
    <3>. HIDE DEF half
    <3>. QED BY <1>1
  <2>2. n \in 0 .. IntSpace - 1 => low = n
    BY <1>1, ModNear
  <2>. HIDE DEF low, half
  <2>. QED BY <1>1, <1>2, <2>1, <2>2
<1>. QED BY <1>3, <1>5, <1>6 DEF v

(* What a configuration is once it has been converted.                      *)
ConfigInv(config) ==
    /\ config = [f \in Fields |-> config[f]]
    /\ config["device"] \in Int /\ CastToInt(config["device"]) = config["device"]
    /\ config["cpuThreads"] \in Nat /\ CastToInt(config["cpuThreads"]) = config["cpuThreads"]
    /\ config["port"] \in 1 .. Ports - 1
    /\ config["level"] \in Int

(* A value is read as a number if it is one, and else left alone.           *)
LEMMA AsIntIs ==
    ASSUME NEW v, JsonValue(v), NEW old \in Int
    PROVE  /\ AsInt(v, old) \in Int
           /\ \/ AsInt(v, old) = old
              \/ AsInt(v, old) \in {0, 1}
              \/ v.kind \in {"digits", "number"} /\ AsInt(v, old) = v.number
<1>1. CASE v = Null \/ v \in [kind : {"string"}, text : STRING]
  BY <1>1 DEF AsInt, Null
<1>2. CASE v \in [kind : {"bool"}, number : {0, 1}]
  BY <1>2 DEF AsInt
<1>3. CASE v \in [kind : {"digits", "number"}, number : Int]
  BY <1>3 DEF AsInt
<1>. QED BY <1>1, <1>2, <1>3 DEF JsonValue

(* Every conversion of a value that fits keeps the fields in range.         *)
LEMMA ConvertedIs ==
    ASSUME NEW v, JsonValue(v), NEW old \in Int
    PROVE  /\ Converted("device", v, old) \in Int
           /\ CastToInt(Converted("device", v, old)) = Converted("device", v, old)
           /\ FitsItsField("cpuThreads", v) /\ old \in Nat /\ CastToInt(old) = old =>
                /\ Converted("cpuThreads", v, old) \in Nat
                /\ CastToInt(Converted("cpuThreads", v, old)) = Converted("cpuThreads", v, old)
           /\ old \in 1 .. Ports - 1 => Converted("port", v, old) \in 1 .. Ports - 1
           /\ Converted("level", v, old) \in Int
<1>. DEFINE n == AsInt(v, old)
<1>1. n \in Int /\ (n = old \/ n \in {0, 1} \/ (v.kind \in {"digits", "number"} /\ n = v.number))
  <2>1. \A w : JsonValue(w) => /\ AsInt(w, old) \in Int
                              /\ \/ AsInt(w, old) = old
                                 \/ AsInt(w, old) \in {0, 1}
                                 \/ w.kind \in {"digits", "number"} /\ AsInt(w, old) = w.number
    BY AsIntIs
  <2>. QED BY <2>1
<1>2. Converted("device", v, old) = CastToInt(n)
  BY DEF Converted
<1>3. Converted("cpuThreads", v, old) = IF n < 0 THEN 0 ELSE CastToInt(n)
  BY DEF Converted
<1>4. Converted("port", v, old) = ToPort(v, old)
  BY DEF Converted
<1>5. Converted("level", v, old) = n
  BY DEF Converted
<1>6. ASSUME FitsItsField("cpuThreads", v), old \in Nat, CastToInt(old) = old, n >= 0
      PROVE  CastToInt(n) \in Nat /\ CastToInt(CastToInt(n)) = CastToInt(n)
  <2>1. IntSpace \div 2 \in Nat /\ IntSpace \div 2 >= 2
    BY WidthsAssumption
  <2>2. n = old \/ n \in 0 .. IntSpace \div 2 - 1
    <3>1. n = old \/ n \in {0, 1} \/ (v.kind \in {"digits", "number"} /\ n = v.number)
      BY <1>1
    <3>2. v.kind \in {"digits", "number"} => v.number < IntSpace \div 2
      BY <1>6 DEF FitsItsField
    <3>. HIDE DEF n
    <3>. QED BY <1>1, <1>6, <2>1, <3>1, <3>2
  <2>. HIDE DEF n
  <2>3. n = old => CastToInt(n) = n
    BY <1>6
  <2>4. CastToInt(n) = n
    BY <1>1, <2>2, <2>3, CastOnce
  <2>. QED BY <1>1, <1>6, <2>4
<1>7. 0 \in 0 .. IntSpace \div 2 - 1 /\ 0 \in Int
  BY WidthsAssumption
<1>8. CastToInt(0) = 0
  BY <1>7, CastOnce
<1>9. old \in 1 .. Ports - 1 => ToPort(v, old) \in 1 .. Ports - 1
  BY <1>1, WidthsAssumption DEF ToPort
<1>. HIDE DEF n
<1>. QED BY <1>1, <1>2, <1>3, <1>4, <1>5, <1>6, <1>8, <1>9, CastOnce

(* Patches keep configurations what they are.                               *)
LEMMA PatchedIs ==
    ASSUME NEW config, ConfigInv(config), NEW patch,
           \A f \in DOMAIN patch : JsonValue(patch[f]) /\ FitsItsField(f, patch[f])
    PROVE  ConfigInv(ApplyPartialJson(config, patch))
<1>. DEFINE new == ApplyPartialJson(config, patch)
            Old(f) == config[f]
<1>1. new = [f \in Fields |-> IF f \in DOMAIN patch
                              THEN Converted(f, patch[f], config[f]) ELSE config[f]]
  BY DEF ApplyPartialJson, ConfigInv
<1>2. \A f \in Fields : new[f] = IF f \in DOMAIN patch
                                 THEN Converted(f, patch[f], config[f]) ELSE config[f]
  BY <1>1
<1>3. new = [f \in Fields |-> new[f]]
  BY <1>1
<1>. HIDE DEF new
<1>4. /\ config["device"] \in Int /\ CastToInt(config["device"]) = config["device"]
      /\ config["cpuThreads"] \in Nat /\ CastToInt(config["cpuThreads"]) = config["cpuThreads"]
      /\ config["port"] \in 1 .. Ports - 1 /\ config["port"] \in Int
      /\ config["level"] \in Int /\ config["cpuThreads"] \in Int
  BY DEF ConfigInv
<1>5. "device" \in Fields /\ "cpuThreads" \in Fields /\ "port" \in Fields /\ "level" \in Fields
  BY DEF Fields
<1>6. new["device"] \in Int /\ CastToInt(new["device"]) = new["device"]
  BY <1>2, <1>4, <1>5, ConvertedIs
<1>7. new["cpuThreads"] \in Nat /\ CastToInt(new["cpuThreads"]) = new["cpuThreads"]
  BY <1>2, <1>4, <1>5, ConvertedIs
<1>8. new["port"] \in 1 .. Ports - 1
  BY <1>2, <1>4, <1>5, ConvertedIs
<1>9. new["level"] \in Int
  BY <1>2, <1>4, <1>5, ConvertedIs
<1>. QED BY <1>3, <1>6, <1>7, <1>8, <1>9 DEF ConfigInv, new

(* What is written out is read back as the same.                            *)
LEMMA ReadsBack ==
    ASSUME NEW config, ConfigInv(config), NEW json, NEW f \in Fields,
           f \in DOMAIN ToJson(config) => f \in DOMAIN json /\ json[f] = ToJson(config)[f],
           f \notin DOMAIN ToJson(config) => f \notin DOMAIN json
    PROVE  ApplyPartialJson(config, json)[f] = config[f]
<1>. DEFINE new == ApplyPartialJson(config, json)
            J == ToJson(config)
<1>1. new[f] = IF f \in DOMAIN json THEN Converted(f, json[f], config[f]) ELSE config[f]
  BY DEF ApplyPartialJson, ConfigInv
<1>2. /\ DOMAIN J = {"device", "cpuThreads", "port", "level", "name", "passwordSet"}
      /\ J["device"] = Number(config["device"]) /\ J["cpuThreads"] = Number(config["cpuThreads"])
      /\ J["port"] = Number(config["port"]) /\ J["level"] = Number(config["level"])
      /\ J["name"] = Text(config["name"])
  BY DEF ToJson
<1>. HIDE DEF new, J
<1>3. \A n, old : AsInt(Number(n), old) = n
  BY DEF AsInt, Number
<1>4. CASE f = "device"
  BY <1>1, <1>2, <1>3, <1>4 DEF Converted, ConfigInv, new, J
<1>5. CASE f = "cpuThreads"
  <2>1. new[f] = IF config[f] < 0 THEN 0 ELSE CastToInt(config[f])
    BY <1>1, <1>2, <1>3, <1>5 DEF Converted, J
  <2>. QED BY <1>5, <2>1 DEF ConfigInv, new
<1>6. CASE f = "port"
  <2>1. new[f] = ToPort(Number(config[f]), config[f])
    BY <1>1, <1>2, <1>6 DEF Converted, J
  <2>. QED BY <1>3, <1>6, <2>1 DEF ConfigInv, new, ToPort
<1>7. CASE f = "level"
  BY <1>1, <1>2, <1>3, <1>7 DEF Converted, new, J
<1>8. CASE f = "name"
  <2>1. new[f] = AsString(Text(config[f]), config[f])
    BY <1>1, <1>2, <1>8 DEF Converted, J
  <2>. QED BY <2>1 DEF AsString, Text, new
<1>9. CASE f \in {"password", "root"}
  BY <1>1, <1>2, <1>9 DEF new, J
<1>. QED BY <1>4, <1>5, <1>6, <1>7, <1>8, <1>9 DEF Fields

(* One edited field changes that field alone.                               *)
LEMMA EditLocal ==
    ASSUME NEW patch, \A f \in DOMAIN patch : JsonValue(patch[f]) /\ FitsItsField(f, patch[f]),
           NEW field \in Fields, NEW value, JsonValue(value)
    PROVE  EditsOneField(patch, field, value)
<1>. DEFINE config == ApplyPartialJson(Defaults, patch)
            json   == ToJson(config)
            with   == WithField(json, field, value)
            edited == ApplyPartialJson(config, with)
<1>1. ConfigInv(Defaults)
  <2>1. Defaults = [f \in Fields |-> Defaults[f]]
    BY DEF Defaults, Fields
  <2>2. /\ Defaults["device"] = 0 /\ Defaults["cpuThreads"] = 1 /\ Defaults["port"] = 1
        /\ Defaults["level"] = 3
    BY DEF Defaults
  <2>3. 0 \in 0 .. IntSpace \div 2 - 1 /\ 1 \in 0 .. IntSpace \div 2 - 1 /\ 1 \in 1 .. Ports - 1
    BY WidthsAssumption
  <2>4. CastToInt(0) = 0 /\ CastToInt(1) = 1
    BY <2>3, CastOnce
  <2>. QED BY <2>1, <2>2, <2>3, <2>4 DEF ConfigInv
<1>2. ConfigInv(config)
  BY <1>1, PatchedIs
<1>3. DOMAIN config = Fields
  BY <1>2 DEF ConfigInv
<1>. HIDE DEF config
<1>4. \A f \in Fields : ApplyPartialJson(config, json)[f] = config[f]
  BY <1>2, ReadsBack
<1>5. ApplyPartialJson(config, json) = config
  <2>1. ApplyPartialJson(config, json) = [f \in Fields |-> ApplyPartialJson(config, json)[f]]
    BY <1>3 DEF ApplyPartialJson
  <2>2. config = [f \in Fields |-> config[f]]
    BY <1>2 DEF ConfigInv
  <2>. HIDE DEF json
  <2>. QED BY <1>4, <2>1, <2>2
<1>6. /\ DOMAIN with = DOMAIN json \cup {field}
      /\ \A f \in DOMAIN json \cup {field} : with[f] = IF f = field THEN value ELSE json[f]
  BY DEF WithField
<1>7. \A f \in Fields \ {field} : edited[f] = config[f]
  <2>. HIDE DEF with, json
  <2>1. ASSUME NEW f \in Fields \ {field} PROVE edited[f] = config[f]
    <3>1. f \in DOMAIN json => f \in DOMAIN with /\ with[f] = json[f]
      BY <1>6
    <3>2. f \notin DOMAIN json => f \notin DOMAIN with
      BY <1>6
    <3>. QED BY <1>2, <3>1, <3>2, ReadsBack DEF json
  <2>. QED BY <2>1
<1>8. edited["port"] \in 1 .. Ports - 1
  <2>1. config["port"] \in 1 .. Ports - 1 /\ config["port"] \in Int
    BY <1>2 DEF ConfigInv
  <2>2. CASE field = "port"
    <3>1. edited["port"] = Converted("port", value, config["port"])
      BY <1>3, <1>6, <2>2 DEF ApplyPartialJson
    <3>. QED BY <2>1, <3>1, ConvertedIs
  <2>3. CASE field # "port"
    <3>. HIDE DEF edited
    <3>. QED BY <1>7, <2>1, <2>3 DEF Fields
  <2>. QED BY <2>2, <2>3
<1>. HIDE DEF json, edited
<1>. QED BY <1>3, <1>5, <1>7, <1>8 DEF EditsOneField, config, json, edited

(* An edit of the configuration changes what it names and nothing else, for *)
(* every patch, every field and every value (core/config.cpp).              *)
THEOREM EditsCorrect == Spec => []EditsAreLocal
<1>1. InputInv => EditsAreLocal
  <2>. SUFFICES ASSUME InputInv, subject.kind = "patch"
                PROVE  EditsOneField(subject.patch, subject.edited, subject.to)
    BY DEF EditsAreLocal
  <2>1. DOMAIN Defaults = Fields
    BY DEF Defaults, Fields
  <2>2. /\ \A f \in DOMAIN subject.patch :
                JsonValue(subject.patch[f]) /\ FitsItsField(f, subject.patch[f])
        /\ subject.edited \in Fields /\ JsonValue(subject.to)
    BY <2>1 DEF InputInv, Allowed
  <2>. QED BY <2>2, EditLocal
<1>. QED BY <1>1, SubjectAllowed, PTL

-----------------------------------------------------------------------------
(* Work: the bytes of a counter decide the header.                          *)

(* The hashes as merkleRootFromBranch() accumulates them.                   *)
Accumulates(f, coinbase, branch) ==
    /\ f[0] = coinbase
    /\ \A n \in 1 .. Len(branch) : f[n] = Hash(f[n - 1], branch[n])
    /\ MerkleRootFromBranch(coinbase, branch) = f[Len(branch)]

LEMMA RootFromBranchIs ==
    ASSUME NEW coinbase, NEW branch, Len(branch) \in Nat
    PROVE  \E f : Accumulates(f, coinbase, branch)
<1>. DEFINE s0 == coinbase
            N == Len(branch)
            Step(n, last) == Hash(last, branch[n])
            Good(k, f) == f = [n \in 0 .. k |-> IF n = 0 THEN s0 ELSE Step(n, f[n - 1])]
            Has == {k \in Nat : \E f : Good(k, f)}
<1>0. N \in Nat
  OBVIOUS
<1>. HIDE DEF s0, N, Step
<1>1. 0 \in Has
  <2>1. Good(0, [n \in 0 .. 0 |-> s0])
    OBVIOUS
  <2>. QED BY <2>1
<1>2. ASSUME NEW k \in Has PROVE k + 1 \in Has
  <2>1. PICK f : Good(k, f)
    OBVIOUS
  <2>. DEFINE g == [n \in 0 .. k + 1 |-> IF n = k + 1 THEN Step(k + 1, f[k]) ELSE f[n]]
  <2>2. ASSUME NEW n \in 0 .. k + 1 PROVE g[n] = IF n = 0 THEN s0 ELSE Step(n, g[n - 1])
    <3>1. CASE n = 0
      <4>1. g[0] = f[0] /\ f[0] = s0
        BY <2>1
      <4>. QED BY <3>1, <4>1
    <3>2. CASE n \in 1 .. k
      <4>1. /\ n - 1 \in 0 .. k /\ n - 1 # k + 1 /\ n # k + 1 /\ n - 1 \in 0 .. k + 1
            /\ n \in 0 .. k /\ n # 0
        BY <3>2
      <4>2. g[n] = f[n] /\ g[n - 1] = f[n - 1]
        BY <4>1
      <4>3. f[n] = Step(n, f[n - 1])
        BY <2>1, <4>1
      <4>. QED BY <4>1, <4>2, <4>3
    <3>3. CASE n = k + 1
      <4>1. (k + 1) - 1 = k /\ k \in 0 .. k + 1 /\ k # k + 1 /\ k + 1 # 0 /\ k + 1 \in 0 .. k + 1
        OBVIOUS
      <4>2. g[k + 1] = Step(k + 1, f[k]) /\ g[k] = f[k]
        BY <4>1
      <4>. HIDE DEF g
      <4>. QED BY <3>3, <4>1, <4>2
    <3>. QED BY <3>1, <3>2, <3>3
  <2>3. Good(k + 1, g)
    <3>1. g = [n \in 0 .. k + 1 |-> g[n]]
      OBVIOUS
    <3>. HIDE DEF g
    <3>. QED BY <2>2, <3>1
  <2>. HIDE DEF Good, g
  <2>. QED BY <2>3
<1>3. Has = Nat
  <2>1. Has \in SUBSET Nat
    OBVIOUS
  <2>. HIDE DEF Has
  <2>. QED BY <1>1, <1>2, <2>1, Induction
<1>4. \E f : Good(N, f)
  BY <1>0, <1>3
<1>5. \E f : Good(N, f) /\ MerkleRootFromBranch(coinbase, branch) = f[Len(branch)]
  BY <1>4 DEF MerkleRootFromBranch, s0, N, Step
<1>6. PICK f : Good(N, f) /\ MerkleRootFromBranch(coinbase, branch) = f[Len(branch)]
  BY <1>5
<1>7. f[0] = s0 /\ \A n \in 1 .. N : f[n] = Step(n, f[n - 1])
  BY <1>0, <1>6
<1>8. Accumulates(f, coinbase, branch)
  BY <1>6, <1>7 DEF s0, N, Step, Accumulates
<1>. QED BY <1>8

(* Different coinbases have different roots, whatever the branch.           *)
LEMMA RootsDiffer ==
    ASSUME NEW c, NEW d, NEW branch, Len(branch) \in Nat
    PROVE  MerkleRootFromBranch(c, branch) = MerkleRootFromBranch(d, branch) <=> c = d
<1>1. PICK f : Accumulates(f, c, branch)
  BY RootFromBranchIs
<1>2. PICK g : Accumulates(g, d, branch)
  BY RootFromBranchIs
<1>. DEFINE Same == {k \in Nat : k <= Len(branch) => (f[k] = g[k] <=> c = d)}
<1>3. 0 \in Same
  BY <1>1, <1>2 DEF Accumulates
<1>4. ASSUME NEW k \in Same PROVE k + 1 \in Same
  <2>. SUFFICES ASSUME k + 1 <= Len(branch) PROVE f[k + 1] = g[k + 1] <=> c = d
    OBVIOUS
  <2>1. k + 1 \in 1 .. Len(branch) /\ (k + 1) - 1 = k /\ k <= Len(branch)
    OBVIOUS
  <2>2. f[k + 1] = <<f[k], branch[k + 1]>> /\ g[k + 1] = <<g[k], branch[k + 1]>>
    BY <1>1, <1>2, <2>1 DEF Hash, Accumulates
  <2>. QED BY <2>1, <2>2
<1>5. Same = Nat
  <2>1. Same \in SUBSET Nat
    OBVIOUS
  <2>. HIDE DEF Same
  <2>. QED BY <1>3, <1>4, <2>1, Induction
<1>. QED BY <1>1, <1>2, <1>5 DEF Accumulates

(* What differs in the middle differs.                                      *)
LEMMA MiddleDecides ==
    ASSUME NEW S, NEW p \in Seq(S), NEW q \in Seq(S), NEW s \in Seq(S), NEW t \in Seq(S)
    PROVE  p \o s \o q = p \o t \o q <=> s = t
<1>1. p \o s \in Seq(S) /\ p \o t \in Seq(S)
  BY ConcatProperties
<1>2. p \o s \o q = p \o t \o q => p \o s = p \o t
  BY <1>1, ConcatSimplifications
<1>3. p \o s = p \o t => s = t
  BY ConcatSimplifications
<1>. QED BY <1>2, <1>3

(* One more digit of a number.                                              *)
LEMMA RemainderGrows ==
    ASSUME NEW x \in Int, NEW p \in Nat \ {0}, NEW b \in Nat \ {0}
    PROVE  x % (p * b) = (x % p) + p * ((x \div p) % b)
<1>. DEFINE q == x \div p
            r == x % p
            s == q \div b
            t == q % b
            m == p * b
            u == r + p * t
<1>1. q \in Int /\ r \in 0 .. p - 1 /\ x = p * q + r
  BY DivMod
<1>. HIDE DEF q, r
<1>2. s \in Int /\ t \in 0 .. b - 1 /\ q = b * s + t
  BY <1>1, DivMod
<1>. HIDE DEF s, t
<1>3. m \in Nat \ {0} /\ u \in 0 .. m - 1
  <2>1. m \in Nat \ {0}
    OBVIOUS
  <2>2. u \in 0 .. p * b - 1
    BY <1>1, <1>2, DigitsIn
  <2>. QED BY <2>1, <2>2
<1>4. x = m * s + u
  <2>1. p * (b * s + t) = (p * b) * s + p * t
    BY <1>1, <1>2
  <2>2. (p * b) * s \in Int /\ p * t \in Int
    BY <1>1, <1>2
  <2>. QED BY <1>1, <1>2, <2>1, <2>2
<1>. HIDE DEF m, u
<1>5. (m * s + u) % m = u
  BY <1>2, <1>3, DivModIs
<1>. QED BY <1>4, <1>5 DEF m, u, q, r, t

(* The byte of a number at a place, from the least significant up.          *)
ByteAt(x, j) == (x \div Pow2[ByteBits * j]) % ByteBase

(* Numbers have the same remainder by 256^k exactly if their lowest k bytes *)
(* are the same.                                                            *)
LEMMA BytesDecide ==
    ASSUME NEW a \in Nat, NEW b \in Nat, NEW k \in Nat
    PROVE  (a % Pow2[ByteBits * k]) = (b % Pow2[ByteBits * k])
             <=> \A j \in 0 .. k - 1 : ByteAt(a, j) = ByteAt(b, j)
<1>. DEFINE P(n) == Pow2[ByteBits * n]
            Equal(n) == \A j \in 0 .. n - 1 : ByteAt(a, j) = ByteAt(b, j)
            Right == {n \in Nat : (a % P(n)) = (b % P(n)) <=> Equal(n)}
<1>1. 0 \in Right
  <2>1. P(0) = 1
    <3>1. 0 \in Nat
      OBVIOUS
    <3>. QED BY <3>1, BytePowers
  <2>2. (a % 1) = (b % 1) /\ Equal(0)
    OBVIOUS
  <2>. QED BY <2>1, <2>2
<1>2. ASSUME NEW n \in Right PROVE n + 1 \in Right
  <2>. DEFINE p == P(n)
              c == ByteBase
  <2>1. n \in Nat /\ p \in Nat \ {0} /\ c \in Nat \ {0} /\ P(n + 1) = p * c
    <3>1. n \in Nat /\ 1 \in Nat
      OBVIOUS
    <3>. HIDE DEF Right
    <3>2. Pow2[ByteBits * (n + 1)] = Pow2[ByteBits * n] * Pow2[ByteBits * 1]
      BY <3>1, BytePowers
    <3>3. Pow2[ByteBits * 1] = ByteBase /\ Pow2[ByteBits * n] \in Nat \ {0}
      BY <3>1, BytePowers
    <3>. QED BY <3>1, <3>2, <3>3, SignBitIs
  <2>2. (a % p) = (b % p) <=> Equal(n)
    OBVIOUS
  <2>3. Equal(n + 1) <=> Equal(n) /\ ByteAt(a, n) = ByteAt(b, n)
    <3>1. \A j \in 0 .. (n + 1) - 1 : j \in 0 .. n - 1 \/ j = n
      BY <2>1
    <3>2. n \in 0 .. (n + 1) - 1 /\ \A j \in 0 .. n - 1 : j \in 0 .. (n + 1) - 1
      BY <2>1
    <3>. QED BY <3>1, <3>2
  <2>4. ByteAt(a, n) = (a \div p) % c /\ ByteAt(b, n) = (b \div p) % c
    BY DEF ByteAt
  <2>. HIDE DEF p, c, Equal, Right
  <2>5. /\ a % (p * c) = (a % p) + p * ((a \div p) % c)
        /\ b % (p * c) = (b % p) + p * ((b \div p) % c)
    <3>1. a \in Int /\ b \in Int
      OBVIOUS
    <3>. QED BY <2>1, <3>1, RemainderGrows
  <2>. DEFINE u == a % p
              v == b % p
              x == (a \div p) % c
              y == (b \div p) % c
  <2>6. /\ u \in 0 .. p - 1 /\ v \in 0 .. p - 1 /\ x \in Int /\ y \in Int
    <3>0. a \in Int /\ b \in Int
      OBVIOUS
    <3>1. u \in 0 .. p - 1 /\ v \in 0 .. p - 1 /\ a \div p \in Int /\ b \div p \in Int
      BY <2>1, <3>0, DivMod
    <3>2. x \in 0 .. c - 1 /\ y \in 0 .. c - 1
      BY <2>1, <3>1, DivMod
    <3>. QED BY <3>1, <3>2
  <2>. HIDE DEF u, v, x, y
  <2>7. u + p * x = v + p * y <=> x = y /\ u = v
    BY <2>1, <2>6, DigitsOrder
  <2>8. a % P(n + 1) = u + p * x /\ b % P(n + 1) = v + p * y
    BY <2>1, <2>5 DEF u, v, x, y
  <2>9. (a % P(n + 1)) = (b % P(n + 1)) <=> Equal(n + 1)
    <3>. HIDE DEF P
    <3>. QED BY <2>2, <2>3, <2>4, <2>7, <2>8 DEF u, v, x, y
  <2>. QED BY <2>1, <2>9 DEF Right
<1>3. Right = Nat
  <2>1. Right \in SUBSET Nat
    OBVIOUS
  <2>. HIDE DEF Right
  <2>. QED BY <1>1, <1>2, <2>1, Induction
<1>. QED BY <1>3

(* Counters give the same extranonce2 exactly if they are the same as far   *)
(* as it and the counter are long.                                          *)
LEMMA ExtranoncesDecide ==
    ASSUME NEW a \in Nat, NEW b \in Nat, NEW size \in Nat
    PROVE  LET period == Pow2[ByteBits * Min({size, CounterBytes})]
           IN  EncodeExtranonce2(a, size) = EncodeExtranonce2(b, size)
                 <=> (a % period) = (b % period)
<1>. DEFINE k == Min({size, CounterBytes})
            x == EncodeExtranonce2(a, size)
            y == EncodeExtranonce2(b, size)
<1>1. CounterBytes \in Nat
  BY CounterAssumption
<1>2. k \in {size, CounterBytes} /\ k <= size /\ k <= CounterBytes
  <2>1. \E m \in {size, CounterBytes} : \A n \in {size, CounterBytes} : m <= n
    BY <1>1
  <2>2. k \in {size, CounterBytes} /\ \A n \in {size, CounterBytes} : k <= n
    BY <2>1 DEF Min
  <2>. QED BY <2>2
<1>3. k \in Nat
  BY <1>1, <1>2
<1>. HIDE DEF k
<1>4. /\ x = [i \in 1 .. size |-> IF size - i < CounterBytes THEN ByteAt(a, size - i) ELSE 0]
      /\ y = [i \in 1 .. size |-> IF size - i < CounterBytes THEN ByteAt(b, size - i) ELSE 0]
  BY DEF EncodeExtranonce2, ByteAt
<1>. HIDE DEF x, y
<1>5. x = y <=> \A j \in 0 .. k - 1 : ByteAt(a, j) = ByteAt(b, j)
  <2>1. ASSUME x = y, NEW j \in 0 .. k - 1 PROVE ByteAt(a, j) = ByteAt(b, j)
    <3>1. size - j \in 1 .. size /\ size - (size - j) = j /\ j < CounterBytes
      BY <1>1, <1>2, <1>3
    <3>2. x[size - j] = ByteAt(a, j) /\ y[size - j] = ByteAt(b, j)
      BY <1>4, <3>1
    <3>. QED BY <2>1, <3>2
  <2>2. ASSUME \A j \in 0 .. k - 1 : ByteAt(a, j) = ByteAt(b, j) PROVE x = y
    <3>1. ASSUME NEW i \in 1 .. size, size - i < CounterBytes
          PROVE  ByteAt(a, size - i) = ByteAt(b, size - i)
      <4>1. size - i \in 0 .. k - 1
        BY <1>1, <1>2, <1>3, <3>1
      <4>. QED BY <2>2, <4>1
    <3>. QED BY <1>4, <3>1
  <2>. QED BY <2>1, <2>2
<1>6. (a % Pow2[ByteBits * k]) = (b % Pow2[ByteBits * k])
        <=> \A j \in 0 .. k - 1 : ByteAt(a, j) = ByteAt(b, j)
  BY <1>3, BytesDecide
<1>. QED BY <1>5, <1>6 DEF k, x, y

(* A byte is a byte, and so is every one of an extranonce2.                 *)
LEMMA ExtranonceIs ==
    ASSUME NEW a \in Nat, NEW size \in Nat
    PROVE  EncodeExtranonce2(a, size) \in Seq(Bytes) /\ Len(EncodeExtranonce2(a, size)) = size
<1>1. CounterBytes \in Nat /\ ByteBase \in Nat \ {0} /\ 0 \in Bytes
  BY CounterAssumption, SignBitIs DEF Bytes
<1>2. ASSUME NEW i \in 1 .. size
      PROVE  (a \div Pow2[ByteBits * (size - i)]) % ByteBase \in Bytes
  <2>1. size - i \in Nat
    OBVIOUS
  <2>2. Pow2[ByteBits * (size - i)] \in Nat \ {0}
    BY <2>1, BytePowers
  <2>3. a \div Pow2[ByteBits * (size - i)] \in Int
    <3>1. a \in Int
      OBVIOUS
    <3>. QED BY <2>2, <3>1, DivMod
  <2>. QED BY <1>1, <2>3, DivMod DEF Bytes
<1>3. EncodeExtranonce2(a, size) \in [1 .. size -> Bytes]
  BY <1>1, <1>2 DEF EncodeExtranonce2
<1>. QED BY <1>3

(* Every target of a job is a number, and the network's decides validity.   *)
LEMMA TargetsOfJobs ==
    ASSUME NEW job \in Jobs
    PROVE  /\ NetworkTarget(job) \in UInts /\ ShareTarget(job) \in UInts
           /\ ~Accepted(job.nBits) => IsZero(NetworkTarget(job))
           /\ ~IsZero(NetworkTarget(job)) => ~IsZero(ShareTarget(job))
           /\ job.difficulty = 0 => ShareTarget(job) = NetworkTarget(job)
<1>. DEFINE d == job.difficulty
            T == TargetFromShareDifficulty(d)
<1>1. job.nBits.word \in Word /\ job.nBits.exponent \in Nat /\ d \in 0 .. Unit * LimbBase - 2
  BY DEF Jobs
<1>2. NetworkTarget(job) \in UInts
  <2>. DEFINE nBits == job.nBits
  <2>1. nBits.word \in Word /\ nBits.exponent \in Nat
    BY <1>1
  <2>. HIDE DEF nBits
  <2>. QED BY <2>1, DecodesExact DEF NetworkTarget, nBits
<1>3. ~Accepted(job.nBits) => IsZero(NetworkTarget(job))
  BY ZeroIs DEF NetworkTarget, DecodeCompactBits
<1>4. d = 0 => T = Zero
  BY DEF TargetFromShareDifficulty
<1>5. T \in UInts
  <2>1. CASE d = 0
    BY <1>4, <2>1, ZeroIs
  <2>2. CASE d # 0
    <3>1. \A n \in Int : \A e \in 0 .. n - 2 : e # 0 => e \in 1 .. n - 1
      OBVIOUS
    <3>2. Unit * LimbBase \in Int
      BY NumeratorsAre, LimbBaseIs
    <3>3. d \in 1 .. Unit * LimbBase - 1
      BY <1>1, <2>2, <3>1, <3>2
    <3>. HIDE DEF d
    <3>. QED BY <3>3, ShareTargetIs
  <2>. QED BY <2>1, <2>2
<1>6. ShareTarget(job) = IF IsZero(T) THEN NetworkTarget(job) ELSE T
  BY DEF ShareTarget
<1>. HIDE DEF T, d
<1>. QED BY <1>2, <1>3, <1>4, <1>5, <1>6, ZeroIs DEF d

(* Work differs exactly as far as its extranonce2 does, and is workable.    *)
LEMMA WorkSound ==
    ASSUME NEW job \in Jobs, NEW a \in Nat, NEW b \in Nat
    PROVE  WorkIsSound(job, a, b)
<1>. DEFINE size   == job.extranonce2Size
            first  == BuildWork(job, a)
            second == BuildWork(job, b)
            x == EncodeExtranonce2(a, size)
            y == EncodeExtranonce2(b, size)
            period == Pow2[ByteBits * Min({size, CounterBytes})]
            Root(e) == MerkleRootFromBranch(BuildCoinbase(job, e), job.branch)
            net == NetworkTarget(job)
            share == ShareTarget(job)
<1>1. /\ size \in Nat /\ job.coinbase1 \in Seq(Bytes) /\ job.extranonce1 \in Seq(Bytes)
      /\ job.coinbase2 \in Seq(Bytes) /\ job.branch \in Seq(STRING)
  BY DEF Jobs
<1>2. /\ x \in Seq(Bytes) /\ Len(x) = size /\ y \in Seq(Bytes) /\ Len(y) = size
  <2>. HIDE DEF size
  <2>. QED BY <1>1, ExtranonceIs
<1>3. /\ net \in UInts /\ share \in UInts /\ (~Accepted(job.nBits) => IsZero(net))
      /\ (~IsZero(net) => ~IsZero(share)) /\ (job.difficulty = 0 => share = net)
  BY TargetsOfJobs
<1>4. x = y <=> (a % period) = (b % period)
  <2>. HIDE DEF size
  <2>. QED BY <1>1, ExtranoncesDecide
<1>5. Root(x) = Root(y) <=> x = y
  <2>1. BuildCoinbase(job, x) = BuildCoinbase(job, y) <=> x = y
    <3>. DEFINE p == job.coinbase1 \o job.extranonce1
                q == job.coinbase2
    <3>1. p \in Seq(Bytes) /\ q \in Seq(Bytes)
      BY <1>1, ConcatProperties
    <3>2. BuildCoinbase(job, x) = p \o x \o q /\ BuildCoinbase(job, y) = p \o y \o q
      BY DEF BuildCoinbase
    <3>. HIDE DEF p, q, x, y
    <3>3. p \o x \in Seq(Bytes) /\ p \o y \in Seq(Bytes)
      BY <1>2, <3>1, ConcatProperties
    <3>4. p \o x \o q = p \o y \o q => p \o x = p \o y
      BY <3>1, <3>3, ConcatSimplifications
    <3>5. p \o x = p \o y => x = y
      BY <1>2, <3>1, ConcatSimplifications
    <3>. QED BY <3>2, <3>4, <3>5
  <2>2. Len(job.branch) \in Nat
    BY <1>1, LenProperties
  <2>. HIDE DEF x, y
  <2>3. Root(x) = Root(y) <=> BuildCoinbase(job, x) = BuildCoinbase(job, y)
    BY <2>2, RootsDiffer
  <2>. QED BY <2>1, <2>3
<1>. HIDE DEF x, y, net, share, Root
<1>6. CASE ValidJob(job)
  <2>1. /\ first = [valid |-> ~IsZero(net), extranonce2 |-> x, merkleRoot |-> Root(x),
                    shareTarget |-> share, networkTarget |-> net]
        /\ second = [valid |-> ~IsZero(net), extranonce2 |-> y, merkleRoot |-> Root(y),
                     shareTarget |-> share, networkTarget |-> net]
    BY <1>2, <1>6 DEF BuildWork, BuildWorkWithExtranonce2, x, y, net, share, Root
  <2>. HIDE DEF first, second
  <2>2. /\ first.valid <=> ~IsZero(net)
        /\ first.merkleRoot = Root(x) /\ second.merkleRoot = Root(y)
        /\ first.shareTarget = share /\ first.networkTarget = net
    BY <2>1
  <2>3. ~IsZero(net) => HashMeetsTarget(Zero, share)
    <3>1. Zero \in UInts /\ Value(Zero) = 0 /\ Value(share) >= 0
      BY <1>3, ZeroIs, ValueIn
    <3>2. AtMost(Zero, share)
      BY <1>3, <3>1, LessIs
    <3>. QED BY <1>3, <3>2 DEF HashMeetsTarget
  <2>4. first.merkleRoot = second.merkleRoot <=> (a % period) = (b % period)
    BY <1>4, <1>5, <2>2
  <2>. QED BY <1>3, <1>6, <2>2, <2>3, <2>4 DEF WorkIsSound, first, second, net
<1>7. CASE ~ValidJob(job)
  <2>1. first = NoWork
    BY <1>7 DEF BuildWork, BuildWorkWithExtranonce2
  <2>2. ~first.valid
    BY <2>1 DEF NoWork
  <2>. QED BY <1>7, <2>2 DEF WorkIsSound, first
<1>. QED BY <1>6, <1>7

(* Work repeats exactly when the counter has gone through all the extranonce2 *)
(* there are, and is valid only if some hash can meet its target, for every *)
(* job and every two counters (mining/work.cpp).                            *)
THEOREM WorkCorrect == Spec => []WorkIsDistinct
<1>1. InputInv => WorkIsDistinct
  <2>. SUFFICES ASSUME InputInv, subject.kind = "work"
                PROVE  WorkIsSound(subject.job, subject.a, subject.b)
    BY DEF WorkIsDistinct
  <2>1. subject.job \in Jobs /\ subject.a \in Counters /\ subject.b \in Counters
    BY DEF InputInv, Allowed
  <2>2. Counters \subseteq Nat
    BY DEF Counters
  <2>. QED BY <2>1, <2>2, WorkSound
<1>. QED BY <1>1, SubjectAllowed, PTL

-----------------------------------------------------------------------------
(* The bytes of a share.                                                    *)

(* A hexadecimal digit has half the bits of a byte.                         *)
LEMMA HexBaseIs == HexBase \in Nat \ {0} /\ HexBase * HexBase = ByteBase
<1>. DEFINE h == ByteBits \div 2
<1>1. ByteBits \in Nat /\ ByteBits % 2 = 0
  BY ParametersAre, WireAssumption
<1>2. h \in Nat /\ h + h = ByteBits
  BY <1>1
<1>. HIDE DEF h
<1>3. Pow2[h] \in Nat \ {0} /\ Pow2[h + h] = Pow2[h] * Pow2[h]
  BY <1>2, Pow2Positive, Pow2Sum
<1>. QED BY <1>2, <1>3 DEF HexBase, ByteBase, h

(* Bytes are read back from their digits.                                   *)
LEMMA HexRoundTrips ==
    ASSUME NEW bytes \in Seq(Bytes)
    PROVE  /\ FromHex(ToHex(bytes)) = bytes
           /\ IsHexOf(ToHex(bytes), Len(bytes))
<1>. DEFINE hex == ToHex(bytes)
            n == Len(bytes)
            b == HexBase
<1>1. n \in Nat /\ b \in Nat \ {0} /\ b * b = ByteBase
  BY HexBaseIs, LenProperties
<1>2. ASSUME NEW i \in 1 .. n
      PROVE  /\ bytes[i] \in Int /\ bytes[i] \div b \in 0 .. b - 1 /\ bytes[i] % b \in 0 .. b - 1
             /\ b * (bytes[i] \div b) + (bytes[i] % b) = bytes[i]
  <2>. DEFINE x == bytes[i]
              q == x \div b
              r == x % b
  <2>1. x \in 0 .. b * b - 1
    BY <1>1, ElementOfSeq DEF Bytes
  <2>. HIDE DEF x, b
  <2>2. q \in Int /\ r \in 0 .. b - 1 /\ x = b * q + r
    <3>1. x \in Int
      BY <1>1, <2>1
    <3>. QED BY <1>1, <3>1, DivMod
  <2>. HIDE DEF q, r
  <2>3. q < b
    <3>1. q >= b => b * q >= b * b
      BY <1>1, <2>2
    <3>2. b * q \in Int /\ b * b \in Int
      BY <1>1, <2>2
    <3>. QED BY <1>1, <2>1, <2>2, <3>1, <3>2
  <2>4. q >= 0
    <3>1. q < 0 => b * q <= -b
      BY <1>1, <2>2
    <3>2. b * q \in Int
      BY <1>1, <2>2
    <3>. QED BY <1>1, <2>1, <2>2, <3>1, <3>2
  <2>5. b * q + r = x
    BY <2>2
  <2>6. x \in Int /\ q \in 0 .. b - 1 /\ r \in 0 .. b - 1
    BY <1>1, <2>1, <2>2, <2>3, <2>4
  <2>. QED BY <2>5, <2>6 DEF x, q, r, b
<1>. HIDE DEF n, b
<1>3. hex = [k \in 1 .. 2 * n |-> LET byte == bytes[(k + 1) \div 2]
                                  IN  IF k % 2 = 1 THEN byte \div b ELSE byte % b]
  BY DEF ToHex, n, b
<1>4. ASSUME NEW i \in 1 .. n
      PROVE  /\ 2 * i - 1 \in 1 .. 2 * n /\ 2 * i \in 1 .. 2 * n
             /\ hex[2 * i - 1] = bytes[i] \div b /\ hex[2 * i] = bytes[i] % b
  <2>1. /\ 2 * i - 1 \in 1 .. 2 * n /\ 2 * i \in 1 .. 2 * n
        /\ ((2 * i - 1) + 1) \div 2 = i /\ (2 * i + 1) \div 2 = i
        /\ (2 * i - 1) % 2 = 1 /\ (2 * i) % 2 = 0
    BY <1>1
  <2>. HIDE DEF hex
  <2>. QED BY <1>3, <2>1
<1>5. Len(hex) = 2 * n /\ (2 * n) % 2 = 0 /\ (2 * n) \div 2 = n
  BY <1>1, <1>3
<1>. HIDE DEF hex
<1>6. ASSUME NEW k \in 1 .. 2 * n PROVE hex[k] < b
  <2>1. PICK i \in 1 .. n : k = 2 * i - 1 \/ k = 2 * i
    <3>1. (k + 1) \div 2 \in 1 .. n /\ (k = 2 * ((k + 1) \div 2) - 1 \/ k = 2 * ((k + 1) \div 2))
      BY <1>1
    <3>. QED BY <3>1
  <2>2. hex[k] = bytes[i] \div b \/ hex[k] = bytes[i] % b
    <3>1. CASE k = 2 * i - 1
      BY <1>4, <3>1
    <3>2. CASE k = 2 * i
      BY <1>4, <3>2
    <3>. QED BY <2>1, <3>1, <3>2
  <2>3. \A x \in 0 .. b - 1 : x < b
    BY <1>1
  <2>. QED BY <1>2, <2>2, <2>3
<1>7. IsHexOf(hex, n)
  <2>1. DOMAIN hex = 1 .. 2 * n
    BY <1>3
  <2>. QED BY <1>5, <1>6, <2>1 DEF IsHexOf, IsHex, b
<1>8. FromHex(hex) = bytes
  <2>1. FromHex(hex) = [i \in 1 .. n |-> b * hex[2 * i - 1] + hex[2 * i]]
    BY <1>5 DEF FromHex, b
  <2>2. \A i \in 1 .. n : b * hex[2 * i - 1] + hex[2 * i] = bytes[i]
    BY <1>2, <1>4
  <2>3. bytes = [i \in 1 .. n |-> bytes[i]]
    BY DEF n
  <2>. QED BY <2>1, <2>2, <2>3
<1>. QED BY <1>7, <1>8 DEF hex, n

(* Turning bytes round twice gives them back.                               *)
LEMMA ReverseTwice ==
    ASSUME NEW S, NEW s \in Seq(S)
    PROVE  Reverse(s) \in Seq(S) /\ Len(Reverse(s)) = Len(s) /\ Reverse(Reverse(s)) = s
<1>. DEFINE n == Len(s)
            r == Reverse(s)
<1>1. n \in Nat /\ s \in [1 .. n -> S]
  OBVIOUS
<1>. HIDE DEF n
<1>2. r = [i \in 1 .. n |-> s[(n - i) + 1]]
  BY DEF Reverse, n
<1>. HIDE DEF r
<1>3. r \in [1 .. n -> S] /\ Len(r) = n
  BY <1>1, <1>2
<1>4. Reverse(r) = s
  <2>1. Reverse(r) = [i \in 1 .. n |-> r[(n - i) + 1]]
    BY <1>3 DEF Reverse
  <2>2. \A i \in 1 .. n : r[(n - i) + 1] = s[i]
    BY <1>1, <1>2
  <2>. QED BY <1>1, <2>1, <2>2
<1>5. r \in Seq(S)
  BY <1>1, <1>3
<1>. QED BY <1>3, <1>4, <1>5 DEF r, n

(* The numbers that parseBigEndianHex32() runs through.                     *)
LEMMA ParsedIs ==
    ASSUME NEW bytes \in Seq(Bytes)
    PROVE  \E f \in [0 .. Len(bytes) -> Nat] :
              /\ f[0] = 0
              /\ \A n \in 1 .. Len(bytes) : f[n] = ByteBase * f[n - 1] + bytes[n]
              /\ ParseBigEndianHex32(ToHex(bytes)) = f[Len(bytes)]
<1>. DEFINE N == Len(bytes)
            G == [p \in Nat \X Nat |-> IF p[1] < N THEN ByteBase * p[2] + bytes[p[1] + 1] ELSE 0]
<1>1. N \in Nat /\ ByteBase \in Nat
  BY SignBitIs, LenProperties
<1>2. \A n \in 1 .. N : bytes[n] \in Nat
  BY <1>1, ElementOfSeq DEF Bytes
<1>. HIDE DEF N
<1>3. G \in [Nat \X Nat -> Nat]
  <2>1. ASSUME NEW p \in Nat \X Nat, p[1] < N PROVE ByteBase * p[2] + bytes[p[1] + 1] \in Nat
    <3>1. p[1] + 1 \in 1 .. N /\ p[2] \in Nat
      BY <1>1, <2>1
    <3>2. bytes[p[1] + 1] \in Nat
      BY <1>2, <3>1
    <3>. DEFINE a == p[2]
                b == bytes[p[1] + 1]
    <3>3. a \in Nat /\ b \in Nat
      BY <3>1, <3>2
    <3>. HIDE DEF a, b
    <3>4. ByteBase * a + b \in Nat
      BY <1>1, <3>3
    <3>. QED BY <3>4 DEF a, b
  <2>. QED BY <2>1
<1>4. PICK f \in [0 .. N -> Nat] : Follows(f, N, 0, G)
  <2>1. 0 \in Nat
    OBVIOUS
  <2>. HIDE DEF G
  <2>. QED BY <1>1, <1>3, <2>1, RecursionUpTo
<1>5. f[0] = 0 /\ \A n \in 1 .. N : f[n] = ByteBase * f[n - 1] + bytes[n]
  <2>1. f[0] = 0
    BY <1>4 DEF Follows
  <2>2. ASSUME NEW n \in 1 .. N PROVE f[n] = ByteBase * f[n - 1] + bytes[n]
    <3>1. n - 1 \in 0 .. N - 1 /\ (n - 1) + 1 = n /\ n - 1 < N /\ n - 1 \in 0 .. N /\ n - 1 \in Nat
      BY <1>1
    <3>2. f[n] = G[<<n - 1, f[n - 1]>>]
      BY <1>4, <3>1 DEF Follows
    <3>3. f[n - 1] \in Nat
      BY <3>1
    <3>4. G[<<n - 1, f[n - 1]>>] = ByteBase * f[n - 1] + bytes[(n - 1) + 1]
      BY <3>1, <3>3
    <3>. HIDE DEF G
    <3>. QED BY <3>1, <3>2, <3>4
  <2>. QED BY <2>1, <2>2
<1>6. f = [n \in 0 .. N |-> IF n = 0 THEN 0 ELSE ByteBase * f[n - 1] + bytes[n]]
  <2>1. \A n \in 0 .. N : f[n] = IF n = 0 THEN 0 ELSE ByteBase * f[n - 1] + bytes[n]
    BY <1>1, <1>5
  <2>. QED BY <2>1
<1>. HIDE DEF G
<1>7. FromHex(ToHex(bytes)) = bytes
  BY HexRoundTrips
<1>. DEFINE Good(g) == g = [n \in 0 .. N |-> IF n = 0 THEN 0 ELSE ByteBase * g[n - 1] + bytes[n]]
            w == CHOOSE g : Good(g)
<1>8. Good(w) /\ ParseBigEndianHex32(ToHex(bytes)) = w[N]
  <2>1. Good(w)
    BY <1>6
  <2>2. ParseBigEndianHex32(ToHex(bytes)) = w[N]
    BY <1>7 DEF ParseBigEndianHex32, N
  <2>. QED BY <2>1, <2>2
<1>. HIDE DEF w
<1>9. /\ w \in [0 .. N -> Nat] /\ w[0] = 0
      /\ \A n \in 1 .. N : w[n] = ByteBase * w[n - 1] + bytes[n]
  <2>1. w[0] = 0 /\ \A n \in 1 .. N : w[n] = ByteBase * w[n - 1] + bytes[n]
    BY <1>1, <1>8
  <2>. DEFINE Typed == {n \in Nat : n <= N => w[n] \in Nat}
  <2>2. 0 \in Typed
    BY <2>1
  <2>3. ASSUME NEW n \in Typed PROVE n + 1 \in Typed
    <3>. SUFFICES ASSUME n + 1 <= N PROVE w[n + 1] \in Nat
      OBVIOUS
    <3>1. n + 1 \in 1 .. N /\ (n + 1) - 1 = n /\ w[n] \in Nat
      BY <1>1
    <3>2. bytes[n + 1] \in Nat
      BY <1>2, <3>1
    <3>3. w[n + 1] = ByteBase * w[n] + bytes[n + 1]
      BY <2>1, <3>1
    <3>4. \A x, y \in Nat : ByteBase * x + y \in Nat
      BY <1>1
    <3>. QED BY <3>1, <3>2, <3>3, <3>4
  <2>4. Typed = Nat
    <3>1. Typed \in SUBSET Nat
      OBVIOUS
    <3>. HIDE DEF Typed
    <3>. QED BY <2>2, <2>3, <3>1, Induction
  <2>5. \A n \in 0 .. N : w[n] \in Nat
    BY <1>1, <2>4
  <2>6. w = [n \in 0 .. N |-> w[n]]
    BY <1>8
  <2>. QED BY <2>1, <2>5, <2>6
<1>. QED BY <1>8, <1>9 DEF N

(* Any WordBytes bytes make a word that is written as these bytes.          *)
LEMMA WordRoundTrips ==
    ASSUME NEW bytes \in Seq(Bytes), Len(bytes) = WordBytes
    PROVE  /\ BigEndian(ParseBigEndianHex32(ToHex(bytes))) = bytes
           /\ WriteLE32(ParseBigEndianHex32(ToHex(bytes))) = Reverse(bytes)
<1>1. PICK f \in [0 .. Len(bytes) -> Nat] :
           /\ f[0] = 0
           /\ \A n \in 1 .. Len(bytes) : f[n] = ByteBase * f[n - 1] + bytes[n]
           /\ ParseBigEndianHex32(ToHex(bytes)) = f[Len(bytes)]
  BY ParsedIs
<1>. DEFINE N == WordBytes
            c == ByteBase
            P(k) == Pow2[ByteBits * k]
            word == ParseBigEndianHex32(ToHex(bytes))
<1>2. N \in Nat \ {0} /\ c \in Nat \ {0} /\ word = f[N] /\ f \in [0 .. N -> Nat]
  BY <1>1, WireAssumption, SignBitIs
<1>3. \A n \in 1 .. N : f[n] = c * f[n - 1] + bytes[n] /\ bytes[n] \in 0 .. c - 1
  BY <1>1, ElementOfSeq DEF Bytes
<1>4. /\ P(0) = 1 /\ \A k \in Nat : P(k) \in Nat \ {0} /\ P(k + 1) = P(k) * c
  <2>1. 0 \in Nat /\ 1 \in Nat
    OBVIOUS
  <2>2. P(0) = 1 /\ P(1) = c /\ \A k \in Nat : P(k) \in Nat \ {0}
    BY <2>1, BytePowers
  <2>3. \A k \in Nat : P(k + 1) = P(k) * P(1)
    BY <2>1, BytePowers
  <2>. HIDE DEF P, c
  <2>. QED BY <2>2, <2>3
<1>. HIDE DEF N, c, P, word
<1>. DEFINE Right == {k \in Nat : k <= N => word \div P(k) = f[N - k]}
<1>5. 0 \in Right
  <2>1. word \in Int /\ N - 0 = N
    BY <1>2
  <2>2. word \div 1 = word
    BY <2>1
  <2>. QED BY <1>2, <1>4, <2>1, <2>2
<1>6. ASSUME NEW k \in Right PROVE k + 1 \in Right
  <2>. SUFFICES ASSUME k + 1 <= N PROVE word \div P(k + 1) = f[N - (k + 1)]
    OBVIOUS
  <2>1. /\ k \in Nat /\ k <= N /\ N - k \in 1 .. N
        /\ (N - k) - 1 = N - (k + 1) /\ N - (k + 1) \in 0 .. N
    BY <1>2
  <2>2. word \div P(k) = f[N - k]
    BY <2>1
  <2>3. word \in Int /\ P(k) \in Nat \ {0} /\ P(k + 1) = P(k) * c
    BY <1>2, <1>4, <2>1
  <2>. DEFINE p == P(k)
              q == f[N - (k + 1)]
              b == bytes[N - k]
  <2>4. f[N - k] = c * q + b /\ b \in 0 .. c - 1 /\ q \in Int
    <3>1. f[N - k] = c * f[(N - k) - 1] + bytes[N - k] /\ bytes[N - k] \in 0 .. c - 1
      BY <1>3, <2>1
    <3>2. f[N - (k + 1)] \in Int
      BY <1>2, <2>1
    <3>. QED BY <2>1, <3>1, <3>2
  <2>. HIDE DEF p, q, b
  <2>5. word \div (p * c) = (word \div p) \div c
    BY <1>2, <2>3, DivDiv DEF p
  <2>6. (c * q + b) \div c = q
    BY <1>2, <2>4, DivModIs
  <2>. QED BY <2>2, <2>3, <2>4, <2>5, <2>6 DEF p, q
<1>7. Right = Nat
  <2>1. Right \in SUBSET Nat
    OBVIOUS
  <2>. HIDE DEF Right
  <2>. QED BY <1>5, <1>6, <2>1, Induction
<1>8. ASSUME NEW i \in 1 .. N PROVE (word \div P(N - i)) % c = bytes[i]
  <2>1. N - i \in Nat /\ N - i <= N /\ N - (N - i) = i /\ i - 1 \in 0 .. N
    BY <1>2
  <2>2. word \div P(N - i) = f[i]
    BY <1>7, <2>1
  <2>3. f[i] = c * f[i - 1] + bytes[i] /\ bytes[i] \in 0 .. c - 1 /\ f[i - 1] \in Int
    <3>1. f[i] = c * f[i - 1] + bytes[i] /\ bytes[i] \in 0 .. c - 1
      BY <1>3
    <3>2. f[i - 1] \in Nat
      BY <1>2, <2>1
    <3>. QED BY <3>1, <3>2
  <2>4. (c * f[i - 1] + bytes[i]) % c = bytes[i]
    BY <1>2, <2>3, DivModIs
  <2>. QED BY <2>2, <2>3, <2>4
<1>9. BigEndian(word) = [i \in 1 .. N |-> (word \div P(N - i)) % c]
  BY DEF BigEndian, N, P, c
<1>10. bytes = [i \in 1 .. N |-> bytes[i]]
  BY DEF N
<1>11. BigEndian(word) = bytes
  BY <1>8, <1>9, <1>10
<1>. QED BY <1>11 DEF WriteLE32, word

(* A word is written in WordBytes bytes.                                    *)
LEMMA BigEndianIs ==
    ASSUME NEW word \in Int
    PROVE  BigEndian(word) \in Seq(Bytes) /\ Len(BigEndian(word)) = WordBytes
<1>1. WordBytes \in Nat /\ ByteBase \in Nat \ {0}
  BY WireAssumption, SignBitIs
<1>2. ASSUME NEW i \in 1 .. WordBytes
      PROVE  (word \div Pow2[ByteBits * (WordBytes - i)]) % ByteBase \in Bytes
  <2>1. WordBytes - i \in Nat
    BY <1>1
  <2>2. Pow2[ByteBits * (WordBytes - i)] \in Nat \ {0}
    BY <2>1, BytePowers
  <2>3. word \div Pow2[ByteBits * (WordBytes - i)] \in Int
    BY <2>2, DivMod
  <2>. QED BY <1>1, <2>3, DivMod DEF Bytes
<1>3. BigEndian(word) \in [1 .. WordBytes -> Bytes]
  BY <1>2 DEF BigEndian
<1>. QED BY <1>1, <1>3

(* What FlattenSeq() goes through, one part after the other.                *)
LEMMA FlattenIs ==
    ASSUME NEW S, NEW parts \in Seq(Seq(S)), parts # <<>>
    PROVE  \E f : /\ f[1] = parts[1]
                  /\ \A n \in 2 .. Len(parts) : f[n] = f[n - 1] \o parts[n]
                  /\ FlattenSeq(parts) = f[Len(parts)]
                  /\ \A n \in 1 .. Len(parts) : f[n] \in Seq(S)
<1>. DEFINE N == Len(parts)
            Good(k, f) == f = [n \in 1 .. k |-> IF n = 1 THEN parts[n] ELSE f[n - 1] \o parts[n]]
            Has == {k \in Nat : \E f : Good(k + 1, f)}
<1>1. N \in Nat \ {0}
  BY EmptySeq, LenProperties
<1>2. \A n \in 1 .. N : parts[n] \in Seq(S)
  BY ElementOfSeq
<1>. HIDE DEF N
<1>3. 0 \in Has
  <2>1. Good(1, [n \in 1 .. 1 |-> parts[1]])
    OBVIOUS
  <2>2. 0 + 1 = 1
    OBVIOUS
  <2>. HIDE DEF Good
  <2>. QED BY <2>1, <2>2
<1>4. ASSUME NEW k \in Has PROVE k + 1 \in Has
  <2>. DEFINE m == k + 1
  <2>0. k \in Nat /\ m \in Nat /\ m >= 1
    OBVIOUS
  <2>1. PICK f : Good(m, f)
    OBVIOUS
  <2>. HIDE DEF m
  <2>. DEFINE g == [n \in 1 .. m + 1 |-> IF n = m + 1 THEN f[m] \o parts[m + 1] ELSE f[n]]
  <2>2. ASSUME NEW n \in 1 .. m + 1
        PROVE  g[n] = IF n = 1 THEN parts[n] ELSE g[n - 1] \o parts[n]
    <3>1. CASE n = 1
      <4>1. 1 \in 1 .. m /\ 1 # m + 1 /\ 1 \in 1 .. m + 1
        BY <2>0
      <4>2. g[1] = f[1] /\ f[1] = parts[1]
        BY <2>1, <4>1
      <4>. QED BY <3>1, <4>2
    <3>2. CASE n \in 2 .. m
      <4>1. /\ n - 1 \in 1 .. m /\ n - 1 # m + 1 /\ n # m + 1 /\ n - 1 \in 1 .. m + 1
            /\ n \in 1 .. m /\ n # 1
        BY <2>0, <3>2
      <4>2. g[n] = f[n] /\ g[n - 1] = f[n - 1]
        BY <4>1
      <4>3. f[n] = f[n - 1] \o parts[n]
        BY <2>1, <4>1
      <4>. HIDE DEF g
      <4>. QED BY <4>1, <4>2, <4>3
    <3>3. CASE n = m + 1
      <4>1. (m + 1) - 1 = m /\ m \in 1 .. m + 1 /\ m # m + 1 /\ m + 1 # 1 /\ m + 1 \in 1 .. m + 1
        BY <2>0
      <4>2. g[m + 1] = f[m] \o parts[m + 1] /\ g[m] = f[m]
        BY <4>1
      <4>. HIDE DEF g
      <4>. QED BY <3>3, <4>1, <4>2
    <3>. QED BY <2>0, <3>1, <3>2, <3>3
  <2>3. Good(m + 1, g)
    <3>1. g = [n \in 1 .. m + 1 |-> g[n]]
      OBVIOUS
    <3>. HIDE DEF g
    <3>. QED BY <2>2, <3>1
  <2>. HIDE DEF Good, g
  <2>. QED BY <2>0, <2>3 DEF m
<1>5. Has = Nat
  <2>1. Has \in SUBSET Nat
    OBVIOUS
  <2>. HIDE DEF Has
  <2>. QED BY <1>3, <1>4, <2>1, Induction
<1>6. \E f : Good(N, f)
  <2>1. N - 1 \in Has /\ (N - 1) + 1 = N
    <3>1. N - 1 \in Nat /\ (N - 1) + 1 = N
      BY <1>1
    <3>. HIDE DEF Has
    <3>. QED BY <1>5, <3>1
  <2>. HIDE DEF Good
  <2>. QED BY <2>1
<1>7. FlattenSeq(parts) = (CHOOSE f : Good(N, f))[N]
  BY <1>1 DEF FlattenSeq, N
<1>8. PICK f : Good(N, f) /\ FlattenSeq(parts) = f[N]
  <2>. HIDE DEF Good
  <2>. QED BY <1>6, <1>7
<1>9. f[1] = parts[1] /\ \A n \in 2 .. N : f[n] = f[n - 1] \o parts[n]
  <2>1. \A n \in 1 .. N : f[n] = IF n = 1 THEN parts[n] ELSE f[n - 1] \o parts[n]
    BY <1>8
  <2>2. 1 \in 1 .. N /\ \A n \in 2 .. N : n \in 1 .. N /\ n # 1
    BY <1>1
  <2>. QED BY <2>1, <2>2
<1>10. \A n \in 1 .. N : f[n] \in Seq(S)
  <2>. DEFINE Typed == {n \in Nat : n + 1 <= N => f[n + 1] \in Seq(S)}
  <2>1. 0 \in Typed
    BY <1>1, <1>2, <1>9
  <2>2. ASSUME NEW n \in Typed PROVE n + 1 \in Typed
    <3>. SUFFICES ASSUME n + 2 <= N PROVE f[n + 2] \in Seq(S)
      OBVIOUS
    <3>1. n + 2 \in 2 .. N /\ n + 2 \in 1 .. N /\ (n + 2) - 1 = n + 1 /\ f[n + 1] \in Seq(S)
      BY <1>1
    <3>2. f[n + 2] = f[n + 1] \o parts[n + 2] /\ parts[n + 2] \in Seq(S)
      BY <1>2, <1>9, <3>1
    <3>. QED BY <3>1, <3>2, ConcatProperties
  <2>3. Typed = Nat
    <3>1. Typed \in SUBSET Nat
      OBVIOUS
    <3>. HIDE DEF Typed
    <3>. QED BY <2>1, <2>2, <3>1, Induction
  <2>4. ASSUME NEW n \in 1 .. N PROVE f[n] \in Seq(S)
    <3>1. n - 1 \in Typed /\ (n - 1) + 1 = n /\ n <= N
      <4>1. n - 1 \in Nat /\ (n - 1) + 1 = n /\ n <= N
        BY <1>1
      <4>. HIDE DEF Typed
      <4>. QED BY <2>3, <4>1
    <3>. QED BY <3>1
  <2>. QED BY <2>4
<1>. QED BY <1>8, <1>9, <1>10 DEF N

(* Parts of one size, laid out one after the other.                         *)
OfSize(parts, size) == \A k \in 1 .. Len(parts) : Len(parts[k]) = size
LaidOut(flat, parts, size) ==
    /\ Len(flat) = size * Len(parts)
    /\ \A k \in 1 .. Len(parts), j \in 1 .. size : flat[size * (k - 1) + j] = parts[k][j]

(* Parts of one size are found again at its multiples.                      *)
LEMMA FlattenEqual ==
    ASSUME NEW S, NEW size \in Nat, NEW parts \in Seq(Seq(S)), parts # <<>>, OfSize(parts, size)
    PROVE  FlattenSeq(parts) \in Seq(S) /\ LaidOut(FlattenSeq(parts), parts, size)
<1>. DEFINE N == Len(parts)
<1>1. N \in Nat \ {0} /\ \A k \in 1 .. N : parts[k] \in Seq(S) /\ Len(parts[k]) = size
  BY EmptySeq, LenProperties, ElementOfSeq DEF OfSize
<1>2. PICK f : /\ f[1] = parts[1] /\ \A n \in 2 .. N : f[n] = f[n - 1] \o parts[n]
               /\ FlattenSeq(parts) = f[N] /\ \A n \in 1 .. N : f[n] \in Seq(S)
  BY FlattenIs
<1>. HIDE DEF N
<1>. DEFINE Holds(n) == /\ Len(f[n]) = size * n
                        /\ \A k \in 1 .. n, j \in 1 .. size :
                             f[n][size * (k - 1) + j] = parts[k][j]
            Right == {n \in Nat : n + 1 <= N => Holds(n + 1)}
<1>3. 0 \in Right
  <2>1. f[1] = parts[1] /\ Len(parts[1]) = size
    BY <1>1, <1>2
  <2>2. \A k \in 1 .. 1, j \in 1 .. size : k = 1 /\ size * (k - 1) + j = j
    OBVIOUS
  <2>3. Holds(1)
    BY <2>1, <2>2
  <2>4. 0 + 1 = 1
    OBVIOUS
  <2>. HIDE DEF Holds
  <2>. QED BY <2>3, <2>4
<1>4. ASSUME NEW n \in Right PROVE n + 1 \in Right
  <2>. SUFFICES ASSUME n + 2 <= N PROVE Holds(n + 2)
    <3>1. (n + 1) + 1 = n + 2 /\ n + 1 \in Nat
      OBVIOUS
    <3>. HIDE DEF Holds
    <3>. QED BY <3>1
  <2>. DEFINE m == n + 1
              s == f[m]
              t == parts[m + 1]
  <2>1. /\ m \in Nat /\ m >= 1 /\ m + 1 \in 2 .. N /\ m + 1 \in 1 .. N /\ m \in 1 .. N
        /\ (m + 1) - 1 = m /\ n + 2 = m + 1 /\ m <= N
    BY <1>1
  <2>2. Holds(m)
    <3>. HIDE DEF Holds
    <3>. QED BY <2>1
  <2>. HIDE DEF m
  <2>3. f[m + 1] = s \o t /\ s \in Seq(S) /\ t \in Seq(S) /\ Len(s) = size * m /\ Len(t) = size
    BY <1>1, <1>2, <2>1, <2>2
  <2>. HIDE DEF s, t
  <2>4. /\ Len(s \o t) = size * m + size
        /\ \A i \in 1 .. size * m + size :
             (s \o t)[i] = IF i <= size * m THEN s[i] ELSE t[i - size * m]
    <3>. DEFINE p == size * m
    <3>1. p \in Nat
      BY <2>1
    <3>. HIDE DEF p
    <3>2. Len(s) = p /\ Len(t) = size
      BY <2>3 DEF p
    <3>3. Len(s \o t) = p + size /\ \A i \in 1 .. p + size :
            (s \o t)[i] = IF i <= p THEN s[i] ELSE t[i - p]
      <4>1. /\ Len(s \o t) = Len(s) + Len(t)
            /\ \A i \in 1 .. Len(s) + Len(t) :
                 (s \o t)[i] = IF i <= Len(s) THEN s[i] ELSE t[i - Len(s)]
        <5>1. s \in Seq(S) /\ t \in Seq(S)
          BY <2>3
        <5>. QED BY <5>1, ConcatProperties
      <4>. QED BY <3>2, <4>1
    <3>. QED BY <3>3 DEF p
  <2>5. Len(f[m + 1]) = size * (m + 1)
    BY <2>1, <2>3, <2>4
  <2>6. ASSUME NEW k \in 1 .. m + 1, NEW j \in 1 .. size
        PROVE  f[m + 1][size * (k - 1) + j] = parts[k][j]
    <3>. DEFINE p == size * m
                i == size * (k - 1) + j
    <3>1. CASE k <= m
      <4>1. k \in 1 .. m
        BY <2>1, <3>1
      <4>2. s[i] = parts[k][j]
        BY <2>2, <4>1 DEF s
      <4>3. i \in 1 .. p
        <5>1. size * (k - 1) >= 0 /\ size * (m - k) >= 0
          BY <2>1, <3>1
        <5>2. size * (m - k) = p - size * (k - 1) - size
          BY <2>1
        <5>3. p \in Int /\ size * (k - 1) \in Int
          BY <2>1
        <5>. DEFINE u == size * (k - 1)
                    v == size * (m - k)
        <5>4. u \in Int /\ v \in Int /\ p \in Int /\ u >= 0 /\ v >= 0 /\ v = p - u - size
          BY <2>1, <5>1, <5>2, <5>3
        <5>. HIDE DEF p, u, v
        <5>5. u + j \in 1 .. p
          BY <5>4
        <5>. QED BY <5>5 DEF u
      <4>4. p \in Int
        BY <2>1
      <4>. HIDE DEF p, i
      <4>5. i \in 1 .. p + size /\ i <= p
        BY <4>3, <4>4
      <4>6. f[m + 1][i] = s[i]
        BY <2>3, <2>4, <4>5 DEF p
      <4>. QED BY <4>2, <4>6 DEF i
    <3>2. CASE k = m + 1
      <4>1. i = p + j /\ p \in Nat
        BY <2>1, <3>2
      <4>. HIDE DEF p, i
      <4>2. i \in 1 .. p + size /\ ~(i <= p) /\ i - p = j
        BY <4>1
      <4>3. f[m + 1][i] = t[j]
        BY <2>3, <2>4, <4>2 DEF p
      <4>. QED BY <3>2, <4>3 DEF i, t
    <3>. QED BY <2>1, <3>1, <3>2
  <2>7. Holds(m + 1)
    BY <2>5, <2>6
  <2>. HIDE DEF Holds
  <2>. QED BY <2>1, <2>7
<1>5. Right = Nat
  <2>1. Right \in SUBSET Nat
    OBVIOUS
  <2>. HIDE DEF Right
  <2>. QED BY <1>3, <1>4, <2>1, Induction
<1>6. Holds(N)
  <2>1. N - 1 \in Right /\ (N - 1) + 1 = N
    <3>1. N - 1 \in Nat /\ (N - 1) + 1 = N
      BY <1>1
    <3>. HIDE DEF Right
    <3>. QED BY <1>5, <3>1
  <2>. HIDE DEF Holds
  <2>. QED BY <1>1, <2>1
<1>. QED BY <1>1, <1>2, <1>6 DEF N, LaidOut

(* The pool's and the miner's turning of the words of a hash undo each      *)
(* other.                                                                   *)
LEMMA WordsSwapBack ==
    ASSUME NEW hash \in [1 .. WordBytes * HashWords -> Bytes]
    PROVE  /\ WordSwapped(hash) \in Seq(Bytes)
           /\ Len(WordSwapped(hash)) = WordBytes * HashWords
           /\ SwapWordBytes(WordSwapped(hash)) = hash
<1>. DEFINE B == WordBytes
            W == HashWords
            L == B * W
            part(w) == SubSeq(hash, B * (w - 1) + 1, B * w)
            parts == [w \in 1 .. W |-> Reverse(part(w))]
            swapped == WordSwapped(hash)
<1>1. B \in Nat \ {0} /\ W \in Nat \ {0} /\ L \in Nat
  <2>1. \A x, y \in Nat \ {0} : x * y \in Nat
    OBVIOUS
  <2>. QED BY <2>1, WireAssumption
<1>2. hash \in Seq(Bytes) /\ Len(hash) = L /\ hash \in [1 .. L -> Bytes]
  BY <1>1
<1>. HIDE DEF B, W, L
<1>3. ASSUME NEW w \in 1 .. W
      PROVE  /\ B * (w - 1) + 1 \in 1 .. L /\ B * w \in 1 .. L
             /\ B * w = B * (w - 1) + B
  <2>1. B * (w - 1) >= 0 /\ B * (W - w) >= 0
    BY <1>1
  <2>2. B * (W - w) = L - B * (w - 1) - B
    BY <1>1 DEF L
  <2>3. B * w = B * (w - 1) + B
    BY <1>1
  <2>. DEFINE u == B * (w - 1)
              v == B * (W - w)
              t == B * w
  <2>4. u \in Int /\ v \in Int /\ t \in Int
    BY <1>1
  <2>. HIDE DEF u, v, t
  <2>5. u + 1 \in 1 .. L /\ t \in 1 .. L /\ t = u + B
    <3>1. u >= 0 /\ v >= 0 /\ v = L - u - B /\ t = u + B
      BY <2>1, <2>2, <2>3 DEF u, v, t
    <3>. QED BY <1>1, <2>4, <3>1
  <2>. QED BY <2>5 DEF u, t
<1>4. ASSUME NEW w \in 1 .. W
      PROVE  /\ part(w) \in Seq(Bytes) /\ Len(part(w)) = B
             /\ \A j \in 1 .. B : part(w)[j] = hash[B * (w - 1) + j]
  <2>. DEFINE u == B * (w - 1)
              t == B * w
  <2>1. u + 1 \in 1 .. L /\ t \in 1 .. L /\ t = u + B /\ u \in Int
    BY <1>1, <1>3
  <2>. HIDE DEF u, t
  <2>. DEFINE s == SubSeq(hash, u + 1, t)
  <2>2. s = [i \in 1 .. t - (u + 1) + 1 |-> hash[i + (u + 1) - 1]]
    BY <1>1, <1>2, <2>1
  <2>3. t - (u + 1) + 1 = B
    BY <1>1, <2>1
  <2>4. \A i \in 1 .. B : i + (u + 1) - 1 = u + i /\ u + i \in 1 .. L
    BY <1>1, <2>1
  <2>. HIDE DEF s
  <2>5. s = [i \in 1 .. B |-> hash[u + i]]
    BY <2>2, <2>3, <2>4
  <2>6. s \in [1 .. B -> Bytes]
    BY <1>2, <2>4, <2>5
  <2>7. s \in Seq(Bytes) /\ Len(s) = B
    BY <1>1, <2>6
  <2>. QED BY <2>5, <2>7 DEF s, u, t
<1>. HIDE DEF part
<1>5. ASSUME NEW w \in 1 .. W
      PROVE  Reverse(part(w)) \in Seq(Bytes) /\ Len(Reverse(part(w))) = B
  <2>1. part(w) \in Seq(Bytes) /\ Len(part(w)) = B
    BY <1>4
  <2>. QED BY <2>1, ReverseTwice
<1>6. parts \in Seq(Seq(Bytes)) /\ Len(parts) = W /\ parts # <<>>
  <2>1. parts \in [1 .. W -> Seq(Bytes)]
    BY <1>5
  <2>2. Len(parts) = W
    BY <1>1
  <2>. HIDE DEF parts
  <2>. QED BY <1>1, <2>1, <2>2
<1>7. OfSize(parts, B)
  BY <1>5, <1>6 DEF OfSize
<1>8. swapped = FlattenSeq(parts)
  BY DEF WordSwapped, part, B, W
<1>. HIDE DEF parts, swapped
<1>9. /\ swapped \in Seq(Bytes) /\ Len(swapped) = B * W
      /\ \A w \in 1 .. W, j \in 1 .. B : swapped[B * (w - 1) + j] = parts[w][j]
  <2>1. B \in Nat
    BY <1>1
  <2>2. swapped \in Seq(Bytes) /\ LaidOut(swapped, parts, B)
    BY <1>6, <1>7, <1>8, <2>1, FlattenEqual
  <2>. QED BY <1>6, <2>2 DEF LaidOut
<1>10. SwapWordBytes(swapped) = hash
  <2>1. SwapWordBytes(swapped) =
          [i \in 1 .. L |-> swapped[2 * ((i - 1) \div B) * B + B + 1 - i]]
    <3>1. DOMAIN swapped = 1 .. L
      BY <1>9 DEF L
    <3>. QED BY <3>1 DEF SwapWordBytes, B
  <2>2. ASSUME NEW i \in 1 .. L PROVE swapped[2 * ((i - 1) \div B) * B + B + 1 - i] = hash[i]
    <3>. DEFINE q == (i - 1) \div B
                r == (i - 1) % B
                w == q + 1
    <3>1. q \in Int /\ r \in 0 .. B - 1 /\ i - 1 = B * q + r
      <4>1. i - 1 \in Int
        BY <1>1
      <4>. QED BY <1>1, <4>1, DivMod
    <3>. HIDE DEF q, r
    <3>2. q \in 0 .. W - 1
      <4>1. q < 0 => B * q <= -B
        BY <1>1, <3>1
      <4>2. q >= W => B * q >= B * W
        BY <1>1, <3>1
      <4>. DEFINE u == B * q
      <4>3. u \in Int /\ i - 1 = u + r /\ (q < 0 => u <= -B) /\ (q >= W => u >= L)
        BY <1>1, <3>1, <4>1, <4>2 DEF L
      <4>. HIDE DEF u
      <4>. QED BY <1>1, <3>1, <4>3
    <3>3. w \in 1 .. W /\ B - r \in 1 .. B /\ w - 1 = q /\ r + 1 \in 1 .. B
      BY <1>1, <3>1, <3>2
    <3>. HIDE DEF w
    <3>4. 2 * q * B + B + 1 - i = B * (w - 1) + (B - r)
      <4>1. 2 * q * B = B * q + B * q
        BY <1>1, <3>1
      <4>. DEFINE u == B * q
      <4>2. u \in Int /\ i - 1 = u + r
        BY <1>1, <3>1
      <4>3. 2 * q * B = u + u
        BY <4>1
      <4>4. (u + u) + B + 1 - i = u + (B - r)
        <5>. HIDE DEF u
        <5>. QED BY <1>1, <3>1, <4>2
      <4>. QED BY <3>3, <4>3, <4>4
    <3>5. swapped[B * (w - 1) + (B - r)] = parts[w][B - r]
      BY <1>9, <3>3
    <3>6. parts[w] = Reverse(part(w))
      BY <3>3 DEF parts
    <3>7. Reverse(part(w))[B - r] = part(w)[r + 1]
      <4>1. Len(part(w)) = B
        BY <1>4, <3>3
      <4>2. (B - (B - r)) + 1 = r + 1
        BY <1>1, <3>1
      <4>. QED BY <3>3, <4>1, <4>2 DEF Reverse
    <3>8. part(w)[r + 1] = hash[B * (w - 1) + (r + 1)]
      BY <1>4, <3>3
    <3>9. B * (w - 1) + (r + 1) = i
      <4>1. B * (w - 1) + r = i - 1
        BY <3>1, <3>3
      <4>2. B * (w - 1) \in Int
        BY <1>1, <3>3
      <4>. QED BY <3>1, <4>1, <4>2
    <3>. QED BY <3>4, <3>5, <3>6, <3>7, <3>8, <3>9 DEF q
  <2>. QED BY <1>2, <2>1, <2>2
<1>. QED BY <1>9, <1>10 DEF B, W, swapped

(* Four bytes of a block, sent the other way round, are written as they were. *)
LEMMA WordReadsBack ==
    ASSUME NEW field \in WordOfBytes
    PROVE  /\ IsHexOf(ToHex(Reverse(field)), WordBytes)
           /\ WriteLE32(ParseBigEndianHex32(ToHex(Reverse(field)))) = field
           /\ ParseBigEndianHex32(ToHex(Reverse(field))) \in Nat
<1>. DEFINE bytes == Reverse(field)
<1>1. field \in Seq(Bytes) /\ Len(field) = WordBytes
  BY WireAssumption DEF WordOfBytes
<1>2. bytes \in Seq(Bytes) /\ Len(bytes) = WordBytes /\ Reverse(bytes) = field
  BY <1>1, ReverseTwice
<1>. HIDE DEF bytes
<1>3. IsHexOf(ToHex(bytes), WordBytes)
  BY <1>2, HexRoundTrips
<1>4. WriteLE32(ParseBigEndianHex32(ToHex(bytes))) = field
  BY <1>2, WordRoundTrips
<1>5. ParseBigEndianHex32(ToHex(bytes)) \in Nat
  <2>1. Len(bytes) \in 0 .. Len(bytes)
    BY <1>2, LenProperties
  <2>. QED BY <1>2, <2>1, ParsedIs
<1>. QED BY <1>3, <1>4, <1>5 DEF bytes

(* The pool's header of a share is the one that was hashed.                 *)
LEMMA PoolSound ==
    ASSUME NEW block \in PoolBlocks, NEW extranonce1 \in Seq(Bytes),
           NEW extranonce2 \in Seq(Bytes), NEW nonce \in Words
    PROVE  ThePoolAgrees(block, extranonce1, extranonce2, nonce)
<1>. DEFINE params == PoolNotify(block)
            job    == ParseNotify(params, extranonce1)
            submit == BuildSubmit(job, extranonce2, nonce)
            Root   == MerkleRootFromBranch(BuildCoinbase(job, extranonce2), job.branch)
<1>1. /\ block.jobId # "" /\ block.previous \in [1 .. WordBytes * HashWords -> Bytes]
      /\ block.coinbase1 \in Seq(Bytes) /\ block.coinbase2 \in Seq(Bytes)
      /\ block.version \in WordOfBytes /\ block.bits \in WordOfBytes
      /\ block.timestamp \in WordOfBytes
  BY DEF PoolBlocks
<1>2. /\ params.jobId = block.jobId /\ params.prevhash = ToHex(WordSwapped(block.previous))
      /\ params.coinb1 = ToHex(block.coinbase1) /\ params.coinb2 = ToHex(block.coinbase2)
      /\ params.branch = block.branch /\ params.version = ToHex(Reverse(block.version))
      /\ params.nbits = ToHex(Reverse(block.bits))
      /\ params.ntime = ToHex(Reverse(block.timestamp))
  BY DEF PoolNotify
<1>. HIDE DEF params
<1>3. /\ job.jobId = params.jobId
      /\ job.previousBlockHash = PrevHashFromStratumHex(params.prevhash)
      /\ job.coinbase1 = FromHex(params.coinb1) /\ job.extranonce1 = extranonce1
      /\ job.coinbase2 = FromHex(params.coinb2) /\ job.branch = params.branch
      /\ job.version = ParseBigEndianHex32(params.version)
      /\ job.bits = ParseBigEndianHex32(params.nbits)
      /\ job.nTime = ParseBigEndianHex32(params.ntime)
  BY DEF ParseNotify
<1>. HIDE DEF job
<1>4. /\ submit.jobId = job.jobId /\ submit.extranonce2 = ToHex(extranonce2)
      /\ submit.ntime = ToBigEndianHex32(job.nTime) /\ submit.nonce = ToBigEndianHex32(nonce)
  BY DEF BuildSubmit
<1>. HIDE DEF submit
<1>5. Decodes(params)
  <2>1. IsHexOf(params.prevhash, WordBytes * HashWords)
    <3>1. /\ WordSwapped(block.previous) \in Seq(Bytes)
          /\ Len(WordSwapped(block.previous)) = WordBytes * HashWords
      BY <1>1, WordsSwapBack
    <3>. QED BY <1>2, <3>1, HexRoundTrips
  <2>2. IsHex(params.coinb1) /\ IsHex(params.coinb2)
    BY <1>1, <1>2, HexRoundTrips DEF IsHexOf
  <2>3. /\ IsHexOf(params.version, WordBytes) /\ IsHexOf(params.nbits, WordBytes)
        /\ IsHexOf(params.ntime, WordBytes)
    BY <1>1, <1>2, WordReadsBack
  <2>. QED BY <1>1, <1>2, <2>1, <2>2, <2>3 DEF Decodes
<1>6. job.previousBlockHash = block.previous
  <2>1. /\ WordSwapped(block.previous) \in Seq(Bytes)
        /\ SwapWordBytes(WordSwapped(block.previous)) = block.previous
    BY <1>1, WordsSwapBack
  <2>2. FromHex(ToHex(WordSwapped(block.previous))) = WordSwapped(block.previous)
    BY <2>1, HexRoundTrips
  <2>. QED BY <1>2, <1>3, <2>1, <2>2 DEF PrevHashFromStratumHex
<1>7. WriteLE32(job.version) = block.version /\ WriteLE32(job.bits) = block.bits
  BY <1>1, <1>2, <1>3, WordReadsBack
<1>8. /\ job.coinbase1 = block.coinbase1 /\ job.coinbase2 = block.coinbase2
      /\ FromHex(submit.extranonce2) = extranonce2
  BY <1>1, <1>2, <1>3, <1>4, HexRoundTrips
<1>9. MerkleRootFromBranch(block.coinbase1 \o extranonce1 \o FromHex(submit.extranonce2)
                             \o block.coinbase2, block.branch) = Root
  BY <1>2, <1>3, <1>8 DEF BuildCoinbase
<1>10. ASSUME NEW word \in Int PROVE Reverse(FromHex(ToBigEndianHex32(word))) = WriteLE32(word)
  <2>1. BigEndian(word) \in Seq(Bytes)
    BY BigEndianIs
  <2>. QED BY <2>1, HexRoundTrips DEF ToBigEndianHex32, WriteLE32
<1>11. /\ Reverse(FromHex(submit.ntime)) = WriteLE32(job.nTime)
       /\ Reverse(FromHex(submit.nonce)) = WriteLE32(nonce)
  <2>1. job.nTime \in Nat
    BY <1>1, <1>2, <1>3, WordReadsBack
  <2>2. nonce \in Int /\ job.nTime \in Int
    BY <2>1 DEF Words
  <2>. QED BY <1>4, <1>10, <2>2
<1>. HIDE DEF Root
<1>12. PoolHeader(block, extranonce1, submit) =
         [version |-> block.version, previous |-> block.previous, root |-> Root,
          timestamp |-> WriteLE32(job.nTime), bits |-> block.bits, nonce |-> WriteLE32(nonce)]
  BY <1>9, <1>11 DEF PoolHeader
<1>13. Hashed(job, extranonce2, nonce) =
         [version |-> block.version, previous |-> block.previous, root |-> Root,
          timestamp |-> WriteLE32(job.nTime), bits |-> block.bits, nonce |-> WriteLE32(nonce)]
  BY <1>6, <1>7 DEF Hashed, SetHeaderNonce, SerializeInto, Root
<1>. QED BY <1>2, <1>3, <1>4, <1>5, <1>12, <1>13 DEF ThePoolAgrees, params, job, submit

(* The pool makes the same header of a share that the miner hashed, for     *)
(* every job, every extranonce and every nonce (mining/work.cpp, stratum).  *)
THEOREM PoolCorrect == Spec => []PoolsAgree
<1>1. InputInv => PoolsAgree
  <2>. SUFFICES ASSUME InputInv, subject.kind = "wire"
                PROVE  ThePoolAgrees(subject.block, subject.extranonce1,
                                     subject.extranonce2, subject.nonce)
    BY DEF PoolsAgree
  <2>1. /\ subject.block \in PoolBlocks /\ subject.extranonce1 \in Seq(Bytes)
        /\ subject.extranonce2 \in Seq(Bytes) /\ subject.nonce \in Words
    BY DEF InputInv, Allowed
  <2>. QED BY <2>1, PoolSound
<1>. QED BY <1>1, SubjectAllowed, PTL

-----------------------------------------------------------------------------
(* Merkle trees.                                                            *)

(* The level over a level, by the code and by the definition of the tree.   *)
Raised(level) == IF Len(level) > 1 THEN Paired(level) ELSE level
Above(leaves, n, level) ==
    [i \in 1 .. LevelSize(leaves, n) |->
       LET last == LevelSize(leaves, n - 1)
       IN  Hash(level[2 * i - 1], level[IF 2 * i > last THEN last ELSE 2 * i])]
IsTree(tree, leaves, top) ==
    /\ tree[0] = leaves
    /\ \A n \in 1 .. top : tree[n] = Above(leaves, n, tree[n - 1])

(* The levels as merkleRootFromLeaves() makes them.                        *)
LEMMA LevelsIs ==
    ASSUME NEW leaves, Len(leaves) \in Nat
    PROVE  \E f : /\ f[0] = leaves
                  /\ \A n \in 1 .. Len(leaves) : f[n] = Raised(f[n - 1])
                  /\ Levels(leaves) = f /\ DOMAIN f = 0 .. Len(leaves)
<1>. DEFINE s0 == leaves
            N == Len(leaves)
            Step(n, last) == Raised(last)
            Good(k, f) == f = [n \in 0 .. k |-> IF n = 0 THEN s0 ELSE Step(n, f[n - 1])]
            Has == {k \in Nat : \E f : Good(k, f)}
<1>0. N \in Nat
  OBVIOUS
<1>. HIDE DEF s0, N, Step
<1>1. 0 \in Has
  <2>1. Good(0, [n \in 0 .. 0 |-> s0])
    OBVIOUS
  <2>. QED BY <2>1
<1>2. ASSUME NEW k \in Has PROVE k + 1 \in Has
  <2>1. PICK f : Good(k, f)
    OBVIOUS
  <2>. DEFINE g == [n \in 0 .. k + 1 |-> IF n = k + 1 THEN Step(k + 1, f[k]) ELSE f[n]]
  <2>2. ASSUME NEW n \in 0 .. k + 1 PROVE g[n] = IF n = 0 THEN s0 ELSE Step(n, g[n - 1])
    <3>1. CASE n = 0
      <4>1. g[0] = f[0] /\ f[0] = s0
        BY <2>1
      <4>. QED BY <3>1, <4>1
    <3>2. CASE n \in 1 .. k
      <4>1. /\ n - 1 \in 0 .. k /\ n - 1 # k + 1 /\ n # k + 1 /\ n - 1 \in 0 .. k + 1
            /\ n \in 0 .. k /\ n # 0
        BY <3>2
      <4>2. g[n] = f[n] /\ g[n - 1] = f[n - 1]
        BY <4>1
      <4>3. f[n] = Step(n, f[n - 1])
        BY <2>1, <4>1
      <4>. QED BY <4>1, <4>2, <4>3
    <3>3. CASE n = k + 1
      <4>1. (k + 1) - 1 = k /\ k \in 0 .. k + 1 /\ k # k + 1 /\ k + 1 # 0 /\ k + 1 \in 0 .. k + 1
        OBVIOUS
      <4>2. g[k + 1] = Step(k + 1, f[k]) /\ g[k] = f[k]
        BY <4>1
      <4>. HIDE DEF g
      <4>. QED BY <3>3, <4>1, <4>2
    <3>. QED BY <3>1, <3>2, <3>3
  <2>3. Good(k + 1, g)
    <3>1. g = [n \in 0 .. k + 1 |-> g[n]]
      OBVIOUS
    <3>. HIDE DEF g
    <3>. QED BY <2>2, <3>1
  <2>. HIDE DEF Good, g
  <2>. QED BY <2>3
<1>3. Has = Nat
  <2>1. Has \in SUBSET Nat
    OBVIOUS
  <2>. HIDE DEF Has
  <2>. QED BY <1>1, <1>2, <2>1, Induction
<1>4. \E f : Good(N, f)
  BY <1>0, <1>3
<1>5. \E f : Good(N, f) /\ Levels(leaves) = f
  BY <1>4 DEF Levels, Raised, s0, N, Step
<1>6. PICK f : Good(N, f) /\ Levels(leaves) = f
  BY <1>5
<1>7. f[0] = s0 /\ \A n \in 1 .. N : f[n] = Step(n, f[n - 1])
  BY <1>0, <1>6
<1>. QED BY <1>6, <1>7 DEF s0, N, Step

(* The nodes by the definition of the tree.                                *)
LEMMA NodeIs ==
    ASSUME NEW leaves, NEW top \in Nat
    PROVE  \E f : IsTree(f, leaves, top) /\ Node(leaves, top) = f[top][1]
<1>. DEFINE s0 == leaves
            N == top
            Step(n, last) == Above(leaves, n, last)
            Good(k, f) == f = [n \in 0 .. k |-> IF n = 0 THEN s0 ELSE Step(n, f[n - 1])]
            Has == {k \in Nat : \E f : Good(k, f)}
<1>0. N \in Nat
  OBVIOUS
<1>. HIDE DEF s0, N, Step
<1>1. 0 \in Has
  <2>1. Good(0, [n \in 0 .. 0 |-> s0])
    OBVIOUS
  <2>. QED BY <2>1
<1>2. ASSUME NEW k \in Has PROVE k + 1 \in Has
  <2>1. PICK f : Good(k, f)
    OBVIOUS
  <2>. DEFINE g == [n \in 0 .. k + 1 |-> IF n = k + 1 THEN Step(k + 1, f[k]) ELSE f[n]]
  <2>2. ASSUME NEW n \in 0 .. k + 1 PROVE g[n] = IF n = 0 THEN s0 ELSE Step(n, g[n - 1])
    <3>1. CASE n = 0
      <4>1. g[0] = f[0] /\ f[0] = s0
        BY <2>1
      <4>. QED BY <3>1, <4>1
    <3>2. CASE n \in 1 .. k
      <4>1. /\ n - 1 \in 0 .. k /\ n - 1 # k + 1 /\ n # k + 1 /\ n - 1 \in 0 .. k + 1
            /\ n \in 0 .. k /\ n # 0
        BY <3>2
      <4>2. g[n] = f[n] /\ g[n - 1] = f[n - 1]
        BY <4>1
      <4>3. f[n] = Step(n, f[n - 1])
        BY <2>1, <4>1
      <4>. QED BY <4>1, <4>2, <4>3
    <3>3. CASE n = k + 1
      <4>1. (k + 1) - 1 = k /\ k \in 0 .. k + 1 /\ k # k + 1 /\ k + 1 # 0 /\ k + 1 \in 0 .. k + 1
        OBVIOUS
      <4>2. g[k + 1] = Step(k + 1, f[k]) /\ g[k] = f[k]
        BY <4>1
      <4>. HIDE DEF g
      <4>. QED BY <3>3, <4>1, <4>2
    <3>. QED BY <3>1, <3>2, <3>3
  <2>3. Good(k + 1, g)
    <3>1. g = [n \in 0 .. k + 1 |-> g[n]]
      OBVIOUS
    <3>. HIDE DEF g
    <3>. QED BY <2>2, <3>1
  <2>. HIDE DEF Good, g
  <2>. QED BY <2>3
<1>3. Has = Nat
  <2>1. Has \in SUBSET Nat
    OBVIOUS
  <2>. HIDE DEF Has
  <2>. QED BY <1>1, <1>2, <2>1, Induction
<1>4. \E f : Good(N, f)
  BY <1>0, <1>3
<1>5. \E f : Good(N, f) /\ Node(leaves, top) = f[top][1]
  BY <1>4 DEF Node, Above, s0, N, Step
<1>6. PICK f : Good(N, f) /\ Node(leaves, top) = f[top][1]
  BY <1>5
<1>7. f[0] = s0 /\ \A n \in 1 .. N : f[n] = Step(n, f[n - 1])
  BY <1>0, <1>6
<1>. QED BY <1>6, <1>7 DEF IsTree, s0, N, Step

(* A level has half as many nodes as the one below it, rounded up.          *)
LEMMA LevelSizeIs ==
    ASSUME NEW leaves \in Seq(Seq(Nat)), leaves # <<>>, NEW h \in Nat
    PROVE  /\ LevelSize(leaves, 0) = Len(leaves)
           /\ LevelSize(leaves, h) \in Nat \ {0}
           /\ LevelSize(leaves, h + 1) = (LevelSize(leaves, h) + 1) \div 2
           /\ LevelSize(leaves, h) = 1 <=> Pow2[h] >= Len(leaves)
<1>. DEFINE N == Len(leaves)
            P == Pow2[h]
            x == N + P - 1
            s == x \div P
<1>1. N \in Nat \ {0}
  BY EmptySeq, LenProperties
<1>2. P \in Nat \ {0} /\ Pow2[h + 1] = 2 * P /\ Pow2[0] = 1
  BY Pow2Positive, Pow2Def
<1>. HIDE DEF N, P
<1>3. x \in Nat /\ s \in Int /\ x = P * s + (x % P) /\ (x % P) \in 0 .. P - 1
  <2>1. x \in Int /\ x \in Nat
    BY <1>1, <1>2
  <2>. HIDE DEF x
  <2>. QED BY <1>2, <2>1, DivMod
<1>. HIDE DEF s
<1>. DEFINE r == x % P
            q == P * s
<1>4. /\ s = 1 <=> P >= N
      /\ s >= 1
  <2>1. s >= 2 => q >= 2 * P
    <3>1. P \in Nat /\ s \in Int
      BY <1>2, <1>3
    <3>. QED BY <3>1
  <2>2. s <= 0 => q <= 0
    <3>1. P \in Nat /\ s \in Int
      BY <1>2, <1>3
    <3>. QED BY <3>1
  <2>3. s = 1 => q = P
    BY <1>2, <1>3
  <2>4. q \in Int /\ r \in 0 .. P - 1 /\ s \in Int /\ N + P - 1 = q + r
    BY <1>2, <1>3
  <2>. HIDE DEF q, r
  <2>. QED BY <1>1, <1>2, <2>1, <2>2, <2>3, <2>4
<1>5. (N + 2 * P - 1) \div (2 * P) = (s + 1) \div 2
  <2>. DEFINE y == N + 2 * P - 1
  <2>1. y \in Int /\ y = P * (s + 1) + r
    <3>1. P * (s + 1) = q + P
      BY <1>2, <1>3
    <3>2. q \in Int /\ r \in Int /\ N + P - 1 = q + r
      BY <1>2, <1>3
    <3>. HIDE DEF q, r
    <3>. DEFINE z == P * (s + 1)
    <3>3. z = q + P
      BY <3>1
    <3>. HIDE DEF z
    <3>4. y = z + r /\ y \in Int
      BY <1>1, <1>2, <3>2, <3>3
    <3>. QED BY <3>4 DEF z
  <2>. HIDE DEF y
  <2>2. y \div P = s + 1
    <3>1. s + 1 \in Int /\ r \in 0 .. P - 1
      BY <1>3
    <3>. HIDE DEF r
    <3>. QED BY <1>2, <2>1, <3>1, DivModIs
  <2>3. (y \div P) \div 2 = y \div (P * 2)
    <3>1. 2 \in Nat \ {0}
      OBVIOUS
    <3>. QED BY <1>2, <2>1, <3>1, DivDiv
  <2>4. P * 2 = 2 * P
    BY <1>2
  <2>. QED BY <2>2, <2>3, <2>4 DEF y
<1>6. /\ LevelSize(leaves, 0) = N
      /\ LevelSize(leaves, h) = s
      /\ LevelSize(leaves, h + 1) = (N + 2 * P - 1) \div (2 * P)
  <2>1. (N + 1 - 1) \div 1 = N
    BY <1>1
  <2>. QED BY <1>2, <2>1 DEF LevelSize, N, P, s
<1>7. s \in Nat \ {0}
  BY <1>3, <1>4
<1>. QED BY <1>4, <1>5, <1>6, <1>7 DEF N, P

(* The height is the least number of levels over the leaves.                *)
LEMMA HeightIs ==
    ASSUME NEW leaves \in Seq(Seq(Nat)), leaves # <<>>
    PROVE  /\ Height(leaves) \in 0 .. Len(leaves) /\ Pow2[Height(leaves)] >= Len(leaves)
           /\ \A h \in 0 .. Height(leaves) - 1 : Pow2[h] < Len(leaves)
<1>. DEFINE N == Len(leaves)
            High == {h \in Nat : Pow2[h] >= N}
            Good(h) == Pow2[h] >= N /\ (h = 0 \/ Pow2[h - 1] < N)
            Large == {n \in Nat : Pow2[n] >= n}
            H == Height(leaves)
<1>1. N \in Nat \ {0}
  BY EmptySeq, LenProperties
<1>. HIDE DEF N
<1>2. Large = Nat
  <2>1. 0 \in Large
    BY Pow2Def
  <2>2. ASSUME NEW n \in Large PROVE n + 1 \in Large
    <3>1. n \in Nat /\ Pow2[n] \in Nat \ {0} /\ Pow2[n + 1] = 2 * Pow2[n] /\ Pow2[n] >= n
      BY Pow2Def, Pow2Positive
    <3>2. 2 * Pow2[n] >= n + 1
      BY <3>1
    <3>. QED BY <3>1, <3>2
  <2>3. Large \in SUBSET Nat
    OBVIOUS
  <2>. HIDE DEF Large
  <2>. QED BY <2>1, <2>2, <2>3, Induction
<1>3. N \in High
  <2>1. N \in Large
    BY <1>1, <1>2
  <2>. QED BY <2>1
<1>4. \E h \in 0 .. N : Good(h)
  <2>1. High \in SUBSET Nat /\ High # {}
    BY <1>3
  <2>2. PICK h \in High : \A k \in High : h <= k
    <3>. HIDE DEF High
    <3>. QED BY <2>1, LeastOf
  <2>3. h \in Nat /\ h <= N /\ Pow2[h] >= N
    BY <1>3, <2>2
  <2>4. h = 0 \/ Pow2[h - 1] < N
    <3>. SUFFICES ASSUME h # 0 PROVE Pow2[h - 1] < N
      OBVIOUS
    <3>1. h - 1 \in Nat /\ ~(h <= h - 1)
      BY <2>3
    <3>2. ~(Pow2[h - 1] >= N)
      BY <2>2, <3>1
    <3>3. Pow2[h - 1] \in Nat
      BY <3>1, Pow2Positive
    <3>. QED BY <1>1, <3>2, <3>3
  <2>. QED BY <1>1, <2>3, <2>4
<1>5. H \in 0 .. N /\ Good(H)
  <2>1. H = CHOOSE h \in 0 .. N : Good(h)
    BY DEF Height, N
  <2>. HIDE DEF H, Good
  <2>. QED BY <1>4, <2>1
<1>. HIDE DEF H
<1>6. ASSUME NEW h \in 0 .. H - 1 PROVE Pow2[h] < N
  <2>1. h \in Nat /\ H - 1 \in Nat /\ h <= H - 1 /\ H # 0
    BY <1>1, <1>5
  <2>2. Pow2[H - 1] < N /\ Pow2[h] \in Nat /\ Pow2[H - 1] \in Nat
    BY <1>5, <2>1, Pow2Positive
  <2>3. h < H - 1 => Pow2[h] < Pow2[H - 1]
    BY <2>1, Pow2Grows
  <2>4. h = H - 1 \/ h < H - 1
    BY <2>1
  <2>. QED BY <1>1, <2>2, <2>3, <2>4
<1>. QED BY <1>5, <1>6 DEF H, N

(* One pass over a level is the level above it in the tree.                 *)
LEMMA PairedIs ==
    ASSUME NEW level, NEW leaves, NEW n \in Nat, NEW s \in Nat, s > 1,
           level = [i \in 1 .. s |-> level[i]], LevelSize(leaves, n) = s,
           LevelSize(leaves, n + 1) = (s + 1) \div 2
    PROVE  /\ Paired(level) = Above(leaves, n + 1, level)
           /\ Paired(level)[1] = Hash(level[1], Evened(level)[2])
<1>. DEFINE even == Evened(level)
            half == (s + 1) \div 2
            e(i) == level[IF 2 * i > s THEN s ELSE 2 * i]
<1>1. level \in Seq({level[i] : i \in 1 .. s}) /\ Len(level) = s
  <2>. DEFINE S == {level[i] : i \in 1 .. s}
  <2>1. level \in [1 .. s -> S]
    <3>1. \A i \in 1 .. s : level[i] \in S
      OBVIOUS
    <3>. HIDE DEF S
    <3>. QED BY <3>1
  <2>. HIDE DEF S
  <2>2. level \in Seq(S) /\ Len(level) = s
    BY <2>1
  <2>. QED BY <2>2 DEF S
<1>2. /\ Len(even) \div 2 = half
      /\ \A i \in 1 .. half : even[2 * i - 1] = level[2 * i - 1] /\ even[2 * i] = e(i)
  <2>1. CASE s % 2 # 0
    <3>. DEFINE S == {level[i] : i \in 1 .. s}
    <3>1. Last(level) = level[s] /\ level[s] \in S
      BY <1>1 DEF Last
    <3>2. even = Append(level, level[s])
      BY <1>1, <2>1, <3>1 DEF Evened
    <3>. HIDE DEF S
    <3>3. /\ Len(even) = s + 1 /\ \A i \in 1 .. s : even[i] = level[i]
          /\ even[s + 1] = level[s]
      <4>1. level \in Seq(S)
        BY <1>1 DEF S
      <4>. QED BY <1>1, <3>1, <3>2, <4>1, AppendProperties
    <3>. HIDE DEF even
    <3>4. ASSUME NEW i \in 1 .. half
          PROVE  even[2 * i - 1] = level[2 * i - 1] /\ even[2 * i] = e(i)
      <4>1. 2 * i - 1 \in 1 .. s /\ 2 * i \in 1 .. s + 1
        BY <2>1
      <4>2. CASE 2 * i > s
        <5>1. 2 * i = s + 1
          BY <4>1, <4>2
        <5>. QED BY <3>3, <4>1, <4>2, <5>1
      <4>3. CASE ~(2 * i > s)
        <5>1. 2 * i \in 1 .. s
          BY <4>1, <4>3
        <5>. QED BY <3>3, <4>1, <4>3, <5>1
      <4>. QED BY <4>2, <4>3
    <3>. QED BY <3>3, <3>4
  <2>2. CASE s % 2 = 0
    <3>1. even = level /\ s \div 2 = half
      <4>1. even = level
        BY <1>1, <2>2 DEF Evened
      <4>2. s \div 2 = (s + 1) \div 2
        BY <2>2
      <4>. QED BY <4>1, <4>2
    <3>2. ASSUME NEW i \in 1 .. half PROVE ~(2 * i > s)
      BY <2>2
    <3>. QED BY <1>1, <3>1, <3>2
  <2>. QED BY <2>1, <2>2
<1>. HIDE DEF even, half
<1>3. Paired(level) = [i \in 1 .. half |-> Hash(level[2 * i - 1], e(i))]
  <2>1. Paired(level) = [i \in 1 .. half |-> Hash(even[2 * i - 1], even[2 * i])]
    BY <1>2 DEF Paired, even
  <2>. HIDE DEF e
  <2>. QED BY <1>2, <2>1
<1>4. Above(leaves, n + 1, level) = [i \in 1 .. half |-> Hash(level[2 * i - 1], e(i))]
  <2>1. (n + 1) - 1 = n
    OBVIOUS
  <2>2. LevelSize(leaves, (n + 1) - 1) = s /\ LevelSize(leaves, n + 1) = half
    BY <2>1 DEF half
  <2>. QED BY <2>2 DEF Above
<1>5. Paired(level)[1] = Hash(level[1], even[2])
  <2>1. 1 \in 1 .. half /\ 2 * 1 - 1 = 1 /\ 2 * 1 = 2
    BY DEF half
  <2>2. e(1) = even[2]
    BY <1>2, <2>1
  <2>. HIDE DEF e
  <2>. QED BY <1>3, <2>1, <2>2
<1>. QED BY <1>3, <1>4, <1>5 DEF even

(* The levels that the code makes are those of the tree, up to the root,    *)
(* which stays; the leftmost nodes come from the branch.                    *)
LEMMA TreeSound ==
    ASSUME NEW leaves \in Seq(Seq(Nat)), leaves # <<>>
    PROVE  BranchGivesRoot(leaves)
<1>. DEFINE N == Len(leaves)
            H == Height(leaves)
            size(h) == LevelSize(leaves, h)
            branch == MerkleBranchForCoinbase(leaves)
<1>1. N \in Nat \ {0} /\ leaves = [i \in 1 .. N |-> leaves[i]]
  BY EmptySeq, LenProperties
<1>2. H \in 0 .. N /\ Pow2[H] >= N /\ \A h \in 0 .. H - 1 : Pow2[h] < N
  BY HeightIs
<1>3. /\ size(0) = N /\ \A h \in Nat : /\ size(h) \in Nat \ {0} /\ (size(h) = 1 <=> Pow2[h] >= N)
                                       /\ size(h + 1) = (size(h) + 1) \div 2
  <2>1. 0 \in Nat
    OBVIOUS
  <2>. QED BY <2>1, LevelSizeIs
<1>4. PICK f : /\ f[0] = leaves /\ \A n \in 1 .. N : f[n] = Raised(f[n - 1])
               /\ Levels(leaves) = f /\ DOMAIN f = 0 .. N
  BY <1>1, LevelsIs
<1>5. PICK g : /\ g[0] = leaves /\ \A n \in 1 .. H : g[n] = Above(leaves, n, g[n - 1])
               /\ Node(leaves, H) = g[H][1]
  <2>1. H \in Nat
    BY <1>2
  <2>. HIDE DEF H
  <2>2. \E g : IsTree(g, leaves, H) /\ Node(leaves, H) = g[H][1]
    BY <2>1, NodeIs
  <2>. QED BY <2>2 DEF IsTree
<1>. HIDE DEF N, H, size
<1>6. ASSUME NEW h \in 0 .. H - 1 PROVE size(h) \in Nat /\ size(h) > 1
  <2>1. h \in Nat /\ Pow2[h] < N
    BY <1>2
  <2>2. Pow2[h] \in Nat
    BY <2>1, Pow2Positive
  <2>3. size(h) \in Nat \ {0} /\ (size(h) = 1 <=> Pow2[h] >= N)
    BY <1>3, <2>1
  <2>4. ~(Pow2[h] >= N)
    BY <1>1, <2>1, <2>2
  <2>. QED BY <2>3, <2>4
<1>. DEFINE Level(h) == f[h] = [i \in 1 .. size(h) |-> f[h][i]]
            Right == {h \in Nat : h <= H => f[h] = g[h] /\ Level(h)}
<1>7. 0 \in Right
  <2>1. f[0] = g[0] /\ Level(0)
    BY <1>1, <1>3, <1>4, <1>5
  <2>. HIDE DEF Level
  <2>. QED BY <2>1
<1>8. ASSUME NEW h \in Nat, h < H, Level(h)
      PROVE  /\ f[h + 1] = Above(leaves, h + 1, f[h])
             /\ f[h + 1][1] = Hash(f[h][1], Evened(f[h])[2])
             /\ Level(h + 1) /\ Len(f[h]) > 1
  <2>. DEFINE level == f[h]
              s == size(h)
  <2>1. /\ s \in Nat /\ s > 1 /\ size(h + 1) = (s + 1) \div 2
        /\ h + 1 \in 1 .. N /\ (h + 1) - 1 = h
    <3>1. h \in 0 .. H - 1
      BY <1>2, <1>8
    <3>2. h + 1 \in 1 .. N /\ (h + 1) - 1 = h
      BY <1>1, <1>2, <1>8
    <3>. QED BY <1>3, <1>6, <3>1, <3>2
  <2>2. level = [i \in 1 .. s |-> level[i]]
    BY <1>8
  <2>3. f[h + 1] = Raised(level)
    BY <1>4, <2>1
  <2>. HIDE DEF level, s
  <2>4. Len(level) = s
    <3>. DEFINE S == {level[i] : i \in 1 .. s}
    <3>1. level \in [1 .. s -> S]
      <4>1. \A i \in 1 .. s : level[i] \in S
        OBVIOUS
      <4>. HIDE DEF S
      <4>. QED BY <2>2, <4>1
    <3>. HIDE DEF S
    <3>. QED BY <2>1, <3>1
  <2>5. Raised(level) = Paired(level)
    BY <2>1, <2>4 DEF Raised
  <2>6. /\ Paired(level) = Above(leaves, h + 1, level)
        /\ Paired(level)[1] = Hash(level[1], Evened(level)[2])
    <3>1. LevelSize(leaves, h) = s /\ LevelSize(leaves, h + 1) = (s + 1) \div 2
      BY <2>1 DEF size, s
    <3>. QED BY <2>1, <2>2, <3>1, PairedIs
  <2>7. Level(h + 1)
    <3>. DEFINE up == f[h + 1]
                m == size(h + 1)
    <3>1. up = Above(leaves, h + 1, level)
      BY <2>3, <2>5, <2>6
    <3>2. Above(leaves, h + 1, level) = [i \in 1 .. m |-> Above(leaves, h + 1, level)[i]]
      BY DEF Above, size
    <3>. HIDE DEF up, m
    <3>3. up = [i \in 1 .. m |-> up[i]]
      BY <3>1, <3>2
    <3>. QED BY <3>3 DEF up, m
  <2>. HIDE DEF Level
  <2>. QED BY <2>1, <2>3, <2>4, <2>5, <2>6, <2>7 DEF level
<1>9. ASSUME NEW h \in Right PROVE h + 1 \in Right
  <2>. SUFFICES ASSUME h + 1 <= H PROVE f[h + 1] = g[h + 1] /\ Level(h + 1)
    <3>. HIDE DEF Level
    <3>. QED OBVIOUS
  <2>1. h \in Nat /\ h < H /\ h <= H /\ h + 1 \in 1 .. H /\ (h + 1) - 1 = h
    BY <1>2
  <2>2. f[h] = g[h] /\ Level(h)
    <3>. HIDE DEF Level
    <3>. QED BY <2>1
  <2>. HIDE DEF Level
  <2>3. f[h + 1] = Above(leaves, h + 1, f[h]) /\ Level(h + 1)
    BY <1>8, <2>1, <2>2
  <2>4. g[h + 1] = Above(leaves, h + 1, g[h])
    BY <1>5, <2>1
  <2>. QED BY <2>2, <2>3, <2>4
<1>10. Right = Nat
  <2>1. Right \in SUBSET Nat
    OBVIOUS
  <2>. HIDE DEF Right
  <2>. QED BY <1>7, <1>9, <2>1, Induction
<1>11. \A h \in 0 .. H : f[h] = g[h] /\ Level(h)
  <2>. HIDE DEF Level
  <2>. QED BY <1>2, <1>10
<1>12. Len(f[H]) = 1
  <2>1. size(H) = 1 /\ H \in 0 .. H /\ H \in Nat
    <3>1. H \in Nat /\ H \in 0 .. H
      BY <1>2
    <3>2. size(H) = 1 <=> Pow2[H] >= N
      BY <1>3, <3>1
    <3>. QED BY <1>2, <3>1, <3>2
  <2>2. Level(H)
    <3>. HIDE DEF Level
    <3>. QED BY <1>11, <2>1
  <2>. DEFINE top == f[H]
              S == {top[1]}
  <2>3. top = [i \in 1 .. 1 |-> top[i]]
    BY <2>1, <2>2
  <2>. HIDE DEF top
  <2>4. top \in [1 .. 1 -> S]
    BY <2>3
  <2>. HIDE DEF S
  <2>5. Len(top) = 1
    BY <2>4
  <2>. QED BY <2>5 DEF top
<1>13. \A n \in H .. N : f[n] = f[H]
  <2>. DEFINE Stays == {k \in Nat : H + k <= N => f[H + k] = f[H]}
  <2>1. 0 \in Stays
    BY <1>2
  <2>2. ASSUME NEW k \in Stays PROVE k + 1 \in Stays
    <3>. SUFFICES ASSUME H + (k + 1) <= N PROVE f[H + (k + 1)] = f[H]
      OBVIOUS
    <3>1. H + (k + 1) \in 1 .. N /\ (H + (k + 1)) - 1 = H + k /\ H + k <= N
      BY <1>1, <1>2
    <3>2. f[H + k] = f[H]
      BY <3>1
    <3>3. f[H + (k + 1)] = Raised(f[H])
      BY <1>4, <3>1, <3>2
    <3>4. ~(Len(f[H]) > 1)
      BY <1>12
    <3>. QED BY <3>3, <3>4 DEF Raised
  <2>3. Stays = Nat
    <3>1. Stays \in SUBSET Nat
      OBVIOUS
    <3>. HIDE DEF Stays
    <3>. QED BY <2>1, <2>2, <3>1, Induction
  <2>4. ASSUME NEW n \in H .. N PROVE f[n] = f[H]
    <3>1. n - H \in Nat /\ H + (n - H) = n /\ n <= N
      BY <1>1, <1>2
    <3>2. n - H \in Stays
      <4>. HIDE DEF Stays
      <4>. QED BY <2>3, <3>1
    <3>. QED BY <3>1, <3>2
  <2>. QED BY <2>4
<1>14. MerkleRootFromLeaves(leaves) = f[H][1]
  <2>1. N \in H .. N
    BY <1>1, <1>2
  <2>. QED BY <1>4, <1>13, <2>1 DEF MerkleRootFromLeaves, N
<1>15. Node(leaves, H) = f[H][1]
  <2>1. H \in 0 .. H
    BY <1>2
  <2>2. f[H] = g[H]
    <3>. HIDE DEF Level
    <3>. QED BY <1>11, <2>1
  <2>. QED BY <1>5, <2>2
<1>16. Len(branch) = H /\ \A n \in 1 .. H : branch[n] = Evened(f[n - 1])[2]
  <2>. DEFINE below == {n \in DOMAIN f : Len(f[n]) > 1}
  <2>1. ASSUME NEW n \in 0 .. N PROVE Len(f[n]) > 1 <=> n \in 0 .. H - 1
    <3>1. CASE n \in 0 .. H - 1
      <4>1. n \in Nat /\ n < H /\ n \in 0 .. H
        BY <1>2, <3>1
      <4>. HIDE DEF Level
      <4>2. Level(n)
        BY <1>11, <4>1
      <4>. QED BY <1>8, <3>1, <4>1, <4>2
    <3>2. CASE ~(n \in 0 .. H - 1)
      <4>1. n \in H .. N
        BY <1>1, <1>2, <3>2
      <4>2. Len(f[n]) = 1
        BY <1>12, <1>13, <4>1
      <4>. QED BY <3>2, <4>2
    <3>. QED BY <3>1, <3>2
  <2>2. below = 0 .. H - 1
    <3>1. \A n \in 0 .. H - 1 : n \in 0 .. N
      BY <1>1, <1>2
    <3>. QED BY <1>4, <2>1, <3>1
  <2>3. Cardinality(below) = H
    <3>1. 0 \in Int /\ H - 1 \in Int
      BY <1>2
    <3>2. Cardinality(0 .. H - 1) = IF 0 > H - 1 THEN 0 ELSE (H - 1) - 0 + 1
      BY <3>1, FS_Interval
    <3>3. (IF 0 > H - 1 THEN 0 ELSE (H - 1) - 0 + 1) = H
      BY <1>2
    <3>4. Cardinality(0 .. H - 1) = H
      BY <3>2, <3>3
    <3>. HIDE DEF below
    <3>. QED BY <2>2, <3>4
  <2>. HIDE DEF below
  <2>4. branch = [n \in 1 .. H |-> Evened(f[n - 1])[2]]
    BY <1>4, <2>3 DEF MerkleBranchForCoinbase, below
  <2>. HIDE DEF branch
  <2>5. Len(branch) = H
    <3>. DEFINE S == {Evened(f[n - 1])[2] : n \in 1 .. H}
    <3>1. branch \in [1 .. H -> S]
      <4>1. \A n \in 1 .. H : Evened(f[n - 1])[2] \in S
        OBVIOUS
      <4>. HIDE DEF S
      <4>. QED BY <2>4, <4>1
    <3>2. H \in Nat
      BY <1>2
    <3>. HIDE DEF S
    <3>. QED BY <3>1, <3>2
  <2>. QED BY <2>4, <2>5
<1>. HIDE DEF branch
<1>17. PICK r : /\ r[0] = leaves[1] /\ \A n \in 1 .. H : r[n] = Hash(r[n - 1], branch[n])
                /\ MerkleRootFromBranch(leaves[1], branch) = r[H]
  <2>. DEFINE coinbase == leaves[1]
  <2>1. Len(branch) \in Nat
    BY <1>2, <1>16
  <2>. HIDE DEF coinbase
  <2>2. PICK r : Accumulates(r, coinbase, branch)
    BY <2>1, RootFromBranchIs
  <2>3. Len(branch) = H
    BY <1>16
  <2>4. /\ r[0] = coinbase /\ \A n \in 1 .. H : r[n] = Hash(r[n - 1], branch[n])
        /\ MerkleRootFromBranch(coinbase, branch) = r[H]
    BY <2>2, <2>3 DEF Accumulates
  <2>. QED BY <2>4 DEF coinbase
<1>. DEFINE First == {n \in Nat : n <= H => r[n] = f[n][1]}
<1>18. First = Nat
  <2>1. 0 \in First
    BY <1>4, <1>17
  <2>2. ASSUME NEW n \in First PROVE n + 1 \in First
    <3>. SUFFICES ASSUME n + 1 <= H PROVE r[n + 1] = f[n + 1][1]
      OBVIOUS
    <3>1. n \in Nat /\ n < H /\ n + 1 \in 1 .. H /\ (n + 1) - 1 = n /\ n \in 0 .. H /\ n <= H
      BY <1>2
    <3>2. r[n] = f[n][1]
      BY <3>1
    <3>. HIDE DEF Level, First
    <3>3. f[n + 1][1] = Hash(f[n][1], Evened(f[n])[2])
      BY <1>8, <1>11, <3>1
    <3>4. r[n + 1] = Hash(r[n], branch[n + 1]) /\ branch[n + 1] = Evened(f[n])[2]
      BY <1>16, <1>17, <3>1
    <3>. QED BY <3>2, <3>3, <3>4
  <2>3. First \in SUBSET Nat
    OBVIOUS
  <2>. HIDE DEF First
  <2>. QED BY <2>1, <2>2, <2>3, Induction
<1>19. r[H] = f[H][1]
  <2>1. H \in Nat /\ H <= H
    BY <1>2
  <2>. QED BY <1>18, <2>1
<1>. QED BY <1>14, <1>15, <1>17, <1>19 DEF BranchGivesRoot, branch, H

-----------------------------------------------------------------------------
(* SHA-256's buffer.                                                        *)

(* The bytes that can be in a block, blocks, and contexts.                  *)
PaddedBytes ==
    MessageBytes \cup {Marker, ZeroByte, Unwritten}
      \cup {LengthByte(length, k) : length \in Nat, k \in 1 .. LengthSize}
WholeBlock == [1 .. BlockSize -> PaddedBytes]
Contexts == [buffer : WholeBlock, used : 0 .. BlockSize, length : Nat, blocks : Seq(WholeBlock)]

(* The place of a block.                                                    *)
Base(k) == BlockSize * k

(* A context stands for a text: its blocks one after the other, and the     *)
(* used part of the buffer behind them.                                     *)
Holds(ctx, text) ==
    /\ ctx \in Contexts /\ text \in Seq(PaddedBytes)
    /\ Len(text) = Base(Len(ctx.blocks)) + ctx.used
    /\ \A k \in 1 .. Len(ctx.blocks), j \in 1 .. BlockSize :
         text[Base(k - 1) + j] = ctx.blocks[k][j]
    /\ \A j \in 1 .. ctx.used : text[Base(Len(ctx.blocks)) + j] = ctx.buffer[j]

(* Sequences of bytes are joined in any order.                              *)
LEMMA BytesAssociate ==
    ASSUME NEW s \in Seq(PaddedBytes), NEW t \in Seq(PaddedBytes), NEW u \in Seq(PaddedBytes)
    PROVE  (s \o t) \o u = s \o (t \o u)
BY ConcatAssociative

(* Blocks follow each other.                                                *)
LEMMA BaseIs ==
    /\ BlockSize \in Nat \ {0} /\ LengthSize \in Nat \ {0} /\ LengthSize < BlockSize
    /\ Base(0) = 0 /\ Base(1) = BlockSize
    /\ \A k \in Nat : Base(k) \in Nat
    /\ \A k, m \in Nat : Base(k + m) = Base(k) + Base(m)
    /\ \A k, m \in Nat : k <= m => Base(k) <= Base(m)
<1>1. BlockSize \in Nat \ {0} /\ LengthSize \in Nat \ {0} /\ LengthSize < BlockSize
  BY BlockAssumption
<1>2. BlockSize * 0 = 0 /\ BlockSize * 1 = BlockSize /\ \A k \in Nat : BlockSize * k \in Nat
  BY <1>1
<1>3. \A k, m \in Nat : BlockSize * (k + m) = BlockSize * k + BlockSize * m
  BY <1>1
<1>4. ASSUME NEW k \in Nat, NEW m \in Nat, k <= m PROVE BlockSize * k <= BlockSize * m
  <2>1. m - k \in Nat /\ k + (m - k) = m
    BY <1>4
  <2>2. BlockSize * m = BlockSize * k + BlockSize * (m - k)
    BY <1>3, <2>1
  <2>3. BlockSize * k \in Nat /\ BlockSize * (m - k) \in Nat
    BY <1>2, <2>1
  <2>. QED BY <2>2, <2>3
<1>. QED BY <1>1, <1>2, <1>3, <1>4 DEF Base

(* Bytes put behind the used part of the buffer are added to the text.      *)
LEMMA BufferGrows ==
    ASSUME NEW ctx, NEW text, Holds(ctx, text), NEW extra \in Seq(PaddedBytes),
           NEW new \in Contexts, new.blocks = ctx.blocks, new.used = ctx.used + Len(extra),
           \A j \in 1 .. ctx.used : new.buffer[j] = ctx.buffer[j],
           \A j \in 1 .. Len(extra) : new.buffer[ctx.used + j] = extra[j]
    PROVE  Holds(new, text \o extra)
<1>. DEFINE n == Len(ctx.blocks)
            L == Base(n)
            u == ctx.used
            e == Len(extra)
            S == PaddedBytes
<1>1. /\ text \in Seq(S) /\ Len(text) = L + u /\ u \in 0 .. BlockSize /\ n \in Nat /\ e \in Nat
      /\ \A k \in 1 .. n, j \in 1 .. BlockSize : text[Base(k - 1) + j] = ctx.blocks[k][j]
      /\ \A j \in 1 .. u : text[L + j] = ctx.buffer[j]
  BY LenProperties DEF Holds, Contexts
<1>2. L \in Nat /\ BlockSize \in Nat
  BY <1>1, BaseIs
<1>. HIDE DEF L, u, e, n, S
<1>3. text \o extra \in Seq(S) /\ Len(text \o extra) = L + u + e
  <2>1. extra \in Seq(S)
    BY DEF S
  <2>2. text \o extra \in Seq(S) /\ Len(text \o extra) = Len(text) + Len(extra)
    BY <1>1, <2>1, ConcatProperties
  <2>. QED BY <1>1, <2>2 DEF e
<1>4. /\ \A i \in 1 .. L + u : (text \o extra)[i] = text[i]
      /\ \A i \in 1 .. e : (text \o extra)[L + u + i] = extra[i]
  <2>1. \A i \in 1 .. Len(text) + Len(extra) :
          (text \o extra)[i] = IF i <= Len(text) THEN text[i] ELSE extra[i - Len(text)]
    <3>1. extra \in Seq(S)
      BY DEF S
    <3>. QED BY <1>1, <3>1, ConcatProperties
  <2>2. \A i \in 1 .. L + u + e :
          (text \o extra)[i] = IF i <= L + u THEN text[i] ELSE extra[i - (L + u)]
    BY <1>1, <2>1 DEF e
  <2>3. L + u \in Nat
    BY <1>1, <1>2
  <2>. DEFINE m == L + u
  <2>. HIDE DEF m
  <2>4. /\ \A i \in 1 .. m : i \in 1 .. m + e /\ i <= m
        /\ \A i \in 1 .. e : m + i \in 1 .. m + e /\ ~(m + i <= m) /\ (m + i) - m = i
    BY <1>1, <2>3 DEF m
  <2>. QED BY <2>2, <2>4 DEF m
<1>5. ASSUME NEW k \in 1 .. n, NEW j \in 1 .. BlockSize
      PROVE  (text \o extra)[Base(k - 1) + j] = ctx.blocks[k][j]
  <2>1. k - 1 \in Nat /\ k \in Nat /\ k <= n /\ (k - 1) + 1 = k
    BY <1>1
  <2>2. /\ Base(k - 1) \in Nat /\ Base(k) <= L /\ Base(k) \in Nat
        /\ Base(k) = Base(k - 1) + BlockSize
    <3>1. Base((k - 1) + 1) = Base(k - 1) + Base(1) /\ Base(1) = BlockSize
      BY <2>1, BaseIs
    <3>. QED BY <1>1, <2>1, <3>1, BaseIs DEF L
  <2>3. Base(k - 1) + j \in 1 .. L + u
    BY <1>1, <1>2, <2>2
  <2>. QED BY <1>1, <1>4, <2>3
<1>6. ASSUME NEW j \in 1 .. u + e PROVE (text \o extra)[L + j] = new.buffer[j]
  <2>1. CASE j <= u
    <3>1. j \in 1 .. u /\ L + j \in 1 .. L + u
      BY <1>1, <1>2, <2>1
    <3>. QED BY <1>1, <1>4, <3>1 DEF u
  <2>2. CASE ~(j <= u)
    <3>1. j - u \in 1 .. e /\ L + u + (j - u) = L + j /\ u + (j - u) = j
      BY <1>1, <1>2, <2>2
    <3>2. (text \o extra)[L + j] = extra[j - u]
      BY <1>4, <3>1
    <3>3. new.buffer[u + (j - u)] = extra[j - u]
      BY <3>1 DEF u, e
    <3>. QED BY <3>1, <3>2, <3>3
  <2>. QED BY <2>1, <2>2
<1>7. /\ Len(new.blocks) = n /\ new.used = u + e /\ new.blocks = ctx.blocks
      /\ L = Base(n) /\ S = PaddedBytes
  BY DEF n, u, e, L, S
<1>8. Len(text \o extra) = Base(Len(new.blocks)) + new.used
  <2>1. L + (u + e) = L + u + e
    BY <1>1, <1>2
  <2>. QED BY <1>3, <1>7, <2>1
<1>9. \A k \in 1 .. Len(new.blocks), j \in 1 .. BlockSize :
        (text \o extra)[Base(k - 1) + j] = new.blocks[k][j]
  BY <1>5, <1>7
<1>10. \A j \in 1 .. new.used : (text \o extra)[Base(Len(new.blocks)) + j] = new.buffer[j]
  BY <1>6, <1>7
<1>11. text \o extra \in Seq(PaddedBytes)
  BY <1>3, <1>7
<1>. QED BY <1>8, <1>9, <1>10, <1>11 DEF Holds

(* A full buffer that is compressed is the next block.                      *)
LEMMA BufferMoves ==
    ASSUME NEW ctx, NEW text, Holds(ctx, text), ctx.used = BlockSize
    PROVE  /\ Holds(Transformed(ctx), text) /\ Transformed(ctx).used = 0
           /\ Transformed(ctx).length = ctx.length
<1>. DEFINE n == Len(ctx.blocks)
            new == Transformed(ctx)
            blocks == Append(ctx.blocks, ctx.buffer)
<1>1. /\ ctx \in Contexts /\ text \in Seq(PaddedBytes) /\ Len(text) = Base(n) + BlockSize
      /\ n \in Nat /\ ctx.blocks \in Seq(WholeBlock) /\ ctx.buffer \in WholeBlock
      /\ \A k \in 1 .. n, j \in 1 .. BlockSize : text[Base(k - 1) + j] = ctx.blocks[k][j]
      /\ \A j \in 1 .. BlockSize : text[Base(n) + j] = ctx.buffer[j]
  BY LenProperties DEF Holds, Contexts
<1>2. /\ blocks \in Seq(WholeBlock) /\ Len(blocks) = n + 1 /\ blocks[n + 1] = ctx.buffer
      /\ \A k \in 1 .. n : blocks[k] = ctx.blocks[k]
  BY <1>1, AppendProperties
<1>3. new = [ctx EXCEPT !.blocks = blocks, !.used = 0]
  BY DEF Transformed
<1>. HIDE DEF n, new, blocks
<1>4. /\ new \in Contexts /\ new.blocks = blocks /\ new.used = 0 /\ new.length = ctx.length
  <2>1. 0 \in 0 .. BlockSize
    BY BaseIs
  <2>. QED BY <1>1, <1>2, <1>3, <2>1 DEF Contexts
<1>5. Base(n + 1) = Base(n) + BlockSize /\ Base(n + 1) \in Nat
  <2>1. n + 1 \in Nat /\ 1 \in Nat
    BY <1>1
  <2>2. Base(n + 1) = Base(n) + Base(1) /\ Base(1) = BlockSize
    BY <1>1, <2>1, BaseIs
  <2>. QED BY <2>1, <2>2, BaseIs
<1>6. Len(text) = Base(n + 1) + 0
  BY <1>1, <1>5
<1>7. ASSUME NEW k \in 1 .. n + 1, NEW j \in 1 .. BlockSize
      PROVE  text[Base(k - 1) + j] = blocks[k][j]
  <2>1. CASE k = n + 1
    <3>1. k - 1 = n
      BY <1>1, <2>1
    <3>. QED BY <1>1, <1>2, <2>1, <3>1
  <2>2. CASE k # n + 1
    <3>1. k \in 1 .. n
      BY <1>1, <2>2
    <3>. QED BY <1>1, <1>2, <3>1
  <2>. QED BY <2>1, <2>2
<1>8. Holds(new, text)
  <2>1. \A j \in 1 .. 0 : text[Base(n + 1) + j] = new.buffer[j]
    OBVIOUS
  <2>. QED BY <1>1, <1>2, <1>4, <1>6, <1>7, <2>1 DEF Holds
<1>. QED BY <1>4, <1>8 DEF new

(* What memcpy() puts into the buffer, and what it leaves alone.            *)
LEMMA CopiedIs ==
    ASSUME NEW buffer \in WholeBlock, NEW at \in Nat, NEW bytes \in Seq(PaddedBytes),
           at + Len(bytes) <= BlockSize
    PROVE  /\ Copied(buffer, at, bytes) \in WholeBlock
           /\ \A j \in 1 .. at : Copied(buffer, at, bytes)[j] = buffer[j]
           /\ \A j \in 1 .. Len(bytes) : Copied(buffer, at, bytes)[at + j] = bytes[j]
<1>. DEFINE new == Copied(buffer, at, bytes)
            e == Len(bytes)
<1>1. /\ e \in Nat /\ DOMAIN bytes = 1 .. e /\ BlockSize \in Nat
      /\ \A j \in 1 .. e : bytes[j] \in PaddedBytes
  BY LenProperties, ElementOfSeq, BaseIs
<1>2. /\ DOMAIN buffer = 1 .. BlockSize
      /\ \A j \in 1 .. BlockSize : buffer[j] \in PaddedBytes
  BY DEF WholeBlock
<1>3. new = [i \in 1 .. BlockSize |-> IF i - at \in 1 .. e THEN bytes[i - at] ELSE buffer[i]]
  BY <1>1, <1>2 DEF Copied
<1>. HIDE DEF new
<1>. HIDE DEF e
<1>4. new \in WholeBlock
  BY <1>1, <1>2, <1>3 DEF WholeBlock
<1>5. ASSUME NEW j \in 1 .. at PROVE new[j] = buffer[j]
  <2>1. j \in 1 .. BlockSize /\ ~(j - at \in 1 .. e)
    BY <1>1 DEF e
  <2>. QED BY <1>3, <2>1
<1>6. ASSUME NEW j \in 1 .. e PROVE new[at + j] = bytes[j]
  <2>1. at + j \in 1 .. BlockSize /\ (at + j) - at = j
    BY <1>1 DEF e
  <2>. QED BY <1>3, <2>1
<1>. QED BY <1>4, <1>5, <1>6 DEF new, e

(* What memset() puts into the buffer, and what it leaves alone.            *)
LEMMA ZeroedIs ==
    ASSUME NEW buffer \in WholeBlock, NEW from \in Nat, NEW to \in Nat, to <= BlockSize, from <= to
    PROVE  /\ Zeroed(buffer, from, to) \in WholeBlock
           /\ \A j \in 1 .. from : Zeroed(buffer, from, to)[j] = buffer[j]
           /\ \A j \in from + 1 .. to : Zeroed(buffer, from, to)[j] = ZeroByte
<1>. DEFINE new == Zeroed(buffer, from, to)
<1>1. BlockSize \in Nat /\ ZeroByte \in PaddedBytes
  BY BaseIs DEF PaddedBytes
<1>2. /\ DOMAIN buffer = 1 .. BlockSize
      /\ \A j \in 1 .. BlockSize : buffer[j] \in PaddedBytes
  BY DEF WholeBlock
<1>3. new = [i \in 1 .. BlockSize |-> IF i \in from + 1 .. to THEN ZeroByte ELSE buffer[i]]
  BY <1>2 DEF Zeroed
<1>. HIDE DEF new
<1>4. new \in WholeBlock
  BY <1>1, <1>2, <1>3 DEF WholeBlock
<1>5. \A j \in 1 .. from : j \in 1 .. BlockSize /\ ~(j \in from + 1 .. to)
  BY <1>1
<1>6. \A j \in from + 1 .. to : j \in 1 .. BlockSize
  BY <1>1
<1>. QED BY <1>3, <1>4, <1>5, <1>6 DEF new

(* Bytes that the buffer has room for are copied behind its used part.      *)
Grown(ctx, extra) ==
    [ctx EXCEPT !.buffer = Copied(@, ctx.used, extra), !.used = @ + Len(extra)]

(* They are added to the text.                                              *)
LEMMA CopyGrows ==
    ASSUME NEW ctx, NEW text, Holds(ctx, text), NEW extra \in Seq(PaddedBytes),
           ctx.used + Len(extra) <= BlockSize
    PROVE  /\ Holds(Grown(ctx, extra), text \o extra)
           /\ Grown(ctx, extra).used = ctx.used + Len(extra)
           /\ Grown(ctx, extra).length = ctx.length
<1>. DEFINE new == Grown(ctx, extra)
<1>1. /\ ctx \in Contexts /\ ctx.used \in Nat /\ ctx.buffer \in WholeBlock
      /\ Len(extra) \in Nat /\ BlockSize \in Nat
  BY LenProperties, BaseIs DEF Holds, Contexts
<1>2. ctx.used + Len(extra) \in 0 .. BlockSize
  BY <1>1
<1>. DEFINE buffer == Copied(ctx.buffer, ctx.used, extra)
<1>3. /\ buffer \in WholeBlock
      /\ \A j \in 1 .. ctx.used : buffer[j] = ctx.buffer[j]
      /\ \A j \in 1 .. Len(extra) : buffer[ctx.used + j] = extra[j]
  <2>. HIDE DEF buffer
  <2>. QED BY <1>1, CopiedIs DEF buffer
<1>4. new = [ctx EXCEPT !.buffer = buffer, !.used = ctx.used + Len(extra)]
  BY DEF Grown
<1>. HIDE DEF buffer, new
<1>5. /\ new \in Contexts /\ new.buffer = buffer /\ new.blocks = ctx.blocks
      /\ new.used = ctx.used + Len(extra) /\ new.length = ctx.length
  BY <1>1, <1>2, <1>3, <1>4 DEF Contexts
<1>6. Holds(new, text \o extra)
  BY <1>3, <1>5, BufferGrows
<1>. QED BY <1>5, <1>6 DEF new

(* A number of bytes is one of whole blocks and a rest.                     *)
LEMMA WholeBlocksIs ==
    ASSUME NEW bytes \in Seq(PaddedBytes)
    PROVE  /\ WholeBlocks(bytes) \in Nat
           /\ Len(bytes) - Base(WholeBlocks(bytes)) \in 0 .. BlockSize - 1
<1>1. Len(bytes) \in Nat /\ BlockSize \in Nat \ {0}
  BY LenProperties, BaseIs
<1>. DEFINE e == Len(bytes)
            b == BlockSize
            q == e \div b
            m == e % b
            x == Base(WholeBlocks(bytes))
<1>2. e \in Int /\ e \in Nat /\ b \in Nat \ {0}
  BY <1>1
<1>3. q \in Int /\ m \in 0 .. b - 1 /\ e = b * q + m
  <2>. HIDE DEF e, b
  <2>. QED BY <1>2, DivMod
<1>4. WholeBlocks(bytes) = q /\ x = b * q
  BY DEF WholeBlocks, Base
<1>. HIDE DEF e, b, q, m, x
<1>5. q \in Nat
  <2>1. CASE q < 0
    <3>1. q <= -1
      BY <1>3, <2>1
    <3>2. b * q <= -b
      BY <1>2, <1>3, <3>1
    <3>. DEFINE p == b * q
    <3>3. p \in Int
      BY <1>2, <1>3
    <3>4. p <= -b /\ e = p + m
      BY <1>3, <3>2
    <3>. HIDE DEF p
    <3>. QED BY <1>2, <1>3, <3>3, <3>4
  <2>. QED BY <1>3, <2>1
<1>6. x \in Nat /\ e = x + m
  BY <1>2, <1>3, <1>4, <1>5
<1>7. e - x = m
  BY <1>2, <1>3, <1>6
<1>8. Len(bytes) - x \in 0 .. BlockSize - 1
  BY <1>3, <1>7 DEF e, b
<1>. QED BY <1>4, <1>5, <1>8 DEF x

(* Places add up.                                                           *)
LEMMA BaseAdds ==
    ASSUME NEW k \in Nat, NEW m \in Nat
    PROVE  Base(k + m) = Base(k) + Base(m) /\ Base(k + m) \in Nat
<1>1. k + m \in Nat
  OBVIOUS
<1>. QED BY <1>1, BaseIs

(* Whole blocks are compressed from where they are, and the rest is copied  *)
(* to the buffer, which must be empty.                                      *)
LEMMA BlocksKeep ==
    ASSUME NEW ctx, NEW text, Holds(ctx, text), ctx.used = 0, NEW bytes \in Seq(PaddedBytes)
    PROVE  /\ Holds(Blocks(ctx, bytes), text \o bytes)
           /\ Blocks(ctx, bytes).used < BlockSize
           /\ Blocks(ctx, bytes).length = ctx.length
<1>. DEFINE n == Len(ctx.blocks)
            w == WholeBlocks(bytes)
            r == Len(bytes) - Base(w)
            rest == SubSeq(bytes, Base(w) + 1, Len(bytes))
            whole == [k \in 1 .. w |-> SubSeq(bytes, Base(k - 1) + 1, Base(k))]
            all == ctx.blocks \o whole
            buffer == Copied(ctx.buffer, 0, rest)
            new == Blocks(ctx, bytes)
            out == text \o bytes
<1>1. /\ ctx \in Contexts /\ text \in Seq(PaddedBytes) /\ Len(text) = Base(n)
      /\ n \in Nat /\ ctx.blocks \in Seq(WholeBlock) /\ ctx.buffer \in WholeBlock
      /\ \A k \in 1 .. n, j \in 1 .. BlockSize : text[Base(k - 1) + j] = ctx.blocks[k][j]
  <2>1. /\ ctx \in Contexts /\ text \in Seq(PaddedBytes) /\ Len(text) = Base(n) + 0
        /\ \A k \in 1 .. n, j \in 1 .. BlockSize : text[Base(k - 1) + j] = ctx.blocks[k][j]
    BY DEF Holds
  <2>2. n \in Nat /\ ctx.blocks \in Seq(WholeBlock) /\ ctx.buffer \in WholeBlock
    BY <2>1, LenProperties DEF Contexts
  <2>3. Base(n) \in Nat
    BY <2>2, BaseIs
  <2>. QED BY <2>1, <2>2, <2>3
<1>2. /\ w \in Nat /\ r \in 0 .. BlockSize - 1 /\ Len(bytes) \in Nat
      /\ \A j \in 1 .. Len(bytes) : bytes[j] \in PaddedBytes
      /\ BlockSize \in Nat \ {0} /\ Base(w) \in Nat /\ Len(bytes) = Base(w) + r
      /\ Base(n) \in Nat
  <2>1. w \in Nat /\ r \in 0 .. BlockSize - 1
    BY WholeBlocksIs
  <2>2. Base(w) \in Nat /\ BlockSize \in Nat \ {0} /\ Base(n) \in Nat
    BY <1>1, <2>1, BaseIs
  <2>3. Len(bytes) \in Nat /\ \A j \in 1 .. Len(bytes) : bytes[j] \in PaddedBytes
    BY LenProperties, ElementOfSeq
  <2>. QED BY <2>1, <2>2, <2>3
<1>3. new = [ctx EXCEPT !.blocks = all, !.buffer = buffer,
                        !.used = IF rest = <<>> THEN ctx.used ELSE Len(rest)]
  BY DEF Blocks, Base
<1>. HIDE DEF n, w, new
<1>4. rest \in Seq(PaddedBytes) /\ Len(rest) = r /\ \A i \in 1 .. r : rest[i] = bytes[Base(w) + i]
  <2>. DEFINE a == Base(w) + 1
              z == Len(bytes)
  <2>1. a \in Int /\ z \in Int /\ \A i \in a .. z : bytes[i] \in PaddedBytes
    BY <1>2
  <2>. HIDE DEF a, z
  <2>2. /\ SubSeq(bytes, a, z) \in Seq(PaddedBytes)
        /\ Len(SubSeq(bytes, a, z)) = IF a <= z THEN z - a + 1 ELSE 0
        /\ \A i \in 1 .. z - a + 1 : SubSeq(bytes, a, z)[i] = bytes[a + i - 1]
    BY <2>1, SubSeqProperties
  <2>3. /\ z - a + 1 = r /\ (a <= z <=> r # 0)
        /\ \A i \in 1 .. r : a + i - 1 = Base(w) + i
    BY <1>2 DEF a, z
  <2>4. rest = SubSeq(bytes, a, z)
    BY DEF a, z
  <2>5. r \in Nat
    BY <1>2
  <2>. HIDE DEF rest, r
  <2>6. rest \in Seq(PaddedBytes)
    BY <2>2, <2>4
  <2>7. Len(rest) = r
    <3>1. Len(rest) = IF a <= z THEN r ELSE 0
      BY <2>2, <2>3, <2>4
    <3>. QED BY <2>3, <3>1
  <2>8. \A i \in 1 .. r : rest[i] = bytes[Base(w) + i]
    <3>1. \A i \in 1 .. r : rest[i] = bytes[a + i - 1]
      BY <2>2, <2>3, <2>4
    <3>. QED BY <2>3, <3>1
  <2>. QED BY <2>6, <2>7, <2>8
<1>5. ASSUME NEW k \in 1 .. w
      PROVE  /\ SubSeq(bytes, Base(k - 1) + 1, Base(k)) \in WholeBlock
             /\ \A j \in 1 .. BlockSize :
                  SubSeq(bytes, Base(k - 1) + 1, Base(k))[j] = bytes[Base(k - 1) + j]
  <2>1. k - 1 \in Nat /\ k \in Nat /\ k <= w /\ (k - 1) + 1 = k
    BY <1>2
  <2>2. /\ Base(k - 1) \in Nat /\ Base(k) \in Nat /\ Base(k) <= Base(w)
        /\ Base(k) = Base(k - 1) + BlockSize
    <3>1. Base((k - 1) + 1) = Base(k - 1) + Base(1) /\ Base(1) = BlockSize
      BY <2>1, BaseIs
    <3>. QED BY <1>2, <2>1, <3>1, BaseIs
  <2>. DEFINE a == Base(k - 1) + 1
              z == Base(k)
  <2>3. a \in Int /\ z \in Int /\ \A i \in a .. z : bytes[i] \in PaddedBytes
    <3>1. a \in Nat \ {0} /\ z \in Nat
      BY <2>2
    <3>2. z <= Len(bytes)
      <4>1. Base(w) <= Len(bytes)
        BY <1>2
      <4>. QED BY <1>2, <2>2, <4>1
    <3>. HIDE DEF a, z
    <3>3. \A i \in a .. z : i \in 1 .. Len(bytes)
      BY <1>2, <3>1, <3>2
    <3>. QED BY <1>2, <3>1, <3>3
  <2>4. a <= z /\ z - a + 1 = BlockSize /\ \A i \in 1 .. BlockSize : a + i - 1 = Base(k - 1) + i
    <3>. DEFINE b == Base(k - 1)
    <3>1. b \in Nat /\ BlockSize \in Nat \ {0} /\ a = b + 1 /\ z = b + BlockSize
      BY <1>2, <2>2
    <3>. HIDE DEF a, z, b
    <3>2. a <= z /\ z - a + 1 = BlockSize /\ \A i \in 1 .. BlockSize : a + i - 1 = b + i
      BY <3>1
    <3>. QED BY <3>2 DEF b
  <2>. HIDE DEF a, z
  <2>5. /\ SubSeq(bytes, a, z) \in Seq(PaddedBytes)
        /\ Len(SubSeq(bytes, a, z)) = IF a <= z THEN z - a + 1 ELSE 0
        /\ \A i \in 1 .. z - a + 1 : SubSeq(bytes, a, z)[i] = bytes[a + i - 1]
    BY <2>3, SubSeqProperties
  <2>6. SubSeq(bytes, a, z) \in [1 .. BlockSize -> PaddedBytes]
    BY <2>4, <2>5, LenProperties
  <2>. QED BY <2>4, <2>5, <2>6 DEF a, z, WholeBlock
<1>. HIDE DEF rest, r
<1>6. /\ whole \in Seq(WholeBlock) /\ Len(whole) = w
      /\ \A k \in 1 .. w, j \in 1 .. BlockSize : whole[k][j] = bytes[Base(k - 1) + j]
  <2>1. whole \in [1 .. w -> WholeBlock]
    BY <1>5
  <2>2. \A k \in 1 .. w : whole[k] = SubSeq(bytes, Base(k - 1) + 1, Base(k))
    OBVIOUS
  <2>. HIDE DEF whole
  <2>3. whole \in Seq(WholeBlock) /\ Len(whole) = w
    <3>. DEFINE S == WholeBlock
    <3>1. whole \in [1 .. w -> S] /\ w \in Nat
      BY <1>2, <2>1
    <3>. HIDE DEF S
    <3>2. whole \in Seq(S) /\ Len(whole) = w
      BY <3>1
    <3>. QED BY <3>2 DEF S
  <2>4. ASSUME NEW k \in 1 .. w, NEW j \in 1 .. BlockSize
        PROVE  whole[k][j] = bytes[Base(k - 1) + j]
    BY <1>5, <2>2
  <2>. QED BY <2>3, <2>4
<1>. HIDE DEF whole
<1>7. /\ all \in Seq(WholeBlock) /\ Len(all) = n + w
      /\ \A k \in 1 .. n : all[k] = ctx.blocks[k]
      /\ \A k \in 1 .. w : all[n + k] = whole[k]
  <2>1. /\ all \in Seq(WholeBlock) /\ Len(all) = n + w
        /\ \A k \in 1 .. n + w : all[k] = IF k <= n THEN ctx.blocks[k] ELSE whole[k - n]
    <3>1. Len(ctx.blocks) = n
      BY DEF n
    <3>2. /\ all \in Seq(WholeBlock) /\ Len(all) = Len(ctx.blocks) + Len(whole)
          /\ \A k \in 1 .. Len(ctx.blocks) + Len(whole) :
               all[k] = IF k <= Len(ctx.blocks) THEN ctx.blocks[k]
                                                ELSE whole[k - Len(ctx.blocks)]
      <4>. DEFINE S == WholeBlock
                  a == ctx.blocks
      <4>1. a \in Seq(S) /\ whole \in Seq(S)
        BY <1>1, <1>6
      <4>. HIDE DEF S, a, all
      <4>2. /\ a \o whole \in Seq(S) /\ Len(a \o whole) = Len(a) + Len(whole)
            /\ \A k \in 1 .. Len(a) + Len(whole) :
                 (a \o whole)[k] = IF k <= Len(a) THEN a[k] ELSE whole[k - Len(a)]
        BY <4>1, ConcatProperties
      <4>. QED BY <4>2 DEF S, a, all
    <3>. HIDE DEF all
    <3>. QED BY <1>6, <3>1, <3>2
  <2>. HIDE DEF all
  <2>2. /\ \A k \in 1 .. n : k \in 1 .. n + w /\ k <= n
        /\ \A k \in 1 .. w : n + k \in 1 .. n + w /\ ~(n + k <= n) /\ (n + k) - n = k
    BY <1>1, <1>2
  <2>. QED BY <2>1, <2>2
<1>. HIDE DEF all
<1>8. /\ buffer \in WholeBlock /\ \A j \in 1 .. r : buffer[j] = rest[j]
  <2>1. 0 \in Nat /\ 0 + Len(rest) <= BlockSize
    BY <1>2, <1>4
  <2>. HIDE DEF buffer
  <2>2. buffer \in WholeBlock /\ \A j \in 1 .. Len(rest) : buffer[0 + j] = rest[j]
    BY <1>1, <1>4, <2>1, CopiedIs DEF buffer
  <2>3. \A j \in 1 .. r : 0 + j = j
    BY <1>2
  <2>. QED BY <1>4, <2>2, <2>3
<1>. HIDE DEF buffer
<1>9. (IF rest = <<>> THEN ctx.used ELSE Len(rest)) = r
  <2>1. rest = <<>> => r = 0
    BY <1>4, EmptySeq
  <2>. QED BY <1>4, <2>1
<1>10. /\ new \in Contexts /\ new.blocks = all /\ new.buffer = buffer /\ new.used = r
       /\ new.length = ctx.length
  <2>1. r \in 0 .. BlockSize
    BY <1>2
  <2>2. new = [ctx EXCEPT !.blocks = all, !.buffer = buffer, !.used = r]
    BY <1>3, <1>9
  <2>. QED BY <1>1, <1>7, <1>8, <2>1, <2>2 DEF Contexts
<1>11. /\ out \in Seq(PaddedBytes) /\ Len(out) = Base(n) + Len(bytes)
       /\ \A i \in 1 .. Base(n) : out[i] = text[i]
       /\ \A i \in 1 .. Len(bytes) : out[Base(n) + i] = bytes[i]
  <2>. DEFINE L == Base(n)
              e == Len(bytes)
  <2>1. /\ out \in Seq(PaddedBytes) /\ Len(out) = Len(text) + Len(bytes)
        /\ \A i \in 1 .. Len(text) + Len(bytes) :
             out[i] = IF i <= Len(text) THEN text[i] ELSE bytes[i - Len(text)]
    BY <1>1, ConcatProperties
  <2>. HIDE DEF out
  <2>2. /\ out \in Seq(PaddedBytes) /\ Len(out) = L + e
        /\ \A i \in 1 .. L + e : out[i] = IF i <= L THEN text[i] ELSE bytes[i - L]
    BY <1>1, <2>1
  <2>3. L \in Nat /\ e \in Nat
    BY <1>2
  <2>. HIDE DEF L, e
  <2>4. /\ \A i \in 1 .. L : i \in 1 .. L + e /\ i <= L
        /\ \A i \in 1 .. e : L + i \in 1 .. L + e /\ ~(L + i <= L) /\ (L + i) - L = i
    BY <2>3
  <2>5. /\ out \in Seq(PaddedBytes) /\ Len(out) = L + e
        /\ \A i \in 1 .. L : out[i] = text[i]
        /\ \A i \in 1 .. e : out[L + i] = bytes[i]
    BY <2>2, <2>4
  <2>. QED BY <2>5 DEF L, e
<1>. HIDE DEF out
<1>12. Base(n + w) = Base(n) + Base(w) /\ Base(n + w) \in Nat
  BY <1>1, <1>2, BaseAdds
<1>13. Len(out) = Base(n + w) + r
  BY <1>2, <1>11, <1>12
<1>14. ASSUME NEW k \in 1 .. n + w, NEW j \in 1 .. BlockSize
       PROVE  out[Base(k - 1) + j] = all[k][j]
  <2>1. k \in Nat /\ k - 1 \in Nat /\ (k - 1) + 1 = k
    BY <1>1, <1>2
  <2>2. Base(k) = Base(k - 1) + BlockSize /\ Base(k - 1) \in Nat
    <3>1. Base((k - 1) + 1) = Base(k - 1) + Base(1) /\ Base(1) = BlockSize
      BY <2>1, BaseIs
    <3>. QED BY <2>1, <3>1, BaseIs
  <2>3. CASE k <= n
    <3>1. k \in 1 .. n /\ Base(k) <= Base(n)
      BY <1>1, <2>1, <2>3, BaseIs
    <3>2. Base(k - 1) + j \in 1 .. Base(n)
      BY <1>2, <2>2, <3>1
    <3>3. out[Base(k - 1) + j] = text[Base(k - 1) + j]
      BY <1>1, <1>11, <3>2
    <3>4. text[Base(k - 1) + j] = ctx.blocks[k][j]
      BY <1>1, <3>1
    <3>5. all[k] = ctx.blocks[k]
      BY <1>7, <3>1
    <3>. QED BY <3>3, <3>4, <3>5
  <2>4. CASE ~(k <= n)
    <3>. DEFINE m == k - n
    <3>1. m \in 1 .. w /\ n + m = k /\ m - 1 \in Nat /\ n + (m - 1) = k - 1 /\ m \in Nat /\ m <= w
          /\ (m - 1) + 1 = m
      BY <1>1, <1>2, <2>4
    <3>. HIDE DEF m
    <3>2. Base(k - 1) = Base(n) + Base(m - 1) /\ Base(m - 1) \in Nat
      <4>1. Base(n + (m - 1)) = Base(n) + Base(m - 1)
        BY <1>1, <3>1, BaseAdds
      <4>. QED BY <3>1, <4>1, BaseIs
    <3>3. Base(m) = Base(m - 1) + BlockSize /\ Base(m) <= Base(w) /\ Base(m) \in Nat
      <4>1. Base((m - 1) + 1) = Base(m - 1) + Base(1) /\ Base(1) = BlockSize
        BY <3>1, BaseIs
      <4>. QED BY <1>2, <3>1, <4>1, BaseIs
    <3>4. /\ Base(m - 1) + j \in 1 .. Len(bytes)
          /\ Base(n) + (Base(m - 1) + j) = Base(k - 1) + j
      BY <1>2, <3>2, <3>3
    <3>5. out[Base(k - 1) + j] = bytes[Base(m - 1) + j]
      BY <1>11, <3>4
    <3>. QED BY <1>6, <1>7, <3>1, <3>5
  <2>. QED BY <2>3, <2>4
<1>15. ASSUME NEW j \in 1 .. r PROVE out[Base(n + w) + j] = buffer[j]
  <2>1. /\ Base(w) + j \in 1 .. Len(bytes)
        /\ Base(n) + (Base(w) + j) = Base(n + w) + j
    BY <1>2, <1>12
  <2>. QED BY <1>4, <1>8, <1>11, <2>1
<1>16. Holds(new, out)
  BY <1>7, <1>10, <1>11, <1>13, <1>14, <1>15 DEF Holds
<1>. QED BY <1>2, <1>10, <1>16 DEF new, out

(* The less of two.                                                         *)
LEMMA MinIs ==
    ASSUME NEW a \in Int, NEW b \in Int
    PROVE  Min({a, b}) = IF a <= b THEN a ELSE b
<1>. DEFINE least == IF a <= b THEN a ELSE b
<1>1. least \in {a, b} /\ \A y \in {a, b} : least <= y
  OBVIOUS
<1>2. \A x \in {a, b} : (\A y \in {a, b} : x <= y) => x = least
  OBVIOUS
<1>3. Min({a, b}) \in {a, b} /\ \A y \in {a, b} : Min({a, b}) <= y
  BY <1>1 DEF Min
<1>. QED BY <1>2, <1>3

(* Counting bytes leaves the text alone.                                    *)
LEMMA CountedHolds ==
    ASSUME NEW ctx, NEW text, Holds(ctx, text), NEW more \in Nat,
           NEW new, new = [ctx EXCEPT !.length = @ + more]
    PROVE  /\ Holds(new, text) /\ new.length = ctx.length + more /\ new.used = ctx.used
           /\ new.buffer = ctx.buffer /\ new.blocks = ctx.blocks
<1>1. ctx \in Contexts
  BY DEF Holds
<1>2. /\ new \in Contexts /\ new.length = ctx.length + more /\ new.used = ctx.used
      /\ new.buffer = ctx.buffer /\ new.blocks = ctx.blocks
  <2>1. ctx.length + more \in Nat
    BY <1>1 DEF Contexts
  <2>. QED BY <1>1, <2>1 DEF Contexts
<1>. QED BY <1>2 DEF Holds

(* update() puts the bytes behind the text, and leaves room in the buffer.  *)
LEMMA UpdateKeeps ==
    ASSUME NEW ctx, NEW text, Holds(ctx, text), ctx.used < BlockSize,
           NEW bytes \in Seq(PaddedBytes)
    PROVE  /\ Holds(Update(ctx, bytes), text \o bytes)
           /\ Update(ctx, bytes).used < BlockSize
           /\ Update(ctx, bytes).length = ctx.length + Len(bytes)
<1>. DEFINE e == Len(bytes)
            counted == [ctx EXCEPT !.length = @ + e]
            room == BlockSize - ctx.used
            take == IF e <= room THEN e ELSE room
            extra == SubSeq(bytes, 1, take)
            rest == SubSeq(bytes, room + 1, e)
            filled == Fill(counted, bytes)
<1>1. /\ e \in Nat /\ BlockSize \in Nat /\ ctx.used \in Nat /\ room \in Nat /\ room >= 1
      /\ text \in Seq(PaddedBytes)
  <2>1. ctx \in Contexts /\ text \in Seq(PaddedBytes)
    BY DEF Holds
  <2>2. e \in Nat
    BY LenProperties
  <2>3. BlockSize \in Nat
    BY BaseIs
  <2>4. ctx.used \in 0 .. BlockSize
    BY <2>1 DEF Contexts
  <2>. HIDE DEF e
  <2>. QED BY <2>1, <2>2, <2>3, <2>4
<1>2. /\ Holds(counted, text) /\ counted.length = ctx.length + e /\ counted.used = ctx.used
      /\ counted.buffer = ctx.buffer
  <2>. HIDE DEF e, counted
  <2>. QED BY <1>1, CountedHolds DEF counted
<1>3. Update(ctx, bytes) =
        IF ctx.used = 0 THEN Blocks(counted, bytes)
        ELSE IF filled.used < BlockSize THEN filled
        ELSE Blocks(Transformed(filled), rest)
  BY DEF Update
<1>. HIDE DEF e, counted, filled
<1>4. take \in 0 .. e /\ take \in Nat
  BY <1>1
<1>. HIDE DEF room
<1>5. extra \in Seq(PaddedBytes) /\ Len(extra) = take
  <2>1. \A i \in 1 .. take : bytes[i] \in PaddedBytes
    <3>1. \A i \in 1 .. take : i \in 1 .. Len(bytes)
      BY <1>1, <1>4 DEF e
    <3>. QED BY <3>1, ElementOfSeq
  <2>. HIDE DEF take
  <2>2. take \in Int /\ 1 \in Int
    BY <1>4
  <2>3. extra \in Seq(PaddedBytes) /\ Len(extra) = IF 1 <= take THEN take - 1 + 1 ELSE 0
    BY <2>1, <2>2, SubSeqProperties
  <2>. HIDE DEF extra
  <2>. QED BY <1>4, <2>3
<1>6. filled = Grown(counted, extra)
  <2>1. Min({e, room}) = take
    BY <1>1, MinIs
  <2>2. filled = LET t == Min({e, BlockSize - counted.used})
                 IN  [counted EXCEPT !.buffer = Copied(@, counted.used, SubSeq(bytes, 1, t)),
                                     !.used = @ + t]
    BY DEF filled, Fill, e
  <2>3. BlockSize - counted.used = room
    BY <1>2 DEF room
  <2>4. filled = [counted EXCEPT !.buffer = Copied(@, counted.used, extra), !.used = @ + take]
    BY <2>1, <2>2, <2>3
  <2>. QED BY <1>5, <2>4 DEF Grown
<1>. HIDE DEF extra, rest
<1>7. /\ Holds(filled, text \o extra) /\ filled.used = ctx.used + take
      /\ filled.length = ctx.length + e
  <2>1. counted.used + Len(extra) <= BlockSize
    BY <1>1, <1>2, <1>5 DEF room
  <2>2. /\ Holds(filled, text \o extra) /\ filled.used = counted.used + Len(extra)
        /\ filled.length = counted.length
    BY <1>2, <1>5, <1>6, <2>1, CopyGrows
  <2>. QED BY <1>2, <1>5, <2>2
<1>8. CASE ctx.used = 0
  <2>1. /\ Holds(Blocks(counted, bytes), text \o bytes) /\ Blocks(counted, bytes).used < BlockSize
        /\ Blocks(counted, bytes).length = counted.length
    BY <1>2, <1>8, BlocksKeep
  <2>. QED BY <1>2, <1>3, <1>8, <2>1 DEF e
<1>9. CASE ctx.used # 0 /\ e < room
  <2>1. take = e /\ filled.used < BlockSize
    BY <1>1, <1>7, <1>9 DEF room
  <2>2. extra = bytes
    <3>1. extra = SubSeq(bytes, 1, Len(bytes))
      BY <2>1 DEF extra, e
    <3>. QED BY <3>1, SubSeqFull
  <2>. QED BY <1>3, <1>7, <1>9, <2>1, <2>2 DEF e
<1>10. CASE ctx.used # 0 /\ ~(e < room)
  <2>1. take = room /\ filled.used = BlockSize /\ room \in 0 .. e
    BY <1>1, <1>7, <1>10 DEF room
  <2>2. /\ Holds(Transformed(filled), text \o extra) /\ Transformed(filled).used = 0
        /\ Transformed(filled).length = ctx.length + e
    BY <1>7, <2>1, BufferMoves
  <2>3. rest \in Seq(PaddedBytes) /\ extra \o rest = bytes
    <3>1. \A i \in room + 1 .. e : bytes[i] \in PaddedBytes
      <4>1. \A i \in room + 1 .. e : i \in 1 .. Len(bytes)
        BY <1>1 DEF e
      <4>. QED BY <4>1, ElementOfSeq
    <3>2. rest \in Seq(PaddedBytes)
      <4>1. room + 1 \in Int /\ e \in Int
        BY <1>1
      <4>2. SubSeq(bytes, room + 1, e) \in Seq(PaddedBytes)
        BY <3>1, <4>1, SubSeqProperties
      <4>. QED BY <4>2 DEF rest
    <3>3. SubSeq(bytes, 1, room) \o SubSeq(bytes, room + 1, Len(bytes))
            = SubSeq(bytes, 1, Len(bytes))
      <4>1. /\ 1 \in 1 .. Len(bytes) + 1 /\ room \in 1 - 1 .. Len(bytes)
            /\ Len(bytes) \in room .. Len(bytes)
        BY <1>1, <2>1 DEF e
      <4>. QED BY <4>1, ConcatAdjacentSubSeq
    <3>4. SubSeq(bytes, 1, Len(bytes)) = bytes
      BY SubSeqFull
    <3>5. extra = SubSeq(bytes, 1, room) /\ rest = SubSeq(bytes, room + 1, Len(bytes))
      BY <2>1 DEF extra, rest, e
    <3>. QED BY <3>2, <3>3, <3>4, <3>5
  <2>. DEFINE moved == Transformed(filled)
              last == Blocks(moved, rest)
  <2>4. /\ Holds(last, (text \o extra) \o rest) /\ last.used < BlockSize
        /\ last.length = moved.length
    <3>. HIDE DEF moved
    <3>1. Holds(moved, text \o extra) /\ moved.used = 0
      BY <2>2 DEF moved
    <3>. QED BY <2>3, <3>1, BlocksKeep
  <2>5. (text \o extra) \o rest = text \o bytes
    <3>1. text \in Seq(PaddedBytes) /\ extra \in Seq(PaddedBytes) /\ rest \in Seq(PaddedBytes)
      BY <1>1, <1>5, <2>3
    <3>2. (text \o extra) \o rest = text \o (extra \o rest)
      BY <3>1, BytesAssociate
    <3>. QED BY <2>3, <3>2
  <2>6. Update(ctx, bytes) = last
    BY <1>1, <1>3, <1>10, <2>1
  <2>. QED BY <2>2, <2>4, <2>5, <2>6 DEF e
<1>. QED BY <1>8, <1>9, <1>10

(* What the context goes through, one call of update() after the other.     *)
LEMMA UpdatedIs ==
    ASSUME NEW parts, Len(parts) \in Nat
    PROVE  \E f : /\ f[0] = InitialContext
                  /\ \A n \in 1 .. Len(parts) : f[n] = Update(f[n - 1], parts[n])
                  /\ Updated(parts) = f[Len(parts)]
<1>. DEFINE s0 == InitialContext
            N == Len(parts)
            Step(n, last) == Update(last, parts[n])
            Good(k, f) == f = [n \in 0 .. k |-> IF n = 0 THEN s0 ELSE Step(n, f[n - 1])]
            Has == {k \in Nat : \E f : Good(k, f)}
<1>0. N \in Nat
  OBVIOUS
<1>. HIDE DEF s0, N, Step
<1>1. 0 \in Has
  <2>1. Good(0, [n \in 0 .. 0 |-> s0])
    OBVIOUS
  <2>. QED BY <2>1
<1>2. ASSUME NEW k \in Has PROVE k + 1 \in Has
  <2>1. PICK f : Good(k, f)
    OBVIOUS
  <2>. DEFINE g == [n \in 0 .. k + 1 |-> IF n = k + 1 THEN Step(k + 1, f[k]) ELSE f[n]]
  <2>2. ASSUME NEW n \in 0 .. k + 1 PROVE g[n] = IF n = 0 THEN s0 ELSE Step(n, g[n - 1])
    <3>1. CASE n = 0
      <4>1. g[0] = f[0] /\ f[0] = s0
        BY <2>1
      <4>. QED BY <3>1, <4>1
    <3>2. CASE n \in 1 .. k
      <4>1. /\ n - 1 \in 0 .. k /\ n - 1 # k + 1 /\ n # k + 1 /\ n - 1 \in 0 .. k + 1
            /\ n \in 0 .. k /\ n # 0
        BY <3>2
      <4>2. g[n] = f[n] /\ g[n - 1] = f[n - 1]
        BY <4>1
      <4>3. f[n] = Step(n, f[n - 1])
        BY <2>1, <4>1
      <4>. QED BY <4>1, <4>2, <4>3
    <3>3. CASE n = k + 1
      <4>1. (k + 1) - 1 = k /\ k \in 0 .. k + 1 /\ k # k + 1 /\ k + 1 # 0 /\ k + 1 \in 0 .. k + 1
        OBVIOUS
      <4>2. g[k + 1] = Step(k + 1, f[k]) /\ g[k] = f[k]
        BY <4>1
      <4>. HIDE DEF g
      <4>. QED BY <3>3, <4>1, <4>2
    <3>. QED BY <3>1, <3>2, <3>3
  <2>3. Good(k + 1, g)
    <3>1. g = [n \in 0 .. k + 1 |-> g[n]]
      OBVIOUS
    <3>. HIDE DEF g
    <3>. QED BY <2>2, <3>1
  <2>. HIDE DEF Good, g
  <2>. QED BY <2>3
<1>3. Has = Nat
  <2>1. Has \in SUBSET Nat
    OBVIOUS
  <2>. HIDE DEF Has
  <2>. QED BY <1>1, <1>2, <2>1, Induction
<1>4. \E f : Good(N, f)
  BY <1>0, <1>3
<1>5. \E f : Good(N, f) /\ Updated(parts) = f[Len(parts)]
  BY <1>4 DEF Updated, s0, N, Step
<1>6. PICK f : Good(N, f) /\ Updated(parts) = f[Len(parts)]
  BY <1>5
<1>7. f[0] = s0 /\ \A n \in 1 .. N : f[n] = Step(n, f[n - 1])
  BY <1>0, <1>6
<1>. QED BY <1>6, <1>7 DEF s0, N, Step

(* Before the first call nothing is held.                                   *)
LEMMA InitialHolds ==
    Holds(InitialContext, <<>>) /\ InitialContext.used = 0 /\ InitialContext.length = 0
<1>. DEFINE ctx == InitialContext
            buffer == [i \in 1 .. BlockSize |-> Unwritten]
            S == PaddedBytes
            W == WholeBlock
<1>1. BlockSize \in Nat /\ Base(0) = 0 /\ 0 \in 0 .. BlockSize
  BY BaseIs
<1>2. buffer \in WholeBlock
  <2>1. Unwritten \in PaddedBytes
    BY DEF PaddedBytes
  <2>. HIDE DEF PaddedBytes
  <2>. QED BY <2>1 DEF WholeBlock
<1>3. <<>> \in Seq(S) /\ Len(<<>>) = 0 /\ <<>> \in Seq(W)
  <2>. HIDE DEF S, W
  <2>. QED BY EmptySeq
<1>4. ctx = [buffer |-> buffer, used |-> 0, length |-> 0, blocks |-> <<>>]
  BY DEF InitialContext
<1>. HIDE DEF ctx, buffer, S, W
<1>5. ctx \in Contexts
  BY <1>1, <1>2, <1>3, <1>4 DEF Contexts, W
<1>6. ctx.used = 0 /\ ctx.length = 0 /\ ctx.blocks = <<>>
  BY <1>4
<1>7. Len(<<>>) = Base(Len(ctx.blocks)) + ctx.used
  BY <1>1, <1>3, <1>6
<1>8. /\ \A k \in 1 .. Len(ctx.blocks), j \in 1 .. BlockSize :
           <<>>[Base(k - 1) + j] = ctx.blocks[k][j]
      /\ \A j \in 1 .. ctx.used : <<>>[Base(Len(ctx.blocks)) + j] = ctx.buffer[j]
  <2>1. 1 .. Len(ctx.blocks) = {} /\ 1 .. ctx.used = {}
    BY <1>3, <1>6
  <2>. QED BY <2>1
<1>9. Holds(ctx, <<>>)
  BY <1>3, <1>5, <1>7, <1>8 DEF Holds, S
<1>. QED BY <1>6, <1>9 DEF ctx

(* However a message is cut up, the context holds it.                       *)
LEMMA UpdatedHolds ==
    ASSUME NEW parts \in Seq(Seq(MessageBytes))
    PROVE  /\ Holds(Updated(parts), FlattenSeq(parts))
           /\ Updated(parts).used < BlockSize
           /\ Updated(parts).length = Len(FlattenSeq(parts))
<1>. DEFINE N == Len(parts)
            S == PaddedBytes
            Q == Seq(MessageBytes)
            R == Seq(S)
            Carries(ctx, text) == /\ Holds(ctx, text) /\ ctx.used < BlockSize
                                  /\ ctx.length = Len(text)
<1>1. N \in Nat /\ (parts # <<>> => N # 0) /\ (parts = <<>> => N = 0)
  <2>1. parts \in Seq(Q)
    OBVIOUS
  <2>. HIDE DEF Q
  <2>. QED BY <2>1, LenProperties, EmptySeq
<1>2. parts \in Seq(Seq(S))
  <2>1. MessageBytes \subseteq S
    BY DEF PaddedBytes
  <2>2. parts \in Seq(Q)
    OBVIOUS
  <2>3. Q \subseteq R
    <3>. HIDE DEF S
    <3>. QED BY <2>1, SeqMonotonic
  <2>4. parts \in Seq(R)
    <3>. HIDE DEF Q, R
    <3>. QED BY <2>2, <2>3, SeqMonotonic
  <2>. QED BY <2>4
<1>3. BlockSize \in Nat \ {0}
  BY BaseIs
<1>4. PICK g : /\ g[0] = InitialContext
               /\ \A n \in 1 .. N : g[n] = Update(g[n - 1], parts[n])
               /\ Updated(parts) = g[N]
  BY <1>1, UpdatedIs
<1>. HIDE DEF S, Q
<1>5. Carries(g[0], <<>>)
  <2>1. Len(<<>>) = 0
    OBVIOUS
  <2>. QED BY <1>3, <1>4, <2>1, InitialHolds
<1>6. ASSUME NEW ctx, NEW text, Carries(ctx, text), NEW bytes \in Seq(S)
      PROVE  Carries(Update(ctx, bytes), text \o bytes)
  <2>1. /\ Holds(Update(ctx, bytes), text \o bytes) /\ Update(ctx, bytes).used < BlockSize
        /\ Update(ctx, bytes).length = ctx.length + Len(bytes)
    BY <1>6, UpdateKeeps DEF S
  <2>2. text \in Seq(S)
    BY <1>6 DEF Holds, S
  <2>3. Len(text \o bytes) = Len(text) + Len(bytes)
    BY <2>2, ConcatProperties
  <2>. QED BY <1>6, <2>1, <2>3
<1>7. CASE parts = <<>>
  <2>1. FlattenSeq(parts) = <<>>
    BY <1>7 DEF FlattenSeq
  <2>. QED BY <1>1, <1>4, <1>5, <1>7, <2>1
<1>8. CASE parts # <<>>
  <2>1. PICK f : /\ f[1] = parts[1]
                 /\ \A n \in 2 .. N : f[n] = f[n - 1] \o parts[n]
                 /\ FlattenSeq(parts) = f[N]
    BY <1>2, <1>8, FlattenIs
  <2>2. \A n \in 1 .. N : parts[n] \in Seq(S)
    <3>1. parts \in Seq(R)
      BY <1>2
    <3>. HIDE DEF R
    <3>2. \A n \in 1 .. N : parts[n] \in R
      BY <3>1, ElementOfSeq
    <3>. QED BY <3>2 DEF R
  <2>. HIDE DEF N, R, Carries
  <2>. DEFINE Right == {n \in Nat : n + 1 <= N => Carries(g[n + 1], f[n + 1])}
  <2>3. 0 \in Right
    <3>1. 1 \in 1 .. N /\ 1 - 1 = 0 /\ 0 + 1 = 1
      BY <1>1, <1>8
    <3>2. parts[1] \in Seq(S) /\ g[1] = Update(g[0], parts[1])
      BY <1>4, <2>2, <3>1
    <3>3. <<>> \o parts[1] = f[1]
      BY <2>1, <3>2, ConcatEmptySeq
    <3>4. Carries(g[1], f[1])
      BY <1>5, <1>6, <3>2, <3>3
    <3>. QED BY <3>1, <3>4
  <2>4. ASSUME NEW n \in Right PROVE n + 1 \in Right
    <3>. SUFFICES ASSUME n + 2 <= N PROVE Carries(g[n + 2], f[n + 2])
      OBVIOUS
    <3>1. /\ n + 2 \in 2 .. N /\ n + 2 \in 1 .. N /\ (n + 2) - 1 = n + 1
          /\ Carries(g[n + 1], f[n + 1])
      BY <1>1
    <3>2. /\ f[n + 2] = f[n + 1] \o parts[n + 2] /\ parts[n + 2] \in Seq(S)
          /\ g[n + 2] = Update(g[n + 1], parts[n + 2])
      BY <1>4, <2>1, <2>2, <3>1
    <3>. QED BY <1>6, <3>1, <3>2
  <2>5. Right = Nat
    <3>1. Right \in SUBSET Nat
      OBVIOUS
    <3>. HIDE DEF Right
    <3>. QED BY <2>3, <2>4, <3>1, Induction
  <2>6. N - 1 \in Right /\ (N - 1) + 1 = N
    <3>1. N - 1 \in Nat /\ (N - 1) + 1 = N
      BY <1>1, <1>8
    <3>. HIDE DEF Right
    <3>. QED BY <2>5, <3>1
  <2>7. Carries(g[N], f[N])
    BY <2>6
  <2>. QED BY <1>4, <2>1, <2>7 DEF Carries
<1>. QED BY <1>7, <1>8

(* The zeros and the length behind a message.                               *)
Zeros(n) == [i \in 1 .. n |-> ZeroByte]
LengthBytes(length) == [k \in 1 .. LengthSize |-> LengthByte(length, k)]

(* As many zeros as are asked for.                                          *)
LEMMA ZerosIs ==
    ASSUME NEW n \in Nat
    PROVE  /\ Zeros(n) \in Seq(PaddedBytes) /\ Len(Zeros(n)) = n
           /\ \A i \in 1 .. n : Zeros(n)[i] = ZeroByte
<1>. DEFINE S == PaddedBytes
<1>1. ZeroByte \in S
  BY DEF PaddedBytes
<1>. HIDE DEF S
<1>2. Zeros(n) \in [1 .. n -> S]
  BY <1>1 DEF Zeros
<1>3. Zeros(n) \in Seq(S) /\ Len(Zeros(n)) = n
  BY <1>2
<1>4. \A i \in 1 .. n : Zeros(n)[i] = ZeroByte
  BY DEF Zeros
<1>. QED BY <1>3, <1>4 DEF S

(* As many bytes of the length as it has.                                   *)
LEMMA LengthBytesIs ==
    ASSUME NEW length \in Nat
    PROVE  /\ LengthBytes(length) \in Seq(PaddedBytes) /\ Len(LengthBytes(length)) = LengthSize
<1>. DEFINE S == PaddedBytes
<1>1. \A k \in 1 .. LengthSize : LengthByte(length, k) \in S
  BY DEF PaddedBytes
<1>2. LengthSize \in Nat
  BY BaseIs
<1>. HIDE DEF S
<1>3. LengthBytes(length) \in [1 .. LengthSize -> S]
  BY <1>1 DEF LengthBytes
<1>4. LengthBytes(length) \in Seq(S) /\ Len(LengthBytes(length)) = LengthSize
  BY <1>2, <1>3
<1>. QED BY <1>4 DEF S

(* Zeros behind zeros are zeros.                                            *)
LEMMA ZerosAdd ==
    ASSUME NEW a \in Nat, NEW b \in Nat
    PROVE  Zeros(a) \o Zeros(b) = Zeros(a + b)
<1>. DEFINE S == PaddedBytes
            s == Zeros(a)
            t == Zeros(b)
            u == Zeros(a + b)
<1>1. /\ s \in Seq(S) /\ Len(s) = a /\ \A i \in 1 .. a : s[i] = ZeroByte
      /\ t \in Seq(S) /\ Len(t) = b /\ \A i \in 1 .. b : t[i] = ZeroByte
  BY ZerosIs
<1>2. u \in Seq(S) /\ Len(u) = a + b /\ \A i \in 1 .. a + b : u[i] = ZeroByte
  <2>1. a + b \in Nat
    OBVIOUS
  <2>. QED BY <2>1, ZerosIs
<1>. HIDE DEF S, s, t, u
<1>3. /\ s \o t \in Seq(S) /\ Len(s \o t) = a + b
      /\ \A i \in 1 .. a + b : (s \o t)[i] = IF i <= a THEN s[i] ELSE t[i - a]
  <2>1. /\ s \o t \in Seq(S) /\ Len(s \o t) = Len(s) + Len(t)
        /\ \A i \in 1 .. Len(s) + Len(t) :
             (s \o t)[i] = IF i <= Len(s) THEN s[i] ELSE t[i - Len(s)]
    BY <1>1, ConcatProperties
  <2>. QED BY <1>1, <2>1
<1>4. \A i \in 1 .. a + b : (s \o t)[i] = u[i]
  <2>1. \A i \in 1 .. a + b : IF i <= a THEN i \in 1 .. a ELSE i - a \in 1 .. b
    OBVIOUS
  <2>. QED BY <1>1, <1>2, <1>3, <2>1
<1>5. s \o t = u
  BY <1>2, <1>3, <1>4, SeqEqual
<1>. QED BY <1>5 DEF s, t, u

(* A buffer that is filled up with more bytes and compressed adds them to   *)
(* the text.                                                                *)
LEMMA FlushKeeps ==
    ASSUME NEW ctx, NEW text, Holds(ctx, text), NEW extra \in Seq(PaddedBytes),
           ctx.used + Len(extra) = BlockSize, NEW buffer \in WholeBlock,
           \A j \in 1 .. ctx.used : buffer[j] = ctx.buffer[j],
           \A j \in 1 .. Len(extra) : buffer[ctx.used + j] = extra[j]
    PROVE  LET new == Transformed([ctx EXCEPT !.buffer = buffer])
           IN  Holds(new, text \o extra) /\ new.used = 0 /\ new.length = ctx.length
<1>. DEFINE filled == [ctx EXCEPT !.buffer = buffer, !.used = BlockSize]
            new == Transformed([ctx EXCEPT !.buffer = buffer])
<1>1. ctx \in Contexts
  BY DEF Holds
<1>2. /\ filled \in Contexts /\ filled.blocks = ctx.blocks /\ filled.used = ctx.used + Len(extra)
      /\ filled.buffer = buffer /\ filled.length = ctx.length /\ filled.used = BlockSize
  <2>1. BlockSize \in 0 .. BlockSize
    BY BaseIs
  <2>. QED BY <1>1, <2>1 DEF Contexts
<1>3. new = Transformed(filled)
  BY <1>1 DEF Transformed, Contexts
<1>. HIDE DEF filled, new
<1>4. Holds(filled, text \o extra)
  BY <1>2, BufferGrows
<1>5. Holds(new, text \o extra) /\ new.used = 0 /\ new.length = ctx.length
  BY <1>2, <1>3, <1>4, BufferMoves
<1>. QED BY <1>5 DEF new

(* The last block is filled up with zeros and the length.                   *)
LEMMA ClosedKeeps ==
    ASSUME NEW ctx, NEW text, Holds(ctx, text), ctx.used <= BlockSize - LengthSize
    PROVE  /\ Holds(Closed(ctx), text \o (Zeros(BlockSize - LengthSize - ctx.used)
                                            \o LengthBytes(ctx.length)))
           /\ Closed(ctx).used = 0
<1>. DEFINE u == ctx.used
            top == BlockSize - LengthSize
            z == top - u
            zeros == Zeros(z)
            length == LengthBytes(ctx.length)
            extra == zeros \o length
            padded == Zeroed(ctx.buffer, u, top)
            buffer == Copied(padded, top, length)
            S == PaddedBytes
<1>1. /\ ctx.used \in Nat /\ ctx.length \in Nat /\ ctx.buffer \in WholeBlock
      /\ BlockSize \in Nat /\ LengthSize \in Nat /\ LengthSize < BlockSize
  <2>1. ctx \in Contexts
    BY DEF Holds
  <2>2. BlockSize \in Nat /\ LengthSize \in Nat /\ LengthSize < BlockSize
    BY BaseIs
  <2>. QED BY <2>1, <2>2 DEF Contexts
<1>2. /\ u \in Nat /\ top \in Nat /\ z \in Nat /\ u <= top /\ top <= BlockSize
      /\ u + z = top /\ top + LengthSize = BlockSize
  BY <1>1
<1>3. Closed(ctx) = Transformed([ctx EXCEPT !.buffer = buffer])
  BY DEF Closed, LengthBytes
<1>. HIDE DEF u, top, z
<1>4. /\ zeros \in Seq(S) /\ Len(zeros) = z /\ \A i \in 1 .. z : zeros[i] = ZeroByte
      /\ length \in Seq(S) /\ Len(length) = LengthSize
  <2>1. zeros \in Seq(S) /\ Len(zeros) = z /\ \A i \in 1 .. z : zeros[i] = ZeroByte
    BY <1>2, ZerosIs
  <2>2. length \in Seq(S) /\ Len(length) = LengthSize
    BY <1>1, LengthBytesIs
  <2>. QED BY <2>1, <2>2
<1>5. /\ padded \in WholeBlock
      /\ \A j \in 1 .. u : padded[j] = ctx.buffer[j]
      /\ \A j \in u + 1 .. top : padded[j] = ZeroByte
  <2>. DEFINE b == ctx.buffer
              new == Zeroed(b, u, top)
  <2>1. b \in WholeBlock /\ u \in Nat /\ top \in Nat /\ top <= BlockSize /\ u <= top
    BY <1>1, <1>2
  <2>2. padded = new
    OBVIOUS
  <2>. HIDE DEF b, padded
  <2>3. /\ new \in WholeBlock
        /\ \A j \in 1 .. u : new[j] = b[j]
        /\ \A j \in u + 1 .. top : new[j] = ZeroByte
    BY <2>1, ZeroedIs
  <2>. HIDE DEF new
  <2>4. /\ padded \in WholeBlock
        /\ \A j \in 1 .. u : padded[j] = b[j]
        /\ \A j \in u + 1 .. top : padded[j] = ZeroByte
    BY <2>2, <2>3
  <2>. QED BY <2>4 DEF b
<1>. HIDE DEF zeros, length, padded
<1>6. /\ buffer \in WholeBlock
      /\ \A j \in 1 .. top : buffer[j] = padded[j]
      /\ \A j \in 1 .. LengthSize : buffer[top + j] = length[j]
  <2>. DEFINE new == Copied(padded, top, length)
  <2>1. top + Len(length) <= BlockSize
    BY <1>1, <1>2, <1>4
  <2>2. /\ padded \in WholeBlock /\ top \in Nat /\ length \in Seq(PaddedBytes)
        /\ Len(length) = LengthSize
    BY <1>2, <1>4, <1>5 DEF S
  <2>3. buffer = new
    OBVIOUS
  <2>. HIDE DEF buffer
  <2>4. /\ new \in WholeBlock
        /\ \A j \in 1 .. top : new[j] = padded[j]
        /\ \A j \in 1 .. Len(length) : new[top + j] = length[j]
    BY <2>1, <2>2, CopiedIs
  <2>. HIDE DEF new
  <2>. QED BY <2>2, <2>3, <2>4
<1>. HIDE DEF buffer, S
<1>7. /\ extra \in Seq(S) /\ Len(extra) = z + LengthSize
      /\ \A i \in 1 .. z + LengthSize : extra[i] = IF i <= z THEN zeros[i] ELSE length[i - z]
  <2>1. /\ zeros \o length \in Seq(S) /\ Len(zeros \o length) = Len(zeros) + Len(length)
        /\ \A i \in 1 .. Len(zeros) + Len(length) :
             (zeros \o length)[i] = IF i <= Len(zeros) THEN zeros[i] ELSE length[i - Len(zeros)]
    BY <1>4, ConcatProperties
  <2>. QED BY <1>4, <2>1
<1>. HIDE DEF extra
<1>8. \A j \in 1 .. u : buffer[j] = ctx.buffer[j]
  <2>1. \A j \in 1 .. u : j \in 1 .. top
    BY <1>2
  <2>. QED BY <1>5, <1>6, <2>1
<1>9. ASSUME NEW j \in 1 .. z + LengthSize PROVE buffer[u + j] = extra[j]
  <2>1. CASE j <= z
    <3>1. j \in 1 .. z /\ u + j \in u + 1 .. top /\ u + j \in 1 .. top
      BY <1>1, <1>2, <2>1
    <3>. QED BY <1>4, <1>5, <1>6, <1>7, <2>1, <3>1
  <2>2. CASE ~(j <= z)
    <3>1. j - z \in 1 .. LengthSize /\ top + (j - z) = u + j
      BY <1>1, <1>2, <2>2
    <3>2. buffer[top + (j - z)] = length[j - z]
      BY <1>6, <3>1
    <3>. QED BY <1>7, <2>2, <3>1, <3>2
  <2>. QED BY <2>1, <2>2
<1>10. u + Len(extra) = BlockSize
  BY <1>1, <1>2, <1>7
<1>11. LET new == Transformed([ctx EXCEPT !.buffer = buffer])
       IN  Holds(new, text \o extra) /\ new.used = 0 /\ new.length = ctx.length
  <2>1. \A j \in 1 .. Len(extra) : buffer[ctx.used + j] = extra[j]
    BY <1>7, <1>9 DEF u
  <2>. QED BY <1>6, <1>7, <1>8, <1>10, <2>1, FlushKeeps DEF u, S
<1>. QED BY <1>3, <1>11 DEF extra, zeros, length, z, top, u

(* As many zeros as finalize() writes are as few as there can be.           *)
LEMMA ZeroCount ==
    ASSUME NEW n \in Nat, NEW u \in 0 .. BlockSize - 1
    PROVE  LET closing == Base(n) + u + 1 + LengthSize
               zeros   == (BlockSize - (closing % BlockSize)) % BlockSize
           IN  zeros = IF u + 1 <= BlockSize - LengthSize
                       THEN BlockSize - LengthSize - (u + 1)
                       ELSE (BlockSize - (u + 1)) + (BlockSize - LengthSize)
<1>. DEFINE b == BlockSize
            l == LengthSize
            s == u + 1 + l
            closing == Base(n) + u + 1 + l
            r == closing % b
<1>1. b \in Nat \ {0} /\ l \in Nat \ {0} /\ l < b /\ u \in 0 .. b - 1 /\ s \in Nat
  BY BaseIs
<1>2. closing = b * n + s
  <2>1. b * n \in Nat
    BY <1>1
  <2>. QED BY <1>1, <2>1 DEF Base
<1>3. closing = b * (n + 1) + (s - b)
  <2>1. b * (n + 1) = b * n + b /\ b * n \in Nat
    BY <1>1
  <2>. QED BY <1>1, <1>2, <2>1
<1>. HIDE DEF b, l, s, closing, r
<1>4. \A x \in 0 .. b - 1 : x % b = x
  <2>1. ASSUME NEW x \in 0 .. b - 1 PROVE x % b = x
    <3>1. (b * 0 + x) % b = x
      BY <1>1, DivModIs
    <3>2. b * 0 + x = x
      BY <1>1
    <3>. QED BY <3>1, <3>2
  <2>. QED BY <2>1
<1>5. b % b = 0
  <2>1. (b * 1 + 0) % b = 0
    BY <1>1, DivModIs
  <2>2. b * 1 + 0 = b
    BY <1>1
  <2>. QED BY <2>1, <2>2
<1>6. n \in Int /\ n + 1 \in Int
  OBVIOUS
<1>7. CASE s < b
  <2>1. s \in 0 .. b - 1 /\ s # 0
    BY <1>1, <1>7 DEF s
  <2>2. r = s
    BY <1>1, <1>2, <1>6, <2>1, DivModIs DEF r
  <2>3. b - r \in 0 .. b - 1 /\ b - r = b - l - (u + 1) /\ u + 1 <= b - l
    BY <1>1, <1>7, <2>1, <2>2 DEF s
  <2>. QED BY <1>4, <2>3 DEF r, closing, b, l
<1>8. CASE s = b
  <2>1. s - b \in 0 .. b - 1 /\ s - b = 0
    BY <1>1, <1>8
  <2>2. r = 0
    BY <1>1, <1>3, <1>6, <2>1, DivModIs DEF r
  <2>3. b - r = b /\ b - l - (u + 1) = 0 /\ u + 1 <= b - l
    BY <1>1, <1>8, <2>2 DEF s
  <2>. QED BY <1>5, <2>3 DEF r, closing, b, l
<1>9. CASE s > b
  <2>1. s - b \in 0 .. b - 1 /\ s - b # 0
    BY <1>1, <1>9 DEF s
  <2>2. r = s - b
    BY <1>1, <1>3, <1>6, <2>1, DivModIs DEF r
  <2>3. b - r \in 0 .. b - 1 /\ b - r = (b - (u + 1)) + (b - l) /\ ~(u + 1 <= b - l)
    BY <1>1, <1>9, <2>1, <2>2 DEF s
  <2>. QED BY <1>4, <2>3 DEF r, closing, b, l
<1>. QED BY <1>1, <1>7, <1>8, <1>9

(* The padding that finalize() puts behind a message.                       *)
Padding(message) ==
    LET closing == Len(message) + 1 + LengthSize
        zeros   == (BlockSize - (closing % BlockSize)) % BlockSize
    IN  message \o <<Marker>> \o Zeros(zeros) \o LengthBytes(Len(message))

(* finalize() puts the padding behind the message and empties the buffer.   *)
LEMMA FinalizeKeeps ==
    ASSUME NEW ctx, NEW text, Holds(ctx, text), ctx.used < BlockSize, ctx.length = Len(text)
    PROVE  Holds(Finalize(ctx), Padding(text)) /\ Finalize(ctx).used = 0
<1>. DEFINE u == ctx.used
            top == BlockSize - LengthSize
            marked == Marked(ctx)
            begun == text \o <<Marker>>
            length == LengthBytes(Len(text))
            zeros == IF u + 1 <= top THEN top - (u + 1) ELSE (BlockSize - (u + 1)) + top
            S == PaddedBytes
<1>1. /\ ctx \in Contexts /\ text \in Seq(S) /\ Len(text) \in Nat /\ u \in 0 .. BlockSize - 1
      /\ BlockSize \in Nat /\ LengthSize \in Nat /\ top \in Nat
      /\ Len(ctx.blocks) \in Nat /\ Len(text) = Base(Len(ctx.blocks)) + u
  <2>1. ctx \in Contexts /\ text \in Seq(S) /\ Len(text) = Base(Len(ctx.blocks)) + u
    BY DEF Holds
  <2>2. BlockSize \in Nat /\ LengthSize \in Nat /\ LengthSize < BlockSize
    BY BaseIs
  <2>3. u \in 0 .. BlockSize /\ ctx.blocks \in Seq(WholeBlock)
    BY <2>1 DEF Contexts
  <2>4. Len(text) \in Nat
    <3>. HIDE DEF S
    <3>. QED BY <2>1, LenProperties
  <2>5. Len(ctx.blocks) \in Nat
    BY <2>3, LenProperties
  <2>. QED BY <2>1, <2>2, <2>3, <2>4, <2>5
<1>2. <<Marker>> \in Seq(S) /\ Len(<<Marker>>) = 1
  <2>1. Marker \in S
    BY DEF PaddedBytes
  <2>. HIDE DEF S
  <2>. QED BY <2>1
<1>3. marked = Grown(ctx, <<Marker>>)
  BY <1>2 DEF Marked, Grown
<1>4. Holds(marked, begun) /\ marked.used = u + 1 /\ marked.length = Len(text)
  <2>1. ctx.used + Len(<<Marker>>) <= BlockSize
    BY <1>1, <1>2
  <2>2. /\ Holds(marked, begun) /\ marked.used = ctx.used + Len(<<Marker>>)
        /\ marked.length = ctx.length
    <3>. HIDE DEF marked
    <3>. QED BY <1>2, <1>3, <2>1, CopyGrows
  <2>. QED BY <1>2, <2>2
<1>5. begun \in Seq(S) /\ length \in Seq(S)
  <2>1. begun \in Seq(S)
    BY <1>4 DEF Holds
  <2>2. length \in Seq(S)
    BY <1>1, LengthBytesIs
  <2>. QED BY <2>1, <2>2
<1>6. zeros \in Nat /\ Padding(text) = (begun \o Zeros(zeros)) \o length
  <2>1. LET closing == Base(Len(ctx.blocks)) + u + 1 + LengthSize
        IN  (BlockSize - (closing % BlockSize)) % BlockSize = zeros
    <3>. DEFINE n == Len(ctx.blocks)
    <3>1. n \in Nat /\ u \in 0 .. BlockSize - 1
      BY <1>1
    <3>. HIDE DEF n, u
    <3>. QED BY <3>1, ZeroCount DEF n
  <2>2. (BlockSize - ((Len(text) + 1 + LengthSize) % BlockSize)) % BlockSize = zeros
    BY <1>1, <2>1
  <2>3. zeros \in Nat
    BY <1>1
  <2>. HIDE DEF zeros
  <2>. QED BY <2>2, <2>3 DEF Padding
<1>7. Finalize(ctx) = IF marked.used > top
                      THEN Closed(Transformed([marked EXCEPT
                                    !.buffer = Zeroed(marked.buffer, marked.used, BlockSize)]))
                      ELSE Closed(marked)
  BY DEF Finalize
<1>. HIDE DEF u, top, marked, begun, length, zeros
<1>8. CASE u + 1 <= top
  <2>1. Finalize(ctx) = Closed(marked) /\ zeros = BlockSize - LengthSize - marked.used
    BY <1>1, <1>4, <1>7, <1>8 DEF zeros, top
  <2>2. marked.used <= BlockSize - LengthSize
    BY <1>4, <1>8 DEF top
  <2>3. /\ Holds(Closed(marked), begun \o (Zeros(zeros) \o length)) /\ Closed(marked).used = 0
    <3>1. /\ Holds(Closed(marked), begun \o (Zeros(BlockSize - LengthSize - marked.used)
                                               \o LengthBytes(marked.length)))
          /\ Closed(marked).used = 0
      BY <1>4, <2>2, ClosedKeeps
    <3>. QED BY <1>4, <2>1, <3>1 DEF length
  <2>4. begun \o (Zeros(zeros) \o length) = (begun \o Zeros(zeros)) \o length
    <3>1. Zeros(zeros) \in Seq(S)
      BY <1>6, ZerosIs
    <3>. HIDE DEF S
    <3>. QED BY <1>5, <3>1, BytesAssociate DEF S
  <2>. QED BY <1>6, <2>1, <2>3, <2>4
<1>9. CASE ~(u + 1 <= top)
  <2>. DEFINE a == BlockSize - (u + 1)
              buffer == Zeroed(marked.buffer, u + 1, BlockSize)
              moved == Transformed([marked EXCEPT !.buffer = buffer])
  <2>1. /\ a \in Nat /\ u + 1 \in Nat /\ u + 1 <= BlockSize /\ (u + 1) + a = BlockSize
        /\ zeros = a + top /\ Finalize(ctx) = Closed(moved)
    BY <1>1, <1>4, <1>7, <1>9 DEF zeros
  <2>2. /\ buffer \in WholeBlock
        /\ \A j \in 1 .. u + 1 : buffer[j] = marked.buffer[j]
        /\ \A j \in (u + 1) + 1 .. BlockSize : buffer[j] = ZeroByte
    <3>1. marked.buffer \in WholeBlock /\ BlockSize <= BlockSize
      BY <1>1, <1>4 DEF Holds, Contexts
    <3>. DEFINE from == u + 1
                to == BlockSize
    <3>2. from \in Nat /\ to \in Nat /\ to <= BlockSize /\ from <= to
      BY <1>1, <2>1
    <3>. HIDE DEF from, to
    <3>3. /\ Zeroed(marked.buffer, from, to) \in WholeBlock
          /\ \A j \in 1 .. from : Zeroed(marked.buffer, from, to)[j] = marked.buffer[j]
          /\ \A j \in from + 1 .. to : Zeroed(marked.buffer, from, to)[j] = ZeroByte
      BY <3>1, <3>2, ZeroedIs
    <3>. QED BY <3>3 DEF from, to
  <2>. HIDE DEF buffer
  <2>3. Zeros(a) \in Seq(S) /\ Len(Zeros(a)) = a /\ \A i \in 1 .. a : Zeros(a)[i] = ZeroByte
    <3>. HIDE DEF a
    <3>. QED BY <2>1, ZerosIs
  <2>4. \A j \in 1 .. a : buffer[(u + 1) + j] = Zeros(a)[j]
    <3>. HIDE DEF a
    <3>1. \A j \in 1 .. a : (u + 1) + j \in (u + 1) + 1 .. BlockSize
      BY <2>1
    <3>. QED BY <2>2, <2>3, <3>1
  <2>. HIDE DEF a
  <2>5. Holds(moved, begun \o Zeros(a)) /\ moved.used = 0 /\ moved.length = Len(text)
    <3>1. /\ marked.used + Len(Zeros(a)) = BlockSize
          /\ \A j \in 1 .. marked.used : buffer[j] = marked.buffer[j]
          /\ \A j \in 1 .. Len(Zeros(a)) : buffer[marked.used + j] = Zeros(a)[j]
      BY <1>4, <2>1, <2>2, <2>3, <2>4
    <3>2. LET new == Transformed([marked EXCEPT !.buffer = buffer])
          IN  Holds(new, begun \o Zeros(a)) /\ new.used = 0 /\ new.length = marked.length
      BY <1>4, <2>2, <2>3, <3>1, FlushKeeps
    <3>. QED BY <1>4, <3>2
  <2>. HIDE DEF moved
  <2>6. /\ Holds(Closed(moved), (begun \o Zeros(a)) \o (Zeros(top) \o length))
        /\ Closed(moved).used = 0
    <3>1. moved.used <= BlockSize - LengthSize /\ BlockSize - LengthSize - moved.used = top
      BY <1>1, <2>5 DEF top
    <3>2. /\ Holds(Closed(moved), (begun \o Zeros(a))
                                    \o (Zeros(BlockSize - LengthSize - moved.used)
                                          \o LengthBytes(moved.length)))
          /\ Closed(moved).used = 0
      BY <2>5, <3>1, ClosedKeeps
    <3>. QED BY <2>5, <3>1, <3>2 DEF length
  <2>7. (begun \o Zeros(a)) \o (Zeros(top) \o length) = (begun \o Zeros(zeros)) \o length
    <3>1. Zeros(a) \in Seq(S) /\ Zeros(top) \in Seq(S)
      BY <1>1, <2>1, ZerosIs
    <3>2. Zeros(a) \o Zeros(top) = Zeros(zeros)
      BY <1>1, <2>1, ZerosAdd
    <3>. HIDE DEF S
    <3>3. begun \o Zeros(a) \in Seq(S)
      BY <1>5, <3>1, ConcatProperties
    <3>4. (begun \o Zeros(a)) \o (Zeros(top) \o length)
            = ((begun \o Zeros(a)) \o Zeros(top)) \o length
      <4>. DEFINE x == begun \o Zeros(a)
                  y == Zeros(top)
      <4>1. x \in Seq(S) /\ y \in Seq(S) /\ length \in Seq(S)
        BY <1>5, <3>1, <3>3
      <4>. HIDE DEF x, y
      <4>2. x \o (y \o length) = (x \o y) \o length
        BY <4>1, BytesAssociate DEF S
      <4>. QED BY <4>2 DEF x, y
    <3>5. (begun \o Zeros(a)) \o Zeros(top) = begun \o (Zeros(a) \o Zeros(top))
      BY <1>5, <3>1, BytesAssociate DEF S
    <3>. QED BY <3>2, <3>4, <3>5
  <2>. QED BY <1>6, <2>1, <2>6, <2>7
<1>. QED BY <1>8, <1>9

(* What a context holds that has nothing in its buffer is in its blocks.    *)
LEMMA BlocksAre ==
    ASSUME NEW ctx, NEW text, Holds(ctx, text), ctx.used = 0, Len(text) # 0
    PROVE  FlattenSeq(ctx.blocks) = text
<1>. DEFINE S == PaddedBytes
            blocks == ctx.blocks
            n == Len(blocks)
<1>1. /\ ctx \in Contexts /\ text \in Seq(S) /\ Len(text) = Base(n) + 0
      /\ \A k \in 1 .. n, j \in 1 .. BlockSize : text[Base(k - 1) + j] = blocks[k][j]
  BY DEF Holds
<1>2. BlockSize \in Nat /\ Base(0) = 0
  BY BaseIs
<1>3. WholeBlock \subseteq Seq(S) /\ \A block \in WholeBlock : Len(block) = BlockSize
  <2>. HIDE DEF S
  <2>1. \A block \in [1 .. BlockSize -> S] : block \in Seq(S) /\ Len(block) = BlockSize
    BY <1>2
  <2>. QED BY <2>1 DEF WholeBlock, S
<1>4. blocks \in Seq(WholeBlock)
  BY <1>1 DEF Contexts
<1>5. n \in Nat /\ Base(n) \in Nat /\ Len(text) = Base(n)
  <2>1. n \in Nat
    BY <1>4, LenProperties
  <2>2. Base(n) \in Nat
    BY <2>1, BaseIs
  <2>. QED BY <1>1, <2>1, <2>2
<1>6. blocks # <<>>
  <2>1. Len(<<>>) = 0
    OBVIOUS
  <2>. QED BY <1>2, <1>5, <2>1
<1>7. blocks \in Seq(Seq(S))
  <2>. DEFINE R == Seq(S)
  <2>1. WholeBlock \subseteq R
    BY <1>3
  <2>. HIDE DEF R
  <2>2. blocks \in Seq(R)
    BY <1>4, <2>1, SeqMonotonic
  <2>. QED BY <2>2 DEF R
<1>8. OfSize(blocks, BlockSize)
  <2>1. \A k \in 1 .. n : blocks[k] \in WholeBlock
    BY <1>4, ElementOfSeq
  <2>. QED BY <1>3, <2>1 DEF OfSize
<1>. HIDE DEF S, blocks
<1>9. FlattenSeq(blocks) \in Seq(S) /\ LaidOut(FlattenSeq(blocks), blocks, BlockSize)
  BY <1>2, <1>6, <1>7, <1>8, FlattenEqual
<1>. DEFINE flat == FlattenSeq(blocks)
<1>10. /\ flat \in Seq(S) /\ Len(flat) = Base(n)
       /\ \A k \in 1 .. n, j \in 1 .. BlockSize : flat[Base(k - 1) + j] = blocks[k][j]
  BY <1>9 DEF LaidOut, Base
<1>. HIDE DEF flat, n
<1>11. ASSUME NEW i \in 1 .. Base(n) PROVE flat[i] = text[i]
  <2>1. \E k \in 1 .. n, j \in 1 .. BlockSize : i = Base(k - 1) + j
    <3>. DEFINE x == i - 1
                q == x \div BlockSize
                r == x % BlockSize
    <3>1. x \in Nat /\ BlockSize \in Nat \ {0} /\ x \in Int
      BY <1>5, BaseIs
    <3>. HIDE DEF x
    <3>2. q \in Int /\ r \in 0 .. BlockSize - 1 /\ x = BlockSize * q + r
      BY <3>1, DivMod
    <3>. HIDE DEF q, r
    <3>3. q \in Nat
      <4>1. CASE q < 0
        <5>1. q <= -1
          BY <3>2, <4>1
        <5>2. BlockSize * q <= -BlockSize
          BY <3>1, <3>2, <5>1
        <5>. DEFINE p == BlockSize * q
        <5>3. p \in Int
          BY <3>1, <3>2
        <5>4. p <= -BlockSize /\ x = p + r
          BY <3>2, <5>2
        <5>. HIDE DEF p
        <5>. QED BY <3>1, <3>2, <5>3, <5>4
      <4>. QED BY <3>2, <4>1
    <3>4. Base(q) \in Nat /\ x = Base(q) + r
      <4>1. Base(q) \in Nat
        BY <3>3, BaseIs
      <4>. QED BY <3>2, <4>1 DEF Base
    <3>5. q < n
      <4>1. CASE n <= q
        <5>1. Base(n) <= Base(q)
          BY <1>5, <3>3, <4>1, BaseIs
        <5>. QED BY <1>5, <3>1, <3>2, <3>4, <5>1 DEF x
      <4>. QED BY <1>5, <3>3, <4>1
    <3>6. q + 1 \in 1 .. n /\ r + 1 \in 1 .. BlockSize /\ (q + 1) - 1 = q
      BY <1>5, <3>1, <3>2, <3>3, <3>5
    <3>7. i = Base((q + 1) - 1) + (r + 1)
      BY <3>2, <3>4, <3>6 DEF x
    <3>. QED BY <3>6, <3>7
  <2>. QED BY <1>1, <1>10, <2>1 DEF n
<1>12. flat = text
  BY <1>1, <1>5, <1>10, <1>11, SeqEqual
<1>. QED BY <1>12 DEF flat, blocks

(* The blocks that are compressed are those of the standard.                *)
LEMMA PaddingSound ==
    ASSUME NEW parts \in Seq(Seq(MessageBytes))
    PROVE  PaddingIsStandard(parts)
<1>. DEFINE message == FlattenSeq(parts)
            ctx == Updated(parts)
<1>1. Holds(ctx, message) /\ ctx.used < BlockSize /\ ctx.length = Len(message)
  BY UpdatedHolds
<1>2. PaddingIsStandard(parts) <=> FlattenSeq(Finalize(ctx).blocks) = Padding(message)
  BY DEF PaddingIsStandard, Padding, Zeros, LengthBytes
<1>. HIDE DEF message, ctx
<1>3. Holds(Finalize(ctx), Padding(message)) /\ Finalize(ctx).used = 0
  BY <1>1, FinalizeKeeps
<1>4. Len(Padding(message)) # 0
  <2>. DEFINE zeros == (BlockSize - ((Len(message) + 1 + LengthSize) % BlockSize)) % BlockSize
              S == PaddedBytes
              s == message \o <<Marker>>
              t == Zeros(zeros)
              l == LengthBytes(Len(message))
  <2>1. message \in Seq(S) /\ <<Marker>> \in Seq(S) /\ Len(message) \in Nat
    <3>1. message \in Seq(S) /\ Marker \in S
      BY <1>1 DEF Holds, PaddedBytes
    <3>. HIDE DEF S
    <3>. QED BY <3>1, LenProperties
  <2>2. zeros \in Nat
    <3>1. BlockSize \in Nat \ {0} /\ LengthSize \in Nat
      BY BaseIs
    <3>. DEFINE c == Len(message) + 1 + LengthSize
                m == c % BlockSize
    <3>2. c \in Int
      BY <2>1, <3>1
    <3>. HIDE DEF c
    <3>3. m \in 0 .. BlockSize - 1
      BY <3>1, <3>2, DivMod
    <3>. HIDE DEF m
    <3>4. BlockSize - m \in Int
      BY <3>1, <3>3
    <3>5. (BlockSize - m) % BlockSize \in 0 .. BlockSize - 1
      BY <3>1, <3>4, DivMod
    <3>. QED BY <3>1, <3>5 DEF c, m
  <2>3. Padding(message) = (s \o t) \o l
    BY DEF Padding
  <2>. HIDE DEF zeros
  <2>4. t \in Seq(S) /\ l \in Seq(S) /\ Len(l) = LengthSize
    BY <2>1, <2>2, ZerosIs, LengthBytesIs
  <2>5. LengthSize \in Nat \ {0}
    BY BaseIs
  <2>. HIDE DEF S, t, l
  <2>6. s \in Seq(S)
    BY <2>1, ConcatProperties
  <2>. HIDE DEF s
  <2>7. s \o t \in Seq(S)
    BY <2>4, <2>6, ConcatProperties
  <2>8. Len(s \o t) \in Nat /\ Len((s \o t) \o l) = Len(s \o t) + Len(l)
    BY <2>4, <2>7, ConcatProperties, LenProperties
  <2>. QED BY <2>3, <2>4, <2>5, <2>8
<1>5. FlattenSeq(Finalize(ctx).blocks) = Padding(message)
  BY <1>3, <1>4, BlocksAre
<1>. QED BY <1>2, <1>5

(* What SHA-256 compresses is the padded message, however it was cut up,    *)
(* and the root that is folded from the branch is that of the tree, for     *)
(* every message, every transaction tree and every size of the blocks.      *)
THEOREM HashesCorrect == Spec => []HashesAreStandard
<1>1. InputInv => HashesAreStandard
  <2>. SUFFICES ASSUME InputInv PROVE HashesAreStandard
    OBVIOUS
  <2>1. ASSUME subject.kind = "message" PROVE PaddingIsStandard(subject.parts)
    <3>1. subject.parts \in Seq(Seq(MessageBytes))
      BY <2>1 DEF InputInv, Allowed
    <3>. QED BY <3>1, PaddingSound
  <2>2. ASSUME subject.kind = "leaves" PROVE BranchGivesRoot(subject.leaves)
    <3>1. subject.leaves \in Seq(Seq(Nat)) /\ subject.leaves # <<>>
      BY <2>2 DEF InputInv, Allowed
    <3>. QED BY <3>1, TreeSound
  <2>. QED BY <2>1, <2>2 DEF HashesAreStandard
<1>. QED BY <1>1, SubjectAllowed, PTL

-----------------------------------------------------------------------------
(* Sums over finite sets, for the statistics.                               *)

(* The element of a set that a sum takes first.                             *)
FirstOf(set) == CHOOSE x \in set : TRUE

(* The sums of all the subsets of a set, f, as the library defines them.    *)
Summed(f, w, set) ==
    f = [s \in SUBSET set |-> IF s = {} THEN 0 ELSE w[FirstOf(s)] + f[s \ {FirstOf(s)}]]

(* Those sums exist.                                                        *)
LEMMA SummedExists ==
    ASSUME NEW w, NEW set, IsFiniteSet(set)
    PROVE  \E f : Summed(f, w, set)
<1>. DEFINE Body(f, s) == IF s = {} THEN 0 ELSE w[FirstOf(s)] + f[s \ {FirstOf(s)}]
            Good(k, f) == /\ f = [s \in SUBSET set |-> f[s]]
                          /\ \A s \in SUBSET set : Cardinality(s) <= k => f[s] = Body(f, s)
            Has == {k \in Nat : \E f : Good(k, f)}
<1>1. \A s \in SUBSET set : IsFiniteSet(s) /\ Cardinality(s) \in Nat
  BY FS_Subset, FS_CardinalityType
<1>2. ASSUME NEW s \in SUBSET set, s # {}
      PROVE  /\ s \ {FirstOf(s)} \in SUBSET set
             /\ Cardinality(s \ {FirstOf(s)}) = Cardinality(s) - 1
  <2>1. FirstOf(s) \in s
    BY <1>2 DEF FirstOf
  <2>. QED BY <1>1, <2>1, FS_RemoveElement
<1>3. 0 \in Has
  <2>. DEFINE f == [s \in SUBSET set |-> 0]
  <2>1. \A s \in SUBSET set : Cardinality(s) <= 0 => s = {}
    BY <1>1, FS_EmptySet
  <2>2. \A s \in SUBSET set : f[s] = 0
    OBVIOUS
  <2>3. f = [s \in SUBSET set |-> f[s]]
    OBVIOUS
  <2>. HIDE DEF f
  <2>4. Good(0, f)
    BY <2>1, <2>2, <2>3
  <2>. HIDE DEF Good
  <2>. QED BY <2>4
<1>4. ASSUME NEW k \in Has PROVE k + 1 \in Has
  <2>1. PICK f : Good(k, f)
    OBVIOUS
  <2>. DEFINE g == [s \in SUBSET set |-> IF Cardinality(s) = k + 1 THEN Body(f, s) ELSE f[s]]
  <2>2. k \in Nat
    OBVIOUS
  <2>3. g = [s \in SUBSET set |-> g[s]]
    OBVIOUS
  <2>4. \A s \in SUBSET set : g[s] = IF Cardinality(s) = k + 1 THEN Body(f, s) ELSE f[s]
    OBVIOUS
  <2>. HIDE DEF g
  <2>5. ASSUME NEW s \in SUBSET set, Cardinality(s) <= k + 1 PROVE g[s] = Body(g, s)
    <3>1. CASE s = {}
      <4>1. Cardinality(s) = 0 /\ 0 # k + 1 /\ 0 <= k
        BY <2>2, <3>1, FS_EmptySet
      <4>2. g[s] = f[s] /\ f[s] = 0
        BY <2>1, <2>4, <3>1, <4>1
      <4>. QED BY <3>1, <4>2
    <3>2. CASE s # {}
      <4>. DEFINE t == s \ {FirstOf(s)}
      <4>1. t \in SUBSET set /\ Cardinality(t) = Cardinality(s) - 1 /\ Cardinality(s) \in Nat
        BY <1>1, <1>2, <3>2
      <4>. HIDE DEF t
      <4>2. Cardinality(t) # k + 1
        BY <2>2, <2>5, <4>1
      <4>3. g[t] = f[t]
        BY <2>4, <4>1, <4>2
      <4>4. g[s] = w[FirstOf(s)] + f[t]
        <5>1. CASE Cardinality(s) = k + 1
          BY <2>4, <3>2, <5>1 DEF t
        <5>2. CASE Cardinality(s) # k + 1
          <6>1. Cardinality(s) <= k
            BY <2>2, <2>5, <4>1, <5>2
          <6>2. g[s] = f[s] /\ f[s] = Body(f, s)
            BY <2>1, <2>4, <5>2, <6>1
          <6>. QED BY <3>2, <6>2 DEF t
        <5>. QED BY <5>1, <5>2
      <4>. QED BY <3>2, <4>3, <4>4 DEF t
    <3>. QED BY <3>1, <3>2
  <2>6. Good(k + 1, g)
    BY <2>3, <2>5
  <2>. HIDE DEF Good
  <2>. QED BY <2>2, <2>6
<1>5. Has = Nat
  <2>1. Has \in SUBSET Nat
    OBVIOUS
  <2>. HIDE DEF Has
  <2>. QED BY <1>3, <1>4, <2>1, Induction
<1>6. Cardinality(set) \in Has
  <2>. HIDE DEF Has
  <2>. QED BY <1>5, FS_CardinalityType
<1>7. PICK f : Good(Cardinality(set), f)
  BY <1>6
<1>8. \A s \in SUBSET set : f[s] = Body(f, s)
  <2>1. \A s \in SUBSET set : Cardinality(s) <= Cardinality(set)
    BY FS_Subset
  <2>. QED BY <1>7, <2>1
<1>9. f = [s \in SUBSET set |-> Body(f, s)]
  BY <1>7, <1>8
<1>. QED BY <1>9 DEF Summed

(* Those of a subset are among them.                                        *)
LEMMA SummedAgree ==
    ASSUME NEW w, NEW set, IsFiniteSet(set), NEW part \in SUBSET set,
           NEW f, Summed(f, w, set), NEW g, Summed(g, w, part)
    PROVE  f[part] = g[part]
<1>. DEFINE Same == {k \in Nat : \A s \in SUBSET part : Cardinality(s) = k => f[s] = g[s]}
<1>1. \A s \in SUBSET part : s \in SUBSET set /\ IsFiniteSet(s) /\ Cardinality(s) \in Nat
  BY FS_Subset, FS_CardinalityType
<1>2. /\ \A s \in SUBSET part :
           /\ f[s] = IF s = {} THEN 0 ELSE w[FirstOf(s)] + f[s \ {FirstOf(s)}]
           /\ g[s] = IF s = {} THEN 0 ELSE w[FirstOf(s)] + g[s \ {FirstOf(s)}]
  <2>1. \A s \in SUBSET set : f[s] = IF s = {} THEN 0 ELSE w[FirstOf(s)] + f[s \ {FirstOf(s)}]
    BY DEF Summed
  <2>2. \A s \in SUBSET part : g[s] = IF s = {} THEN 0 ELSE w[FirstOf(s)] + g[s \ {FirstOf(s)}]
    BY DEF Summed
  <2>. QED BY <1>1, <2>1, <2>2
<1>3. 0 \in Same
  <2>1. \A s \in SUBSET part : Cardinality(s) = 0 => s = {}
    BY <1>1, FS_EmptySet
  <2>. QED BY <1>2, <2>1
<1>4. ASSUME NEW k \in Same PROVE k + 1 \in Same
  <2>. SUFFICES ASSUME NEW s \in SUBSET part, Cardinality(s) = k + 1 PROVE f[s] = g[s]
    OBVIOUS
  <2>1. k \in Nat /\ s # {}
    BY FS_EmptySet
  <2>2. FirstOf(s) \in s
    BY <2>1 DEF FirstOf
  <2>. DEFINE t == s \ {FirstOf(s)}
  <2>3. t \in SUBSET part /\ Cardinality(t) = k
    <3>1. Cardinality(t) = Cardinality(s) - 1
      BY <1>1, <2>2, FS_RemoveElement
    <3>. QED BY <2>1, <3>1
  <2>4. f[t] = g[t]
    <3>. HIDE DEF t
    <3>. QED BY <2>3
  <2>. QED BY <1>2, <2>1, <2>4
<1>5. Same = Nat
  <2>1. Same \in SUBSET Nat
    OBVIOUS
  <2>. HIDE DEF Same
  <2>. QED BY <1>3, <1>4, <2>1, Induction
<1>6. Cardinality(part) \in Same
  <2>. HIDE DEF Same
  <2>. QED BY <1>1, <1>5
<1>. QED BY <1>6

(* A sum takes one element after the other.                                 *)
LEMMA SumTakes ==
    ASSUME NEW w, NEW set, IsFiniteSet(set)
    PROVE  SumFunctionOnSet(w, set) =
             IF set = {} THEN 0
             ELSE w[FirstOf(set)] + SumFunctionOnSet(w, set \ {FirstOf(set)})
<1>1. ASSUME NEW s, IsFiniteSet(s)
      PROVE  \E f : Summed(f, w, s) /\ SumFunctionOnSet(w, s) = f[s]
  <2>1. \E f : Summed(f, w, s)
    BY <1>1, SummedExists
  <2>2. SumFunctionOnSet(w, s) = (CHOOSE f : Summed(f, w, s))[s]
    BY DEF Summed, FirstOf, SumFunctionOnSet, FoldFunctionOnSet, MapThenFoldSet
  <2>. QED BY <2>1, <2>2
<1>2. PICK f : Summed(f, w, set) /\ SumFunctionOnSet(w, set) = f[set]
  BY <1>1
<1>3. f[set] = IF set = {} THEN 0 ELSE w[FirstOf(set)] + f[set \ {FirstOf(set)}]
  <2>1. set \in SUBSET set
    OBVIOUS
  <2>. QED BY <1>2, <2>1 DEF Summed
<1>4. CASE set # {}
  <2>. DEFINE t == set \ {FirstOf(set)}
  <2>1. t \in SUBSET set /\ IsFiniteSet(t)
    BY FS_RemoveElement
  <2>2. PICK g : Summed(g, w, t) /\ SumFunctionOnSet(w, t) = g[t]
    BY <1>1, <2>1
  <2>3. f[t] = g[t]
    <3>. HIDE DEF t
    <3>. QED BY <1>2, <2>1, <2>2, SummedAgree
  <2>. QED BY <1>2, <1>3, <1>4, <2>2, <2>3
<1>. QED BY <1>2, <1>3, <1>4

(* Sums of numbers are numbers.                                             *)
LEMMA SumIs ==
    ASSUME NEW w, NEW set, IsFiniteSet(set), \A x \in set : w[x] \in Nat
    PROVE  SumFunctionOnSet(w, set) \in Nat
<1>. DEFINE Right == {k \in Nat : \A s \in SUBSET set : Cardinality(s) = k =>
                        SumFunctionOnSet(w, s) \in Nat}
<1>1. \A s \in SUBSET set : IsFiniteSet(s) /\ Cardinality(s) \in Nat
  BY FS_Subset, FS_CardinalityType
<1>2. 0 \in Right
  <2>1. \A s \in SUBSET set : Cardinality(s) = 0 => s = {}
    BY <1>1, FS_EmptySet
  <2>2. SumFunctionOnSet(w, {}) = 0
    BY SumTakes, FS_EmptySet
  <2>. QED BY <2>1, <2>2
<1>3. ASSUME NEW k \in Right PROVE k + 1 \in Right
  <2>. SUFFICES ASSUME NEW s \in SUBSET set, Cardinality(s) = k + 1
                PROVE  SumFunctionOnSet(w, s) \in Nat
    OBVIOUS
  <2>1. k \in Nat /\ s # {}
    BY FS_EmptySet
  <2>2. FirstOf(s) \in s /\ w[FirstOf(s)] \in Nat
    BY <2>1 DEF FirstOf
  <2>. DEFINE t == s \ {FirstOf(s)}
  <2>3. t \in SUBSET set /\ Cardinality(t) = k
    <3>1. Cardinality(t) = Cardinality(s) - 1
      BY <1>1, <2>2, FS_RemoveElement
    <3>. QED BY <2>1, <3>1
  <2>4. SumFunctionOnSet(w, t) \in Nat
    <3>. HIDE DEF t
    <3>. QED BY <2>3
  <2>5. SumFunctionOnSet(w, s) = w[FirstOf(s)] + SumFunctionOnSet(w, t)
    BY <1>1, <2>1, SumTakes
  <2>. HIDE DEF t
  <2>. QED BY <2>2, <2>4, <2>5
<1>4. Right = Nat
  <2>1. Right \in SUBSET Nat
    OBVIOUS
  <2>. HIDE DEF Right
  <2>. QED BY <1>2, <1>3, <2>1, Induction
<1>5. Cardinality(set) \in Right /\ set \in SUBSET set
  <2>. HIDE DEF Right
  <2>. QED BY <1>1, <1>4
<1>. QED BY <1>5

(* A sum does not depend on the order in which it is taken.                 *)
LEMMA SumAdds ==
    ASSUME NEW w, NEW set, IsFiniteSet(set), NEW e, e \notin set,
           \A x \in set \cup {e} : w[x] \in Nat
    PROVE  SumFunctionOnSet(w, set \cup {e}) = SumFunctionOnSet(w, set) + w[e]
<1>. DEFINE all == set \cup {e}
            Adds(s, x) == SumFunctionOnSet(w, s \cup {x}) = SumFunctionOnSet(w, s) + w[x]
            Right == {k \in Nat : \A s \in SUBSET all, x \in all :
                                    Cardinality(s) = k /\ x \notin s => Adds(s, x)}
<1>0. IsFiniteSet(all) /\ \A x \in all : w[x] \in Nat
  BY FS_AddElement
<1>. HIDE DEF all
<1>1. \A s \in SUBSET all : /\ IsFiniteSet(s) /\ Cardinality(s) \in Nat
                            /\ SumFunctionOnSet(w, s) \in Nat
  <2>1. \A s \in SUBSET all : IsFiniteSet(s) /\ Cardinality(s) \in Nat
    BY <1>0, FS_Subset, FS_CardinalityType
  <2>. QED BY <1>0, <2>1, SumIs
<1>2. ASSUME NEW s \in SUBSET all, NEW x \in all, x \notin s
      PROVE  /\ SumFunctionOnSet(w, s \cup {x})
                  = w[FirstOf(s \cup {x})]
                      + SumFunctionOnSet(w, (s \cup {x}) \ {FirstOf(s \cup {x})})
             /\ FirstOf(s \cup {x}) \in s \cup {x}
             /\ FirstOf(s \cup {x}) = x => Adds(s, x)
  <2>. DEFINE t == s \cup {x}
  <2>1. IsFiniteSet(t) /\ t # {}
    BY <1>1
  <2>2. SumFunctionOnSet(w, t) = w[FirstOf(t)] + SumFunctionOnSet(w, t \ {FirstOf(t)})
    <3>. HIDE DEF t
    <3>. QED BY <2>1, SumTakes
  <2>3. FirstOf(t) \in t
    BY <2>1 DEF FirstOf
  <2>4. ASSUME FirstOf(t) = x PROVE Adds(s, x)
    <3>1. t \ {x} = s
      BY <1>2
    <3>2. SumFunctionOnSet(w, t) = w[x] + SumFunctionOnSet(w, s)
      BY <2>2, <2>4, <3>1
    <3>3. w[x] \in Nat /\ SumFunctionOnSet(w, s) \in Nat
      BY <1>0, <1>1
    <3>. QED BY <3>2, <3>3
  <2>. QED BY <2>2, <2>3, <2>4
<1>3. 0 \in Right
  <2>1. \A s \in SUBSET all : Cardinality(s) = 0 => s = {}
    BY <1>1, FS_EmptySet
  <2>2. ASSUME NEW x \in all PROVE Adds({}, x)
    <3>1. {} \in SUBSET all /\ x \notin {} /\ {} \cup {x} = {x}
      OBVIOUS
    <3>. HIDE DEF Adds
    <3>. QED BY <1>2, <3>1
  <2>. HIDE DEF Adds
  <2>. QED BY <2>1, <2>2
<1>4. ASSUME NEW k \in Right PROVE k + 1 \in Right
  <2>. SUFFICES ASSUME NEW s \in SUBSET all, NEW x \in all, Cardinality(s) = k + 1, x \notin s
                PROVE  Adds(s, x)
    <3>. HIDE DEF Adds
    <3>. QED OBVIOUS
  <2>. DEFINE c == FirstOf(s \cup {x})
              r == s \ {c}
  <2>1. k \in Nat
    OBVIOUS
  <2>2. CASE c = x
    BY <1>2, <2>2
  <2>3. CASE c # x
    <3>1. c \in s /\ c \in all
      BY <1>2, <2>3
    <3>2. r \in SUBSET all /\ c \notin r /\ x \notin r /\ r \cup {c} = s
      BY <3>1
    <3>3. Cardinality(r) = k
      <4>1. Cardinality(r) = Cardinality(s) - 1
        <5>. HIDE DEF c
        <5>. QED BY <1>1, <3>1, FS_RemoveElement
      <4>. QED BY <2>1, <4>1
    <3>4. (s \cup {x}) \ {c} = r \cup {x}
      BY <2>3, <3>1
    <3>5. SumFunctionOnSet(w, s \cup {x}) = w[c] + SumFunctionOnSet(w, r \cup {x})
      BY <1>2, <3>4
    <3>. HIDE DEF c, r
    <3>6. Adds(r, c) /\ Adds(r, x)
      <4>. HIDE DEF Adds
      <4>. QED BY <3>1, <3>2, <3>3
    <3>7. /\ SumFunctionOnSet(w, s) = SumFunctionOnSet(w, r) + w[c]
          /\ SumFunctionOnSet(w, r \cup {x}) = SumFunctionOnSet(w, r) + w[x]
      BY <3>2, <3>6
    <3>8. w[c] \in Nat /\ w[x] \in Nat /\ SumFunctionOnSet(w, r) \in Nat
      BY <1>0, <1>1, <3>1, <3>2
    <3>. QED BY <3>5, <3>7, <3>8
  <2>. QED BY <2>2, <2>3
<1>5. Right = Nat
  <2>1. Right \in SUBSET Nat
    OBVIOUS
  <2>. HIDE DEF Right
  <2>. QED BY <1>3, <1>4, <2>1, Induction
<1>6. set \in SUBSET all /\ e \in all /\ Cardinality(set) \in Right
  <2>1. set \in SUBSET all /\ e \in all
    BY DEF all
  <2>. HIDE DEF Right
  <2>. QED BY <1>1, <1>5, <2>1
<1>7. Adds(set, e)
  <2>. HIDE DEF Adds
  <2>. QED BY <1>6
<1>. QED BY <1>7

(* A sum of positive numbers is positive.                                   *)
LEMMA SumPositive ==
    ASSUME NEW w, NEW set, IsFiniteSet(set), set # {}, \A x \in set : w[x] \in Nat /\ w[x] > 0
    PROVE  SumFunctionOnSet(w, set) > 0
<1>. DEFINE c == FirstOf(set)
            t == set \ {c}
<1>1. c \in set
  BY DEF FirstOf
<1>2. SumFunctionOnSet(w, set) = w[c] + SumFunctionOnSet(w, t)
  BY SumTakes
<1>3. IsFiniteSet(t) /\ \A x \in t : w[x] \in Nat
  BY FS_RemoveElement
<1>. HIDE DEF c, t
<1>4. SumFunctionOnSet(w, t) \in Nat /\ w[c] \in Nat /\ w[c] > 0
  BY <1>1, <1>3, SumIs
<1>. QED BY <1>2, <1>4

(* A sum goes with what it is taken over.                                   *)
LEMMA SumImage ==
    ASSUME NEW w, NEW v, NEW h, NEW set, IsFiniteSet(set),
           \A x \in set : w[h[x]] \in Nat /\ v[x] = w[h[x]],
           \A x, y \in set : h[x] = h[y] => x = y
    PROVE  SumFunctionOnSet(v, set) = SumFunctionOnSet(w, {h[x] : x \in set})
<1>. DEFINE Image(s) == {h[x] : x \in s}
            Right == {k \in Nat : \A s \in SUBSET set : Cardinality(s) = k =>
                        /\ IsFiniteSet(Image(s))
                        /\ SumFunctionOnSet(v, s) = SumFunctionOnSet(w, Image(s))}
<1>1. \A s \in SUBSET set : IsFiniteSet(s) /\ Cardinality(s) \in Nat
  BY FS_Subset, FS_CardinalityType
<1>2. 0 \in Right
  <2>1. \A s \in SUBSET set : Cardinality(s) = 0 => s = {} /\ Image(s) = {}
    BY <1>1, FS_EmptySet
  <2>2. SumFunctionOnSet(v, {}) = 0 /\ SumFunctionOnSet(w, {}) = 0 /\ IsFiniteSet({})
    BY SumTakes, FS_EmptySet
  <2>. HIDE DEF Image
  <2>. QED BY <2>1, <2>2
<1>3. ASSUME NEW k \in Right PROVE k + 1 \in Right
  <2>. SUFFICES ASSUME NEW s \in SUBSET set, Cardinality(s) = k + 1
                PROVE  /\ IsFiniteSet(Image(s))
                       /\ SumFunctionOnSet(v, s) = SumFunctionOnSet(w, Image(s))
    <3>. HIDE DEF Image
    <3>. QED OBVIOUS
  <2>1. k \in Nat /\ s # {}
    BY FS_EmptySet
  <2>2. PICK c : c \in s
    BY <2>1
  <2>. DEFINE t == s \ {c}
  <2>3. t \in SUBSET set /\ Cardinality(t) = k /\ t \cup {c} = s /\ c \notin t
    <3>1. Cardinality(t) = Cardinality(s) - 1
      BY <1>1, <2>2, FS_RemoveElement
    <3>. QED BY <2>1, <2>2, <3>1
  <2>. HIDE DEF t
  <2>4. Image(s) = Image(t) \cup {h[c]} /\ h[c] \notin Image(t)
    <3>1. \A x \in t : h[x] # h[c]
      BY <2>2, <2>3
    <3>. QED BY <2>2, <2>3, <3>1
  <2>5. IsFiniteSet(Image(t)) /\ SumFunctionOnSet(v, t) = SumFunctionOnSet(w, Image(t))
    <3>. HIDE DEF Image
    <3>. QED BY <2>3
  <2>6. \A y \in Image(t) \cup {h[c]} : w[y] \in Nat
    BY <2>2, <2>3
  <2>7. \A x \in t \cup {c} : v[x] \in Nat
    BY <2>2, <2>3
  <2>. HIDE DEF Image
  <2>8. SumFunctionOnSet(w, Image(t) \cup {h[c]}) = SumFunctionOnSet(w, Image(t)) + w[h[c]]
    BY <2>4, <2>5, <2>6, SumAdds
  <2>9. SumFunctionOnSet(v, t \cup {c}) = SumFunctionOnSet(v, t) + v[c]
    BY <1>1, <2>3, <2>7, SumAdds
  <2>10. v[c] = w[h[c]] /\ IsFiniteSet(Image(t) \cup {h[c]})
    BY <2>2, <2>5, FS_AddElement
  <2>. QED BY <2>3, <2>4, <2>5, <2>8, <2>9, <2>10
<1>4. Right = Nat
  <2>1. Right \in SUBSET Nat
    OBVIOUS
  <2>. HIDE DEF Right
  <2>. QED BY <1>2, <1>3, <2>1, Induction
<1>5. Cardinality(set) \in Right /\ set \in SUBSET set
  <2>. HIDE DEF Right
  <2>. QED BY <1>1, <1>4
<1>. QED BY <1>5

(* The recordings there can be, and what the statistics hold.               *)
Recordings == Recording({"hashes", "share", "begin", "end"}, Nat, Nat)
Samples == [at : Nat, hashes : Nat]
StatisticsTypes == [samples : Seq(Samples), hashes : Nat, sessionHashes : Nat, best : Nat]

(* What has been recorded of a kind, with the first n recordings, and the   *)
(* place of the last recording of some kinds, or 0.                         *)
Amounts(recordings) == [i \in DOMAIN recordings |-> recordings[i].amount]
Recent(recordings, kind, from, n) == {i \in 1 .. n : i > from /\ recordings[i].kind = kind}
IsLast(recordings, kinds, n, last) ==
    /\ last \in 0 .. n
    /\ last # 0 => recordings[last].kind \in kinds
    /\ \A i \in 1 .. n : i > last => recordings[i].kind \notin kinds
IsGreatest(m, set) == m \in set /\ \A x \in set : x <= m

(* The counters after n recordings.                                         *)
TotalIs(recordings, s, n) ==
    s.hashes = SumFunctionOnSet(Amounts(recordings), Recent(recordings, "hashes", 0, n))
SessionIs(recordings, s, n, last) ==
    /\ IsLast(recordings, {"begin"}, n, last)
    /\ s.sessionHashes =
         SumFunctionOnSet(Amounts(recordings), Recent(recordings, "hashes", last, n))
    /\ IsGreatest(s.best, {0} \cup {recordings[i].amount :
                                      i \in Recent(recordings, "share", last, n)})

(* The samples after n recordings: each is one of the recordings since the  *)
(* session changed, and none of those is missing unless a later one is so   *)
(* late that its sample was pruned.                                         *)
Counted(recordings, last, p) ==
    p > last /\ recordings[p].kind = "hashes" /\ recordings[p].amount > 0
SamplesAre(recordings, samples, places, n, last) ==
    /\ IsLast(recordings, {"begin", "end"}, n, last)
    /\ samples \in Seq(Samples)
    /\ \A i \in 1 .. Len(samples) :
         /\ places[i] \in 1 .. n /\ Counted(recordings, last, places[i])
         /\ samples[i].at = recordings[places[i]].at
         /\ samples[i].hashes = recordings[places[i]].amount
    /\ \A i, j \in 1 .. Len(samples) : places[i] = places[j] => i = j
    /\ \A p \in 1 .. n : Counted(recordings, last, p) =>
         \/ \E i \in 1 .. Len(samples) : places[i] = p
         \/ \E m \in 1 .. n : recordings[p].at + Kept < recordings[m].at

(* The least of a set of numbers is in it.                                  *)
LEMMA MinIn ==
    ASSUME NEW set \in SUBSET Nat, set # {}
    PROVE  Min(set) \in set /\ \A y \in set : Min(set) <= y
<1>1. \E x \in set : \A y \in set : x <= y
  BY LeastOf
<1>. QED BY <1>1 DEF Min

(* The greatest of a set of numbers is the one that no other exceeds.       *)
LEMMA MaxEquals ==
    ASSUME NEW set \in SUBSET Nat, NEW m, IsGreatest(m, set)
    PROVE  Max(set) = m
<1>1. m \in set /\ \A x \in set : m >= x
  BY DEF IsGreatest
<1>2. Max(set) \in set /\ \A x \in set : Max(set) >= x
  BY <1>1 DEF Max
<1>3. Max(set) >= m /\ m >= Max(set) /\ Max(set) \in Nat /\ m \in Nat
  BY <1>1, <1>2
<1>. QED BY <1>3

(* What one more recording adds to those of a kind.                         *)
Grows(recordings, kind, from, n, next) ==
    /\ Recent(recordings, kind, from, next) =
         IF recordings[next].kind = kind THEN Recent(recordings, kind, from, n) \cup {next}
         ELSE Recent(recordings, kind, from, n)
    /\ next \notin Recent(recordings, kind, from, n)
    /\ IsFiniteSet(Recent(recordings, kind, from, n))
    /\ Recent(recordings, kind, from, n) \in SUBSET (1 .. n)
    /\ Recent(recordings, kind, next, next) = {}

(* One more recording is one more of its own kind.                          *)
LEMMA RecentGrows ==
    ASSUME NEW recordings, NEW kind, NEW n \in Nat, NEW from \in 0 .. n, NEW next, next = n + 1
    PROVE  Grows(recordings, kind, from, n, next)
<1>1. \A i \in 1 .. next : i \in 1 .. n \/ i = next
  OBVIOUS
<1>2. \A i \in 1 .. n : i \in 1 .. next /\ i # next
  OBVIOUS
<1>3. next \in 1 .. next /\ next > from
  OBVIOUS
<1>4. IsFiniteSet(1 .. n) /\ Recent(recordings, kind, from, n) \in SUBSET (1 .. n)
  <2>1. 1 \in Int /\ n \in Int
    OBVIOUS
  <2>. QED BY <2>1, FS_Interval DEF Recent
<1>5. IsFiniteSet(Recent(recordings, kind, from, n))
  BY <1>4, FS_Subset
<1>6. \A i \in 1 .. next : ~(i > next)
  OBVIOUS
<1>. QED BY <1>1, <1>2, <1>3, <1>4, <1>5, <1>6 DEF Recent, Grows

(* One more recording adds to the sum of its own kind.                      *)
LEMMA SumGrows ==
    ASSUME NEW recordings \in Seq(Recordings), NEW kind, NEW n \in 0 .. Len(recordings) - 1,
           NEW from \in 0 .. n, NEW next, next = n + 1
    PROVE  LET sum(m) == SumFunctionOnSet(Amounts(recordings), Recent(recordings, kind, from, m))
           IN  /\ sum(n) \in Nat
               /\ sum(next) = IF recordings[next].kind = kind
                               THEN sum(n) + recordings[next].amount ELSE sum(n)
<1>. DEFINE w == Amounts(recordings)
            set == Recent(recordings, kind, from, n)
<1>1. /\ Len(recordings) \in Nat /\ DOMAIN recordings = 1 .. Len(recordings)
      /\ \A i \in 1 .. Len(recordings) : recordings[i] \in Recordings
  BY LenProperties, ElementOfSeq
<1>2. \A i \in 1 .. Len(recordings) : w[i] = recordings[i].amount /\ w[i] \in Nat
  BY <1>1 DEF Amounts, Recordings, Recording
<1>3. n \in Nat /\ from \in 0 .. n /\ next \in 1 .. Len(recordings)
      /\ \A i \in 1 .. n : i \in 1 .. Len(recordings)
  BY <1>1
<1>4. /\ Recent(recordings, kind, from, next) =
           IF recordings[next].kind = kind THEN set \cup {next} ELSE set
      /\ next \notin set /\ IsFiniteSet(set) /\ set \in SUBSET (1 .. n)
  <2>1. n \in Nat /\ from \in 0 .. n
    BY <1>3
  <2>2. Grows(recordings, kind, from, n, next)
    BY <2>1, RecentGrows
  <2>. QED BY <2>2 DEF Grows
<1>. HIDE DEF w, set
<1>5. SumFunctionOnSet(w, set) \in Nat
  BY <1>2, <1>3, <1>4, SumIs
<1>6. SumFunctionOnSet(w, set \cup {next}) = SumFunctionOnSet(w, set) + w[next]
  <2>1. \A i \in set \cup {next} : w[i] \in Nat
    BY <1>2, <1>3, <1>4
  <2>. QED BY <1>4, <2>1, SumAdds
<1>. QED BY <1>2, <1>3, <1>4, <1>5, <1>6 DEF w, set

(* What a recording does to the counters.                                   *)
LEMMA RecordedIs ==
    ASSUME NEW s \in StatisticsTypes, NEW r \in Recordings
    PROVE  LET new == Recorded(s, r)
               added == Append(s.samples, [at |-> r.at, hashes |-> r.amount])
           IN  /\ new.hashes = IF r.kind = "hashes" THEN s.hashes + r.amount ELSE s.hashes
               /\ new.sessionHashes = IF r.kind = "begin" THEN 0
                                      ELSE IF r.kind = "hashes" THEN s.sessionHashes + r.amount
                                      ELSE s.sessionHashes
               /\ new.best = IF r.kind = "begin" THEN 0
                             ELSE IF r.kind = "share" /\ r.amount > s.best THEN r.amount
                             ELSE s.best
               /\ new.samples = IF r.kind \in {"begin", "end"} THEN <<>>
                                ELSE IF r.kind = "hashes" /\ r.amount > 0
                                     THEN Pruned(added, r.at) ELSE s.samples
               /\ DOMAIN new = {"samples", "hashes", "sessionHashes", "best"}
               /\ new = [samples |-> new.samples, hashes |-> new.hashes,
                         sessionHashes |-> new.sessionHashes, best |-> new.best]
<1>1. /\ r.kind \in {"hashes", "share", "begin", "end"} /\ r.amount \in Nat
      /\ s = [samples |-> s.samples, hashes |-> s.hashes, sessionHashes |-> s.sessionHashes,
              best |-> s.best]
      /\ s.hashes \in Nat /\ s.sessionHashes \in Nat /\ s.best \in Nat
  BY DEF Recordings, Recording, StatisticsTypes
<1>2. CASE r.kind = "hashes"
  <2>1. Recorded(s, r) = AddHashes(s, r)
    BY <1>2 DEF Recorded
  <2>2. CASE r.amount = 0
    <3>1. Recorded(s, r) = s
      BY <2>1, <2>2 DEF AddHashes
    <3>. QED BY <1>1, <1>2, <2>2, <3>1
  <2>3. CASE r.amount # 0
    <3>. DEFINE p == Pruned(Append(s.samples, [at |-> r.at, hashes |-> r.amount]), r.at)
    <3>1. Recorded(s, r) = [s EXCEPT !.hashes = s.hashes + r.amount,
                                     !.sessionHashes = s.sessionHashes + r.amount, !.samples = p]
      BY <2>1, <2>3 DEF AddHashes
    <3>. HIDE DEF p
    <3>2. Recorded(s, r) = [samples |-> p, hashes |-> s.hashes + r.amount,
                            sessionHashes |-> s.sessionHashes + r.amount, best |-> s.best]
      BY <1>1, <3>1
    <3>3. r.amount > 0
      BY <1>1, <2>3
    <3>. QED BY <1>1, <1>2, <3>2, <3>3 DEF p
  <2>. QED BY <2>2, <2>3
<1>3. CASE r.kind = "share"
  <2>1. Recorded(s, r) = [s EXCEPT !.best = IF r.amount > s.best THEN r.amount ELSE s.best]
    BY <1>3 DEF Recorded, RecordAcceptedShare
  <2>2. Recorded(s, r) = [samples |-> s.samples, hashes |-> s.hashes,
                          sessionHashes |-> s.sessionHashes,
                          best |-> IF r.amount > s.best THEN r.amount ELSE s.best]
    BY <1>1, <2>1
  <2>. QED BY <1>1, <1>3, <2>2
<1>4. CASE r.kind = "begin"
  <2>1. Recorded(s, r) = [s EXCEPT !.sessionHashes = 0, !.samples = <<>>, !.best = 0]
    BY <1>4 DEF Recorded, BeginSession
  <2>2. Recorded(s, r) = [samples |-> <<>>, hashes |-> s.hashes, sessionHashes |-> 0, best |-> 0]
    BY <1>1, <2>1
  <2>. QED BY <1>1, <1>4, <2>2
<1>5. CASE r.kind = "end"
  <2>1. Recorded(s, r) = [s EXCEPT !.samples = <<>>]
    BY <1>5 DEF Recorded, EndSession
  <2>2. Recorded(s, r) = [samples |-> <<>>, hashes |-> s.hashes,
                          sessionHashes |-> s.sessionHashes, best |-> s.best]
    BY <1>1, <2>1
  <2>. QED BY <1>1, <1>5, <2>2
<1>. QED BY <1>1, <1>2, <1>3, <1>4, <1>5

(* Each recording keeps the total,                                          *)
LEMMA TotalStep ==
    ASSUME NEW recordings \in Seq(Recordings), NEW n \in 0 .. Len(recordings) - 1,
           NEW next, next = n + 1, NEW s \in StatisticsTypes, TotalIs(recordings, s, n)
    PROVE  TotalIs(recordings, Recorded(s, recordings[next]), next)
<1>. DEFINE r == recordings[next]
            sum(m) == SumFunctionOnSet(Amounts(recordings), Recent(recordings, "hashes", 0, m))
<1>1. n \in Nat /\ 0 \in 0 .. n /\ next \in 1 .. Len(recordings)
  BY LenProperties
<1>2. r \in Recordings
  BY <1>1, ElementOfSeq
<1>3. sum(n) \in Nat /\ sum(next) = IF r.kind = "hashes" THEN sum(n) + r.amount ELSE sum(n)
  BY <1>1, SumGrows
<1>4. Recorded(s, r).hashes = IF r.kind = "hashes" THEN s.hashes + r.amount ELSE s.hashes
  <2>. HIDE DEF r
  <2>. QED BY <1>2, RecordedIs
<1>5. s.hashes = sum(n)
  BY DEF TotalIs
<1>6. Recorded(s, r).hashes = sum(next)
  <2>. HIDE DEF r, sum
  <2>. QED BY <1>3, <1>4, <1>5
<1>. QED BY <1>6 DEF TotalIs

(* the place of the last recording of some kinds,                           *)
LEMMA LastGrows ==
    ASSUME NEW recordings, NEW kinds, NEW n \in Nat, NEW last, NEW next, next = n + 1,
           IsLast(recordings, kinds, n, last)
    PROVE  /\ recordings[next].kind \in kinds => IsLast(recordings, kinds, next, next)
           /\ recordings[next].kind \notin kinds => IsLast(recordings, kinds, next, last)
           /\ last \in 0 .. n /\ last \in Nat
<1>1. /\ last \in 0 .. n /\ last \in Nat /\ last \in 0 .. next /\ next \in 0 .. next
      /\ \A i \in 1 .. next : ~(i > next)
      /\ \A i \in 1 .. next : i \in 1 .. n \/ i = next
  BY DEF IsLast
<1>. QED BY <1>1 DEF IsLast

(* the counters of the session,                                             *)
LEMMA SessionStep ==
    ASSUME NEW recordings \in Seq(Recordings), NEW n \in 0 .. Len(recordings) - 1,
           NEW next, next = n + 1, NEW s \in StatisticsTypes, NEW last,
           SessionIs(recordings, s, n, last)
    PROVE  \E l : SessionIs(recordings, Recorded(s, recordings[next]), next, l)
<1>. DEFINE r == recordings[next]
            new == Recorded(s, r)
            best(l, m) == {0} \cup {recordings[i].amount : i \in Recent(recordings, "share", l, m)}
            sum(l, m) == SumFunctionOnSet(Amounts(recordings), Recent(recordings, "hashes", l, m))
<1>1. /\ n \in Nat /\ next \in 1 .. Len(recordings) /\ Len(recordings) \in Nat
      /\ \A i \in 1 .. n : i \in 1 .. Len(recordings)
  BY LenProperties
<1>2. /\ r \in Recordings /\ r.amount \in Nat /\ s.best \in Nat
      /\ \A i \in 1 .. n : recordings[i].amount \in Nat
  <2>1. \A i \in 1 .. Len(recordings) : recordings[i] \in Recordings
    BY ElementOfSeq
  <2>. QED BY <1>1, <2>1 DEF Recordings, Recording, StatisticsTypes
<1>3. /\ new.sessionHashes = IF r.kind = "begin" THEN 0
                             ELSE IF r.kind = "hashes" THEN s.sessionHashes + r.amount
                             ELSE s.sessionHashes
      /\ new.best = IF r.kind = "begin" THEN 0
                    ELSE IF r.kind = "share" /\ r.amount > s.best THEN r.amount
                    ELSE s.best
  <2>. HIDE DEF r
  <2>. QED BY <1>2, RecordedIs DEF new
<1>4. /\ IsLast(recordings, {"begin"}, n, last) /\ s.sessionHashes = sum(last, n)
      /\ IsGreatest(s.best, best(last, n))
  BY DEF SessionIs
<1>5. /\ r.kind \in {"begin"} => IsLast(recordings, {"begin"}, next, next)
      /\ r.kind \notin {"begin"} => IsLast(recordings, {"begin"}, next, last)
      /\ last \in 0 .. n
  <2>. HIDE DEF SessionIs
  <2>. QED BY <1>1, <1>4, LastGrows
<1>6. Grows(recordings, "share", last, n, next) /\ Grows(recordings, "hashes", last, n, next)
  BY <1>1, <1>5, RecentGrows
<1>7. CASE r.kind = "begin"
  <2>1. /\ Recent(recordings, "hashes", next, next) = {}
        /\ Recent(recordings, "share", next, next) = {}
    BY <1>6 DEF Grows
  <2>2. sum(next, next) = 0
    BY <2>1, SumTakes, FS_EmptySet
  <2>3. IsGreatest(0, best(next, next))
    BY <2>1 DEF IsGreatest
  <2>4. new.sessionHashes = sum(next, next) /\ IsGreatest(new.best, best(next, next))
    <3>. HIDE DEF r, new, sum, best
    <3>. QED BY <1>3, <1>7, <2>2, <2>3
  <2>5. SessionIs(recordings, new, next, next)
    BY <1>5, <1>7, <2>4 DEF SessionIs
  <2>. QED BY <2>5
<1>8. CASE r.kind # "begin"
  <2>1. sum(last, n) \in Nat /\ sum(last, next) = IF r.kind = "hashes" THEN sum(last, n) + r.amount
                                                 ELSE sum(last, n)
    BY <1>5, SumGrows
  <2>2. new.sessionHashes = sum(last, next)
    <3>. HIDE DEF r, new, sum, best
    <3>. QED BY <1>3, <1>4, <1>8, <2>1
  <2>3. best(last, next) = IF r.kind = "share" THEN best(last, n) \cup {r.amount} ELSE best(last, n)
    BY <1>6 DEF Grows
  <2>4. \A x \in best(last, n) : x \in Nat
    <3>1. Recent(recordings, "share", last, n) \in SUBSET (1 .. n)
      BY <1>6 DEF Grows
    <3>. QED BY <1>2, <3>1
  <2>5. IsGreatest(new.best, best(last, next))
    <3>. HIDE DEF r, new, sum, best
    <3>. QED BY <1>2, <1>3, <1>4, <1>8, <2>3, <2>4 DEF IsGreatest
  <2>6. SessionIs(recordings, new, next, last)
    BY <1>5, <1>8, <2>2, <2>5 DEF SessionIs
  <2>. QED BY <2>6
<1>. QED BY <1>7, <1>8

(* and the samples: pruning drops those from before the first one to keep.  *)
PrunedFrom(samples, after, now, m, size) ==
    /\ m \in 1 .. size /\ after \in Seq(Samples) /\ Len(after) = size - m + 1
    /\ \A i \in 1 .. size - m + 1 : after[i] = samples[m + i - 1]
    /\ \A i \in 1 .. size : i < m => samples[i].at + Kept < now

(* The last sample is always one to keep.                                   *)
LEMMA PrunedIs ==
    ASSUME NEW samples \in Seq(Samples), samples # <<>>, NEW now \in Nat,
           samples[Len(samples)].at = now
    PROVE  \E m : PrunedFrom(samples, Pruned(samples, now), now, m, Len(samples))
<1>. DEFINE kept == {i \in 1 .. Len(samples) : samples[i].at >= now - Kept}
            m == Min(kept)
            N == Len(samples)
<1>1. /\ N \in Nat \ {0} /\ Kept \in Nat
      /\ \A i \in 1 .. N : samples[i] \in Samples /\ samples[i].at \in Nat
  <2>1. N \in Nat \ {0} /\ \A i \in 1 .. N : samples[i] \in Samples
    BY EmptySeq, ElementOfSeq
  <2>. QED BY <2>1, WindowsAssumption DEF Samples
<1>2. kept # {} /\ kept \in SUBSET Nat
  <2>1. N \in kept
    BY <1>1
  <2>. QED BY <2>1
<1>3. m \in kept /\ \A i \in kept : m <= i
  <2>. HIDE DEF kept
  <2>. QED BY <1>2, MinIn
<1>4. Pruned(samples, now) = SubSeq(samples, m, N)
  BY <1>2 DEF Pruned
<1>5. m \in 1 .. N
  BY <1>3
<1>6. \A i \in 1 .. N : i < m => samples[i].at + Kept < now
  <2>1. ASSUME NEW i \in 1 .. N, i < m PROVE samples[i].at + Kept < now
    <3>1. i \notin kept
      <4>. HIDE DEF kept
      <4>. QED BY <1>3, <1>5, <2>1
    <3>. QED BY <1>1, <3>1
  <2>. QED BY <2>1
<1>. HIDE DEF m, N
<1>7. /\ SubSeq(samples, m, N) \in Seq(Samples)
      /\ Len(SubSeq(samples, m, N)) = N - m + 1
      /\ \A i \in 1 .. N - m + 1 : SubSeq(samples, m, N)[i] = samples[m + i - 1]
  <2>1. m \in Int /\ N \in Int /\ m <= N /\ \A i \in m .. N : i \in 1 .. N
    BY <1>1, <1>5
  <2>2. \A i \in m .. N : samples[i] \in Samples
    BY <1>1, <2>1
  <2>3. /\ SubSeq(samples, m, N) \in Seq(Samples)
        /\ Len(SubSeq(samples, m, N)) = IF m <= N THEN N - m + 1 ELSE 0
        /\ \A i \in 1 .. N - m + 1 : SubSeq(samples, m, N)[i] = samples[m + i - 1]
    BY <2>1, <2>2, SubSeqProperties
  <2>. QED BY <2>1, <2>3
<1>8. m \in 1 .. Len(samples) /\ N = Len(samples)
  BY <1>5 DEF N
<1>9. PrunedFrom(samples, Pruned(samples, now), now, m, Len(samples))
  BY <1>4, <1>6, <1>7, <1>8 DEF PrunedFrom
<1>. QED BY <1>9

(* A recording that is not counted leaves the samples as they are.          *)
LEMMA SamplesStay ==
    ASSUME NEW recordings, NEW samples, NEW places, NEW n \in Nat, NEW last,
           NEW next, next = n + 1, SamplesAre(recordings, samples, places, n, last),
           recordings[next].kind \notin {"begin", "end"}, ~Counted(recordings, last, next)
    PROVE  SamplesAre(recordings, samples, places, next, last)
<1>1. IsLast(recordings, {"begin", "end"}, next, last)
  BY LastGrows DEF SamplesAre
<1>2. /\ \A i \in 1 .. n : i \in 1 .. next
      /\ \A i \in 1 .. next : i \in 1 .. n \/ i = next
  OBVIOUS
<1>. HIDE DEF Counted
<1>3. \A p \in 1 .. next : Counted(recordings, last, p) =>
         \/ \E i \in 1 .. Len(samples) : places[i] = p
         \/ \E m \in 1 .. next : recordings[p].at + Kept < recordings[m].at
  BY <1>2 DEF SamplesAre
<1>. QED BY <1>1, <1>2, <1>3 DEF SamplesAre

(* When the session changes there are none.                                 *)
LEMMA SamplesGone ==
    ASSUME NEW recordings, NEW places, NEW n \in Nat, NEW last, NEW next, next = n + 1,
           IsLast(recordings, {"begin", "end"}, n, last),
           recordings[next].kind \in {"begin", "end"}
    PROVE  SamplesAre(recordings, <<>>, places, next, next)
<1>1. IsLast(recordings, {"begin", "end"}, next, next)
  BY LastGrows
<1>2. \A p \in 1 .. next : ~Counted(recordings, next, p)
  BY DEF Counted
<1>. DEFINE S == Samples
<1>3. <<>> \in Seq(S) /\ Len(<<>>) = 0
  <2>. HIDE DEF S
  <2>. QED BY EmptySeq
<1>4. 1 .. Len(<<>>) = {}
  BY <1>3
<1>. QED BY <1>1, <1>2, <1>3, <1>4 DEF SamplesAre

(* A recording that is counted is added, and older ones are pruned.         *)
LEMMA SamplesAdd ==
    ASSUME NEW recordings \in Seq(Recordings), NEW samples, NEW places,
           NEW n \in 0 .. Len(recordings) - 1, NEW last,
           NEW next, next = n + 1, SamplesAre(recordings, samples, places, n, last),
           Counted(recordings, last, next),
           NEW added, added = Append(samples, [at |-> recordings[next].at,
                                               hashes |-> recordings[next].amount])
    PROVE  \E new : SamplesAre(recordings, Pruned(added, recordings[next].at), new, next, last)
<1>. DEFINE k == Len(samples)
            r == recordings[next]
            sample == [at |-> r.at, hashes |-> r.amount]
            pruned == Pruned(added, r.at)
            all == [i \in 1 .. k + 1 |-> IF i = k + 1 THEN next ELSE places[i]]
<1>1. /\ n \in Nat /\ Len(recordings) \in Nat /\ next \in 1 .. Len(recordings)
      /\ \A i \in 1 .. n : i \in 1 .. next /\ i # next
      /\ \A i \in 1 .. next : i \in 1 .. n \/ i = next
      /\ next \in 1 .. next
  BY LenProperties
<1>2. r.at \in Nat /\ r.amount \in Nat /\ r.kind = "hashes"
  <2>1. r \in Recordings
    BY <1>1, ElementOfSeq
  <2>. QED BY <2>1 DEF Recordings, Recording, Counted
<1>3. /\ IsLast(recordings, {"begin", "end"}, n, last) /\ samples \in Seq(Samples)
      /\ \A i \in 1 .. k : /\ places[i] \in 1 .. n /\ Counted(recordings, last, places[i])
                           /\ samples[i].at = recordings[places[i]].at
                           /\ samples[i].hashes = recordings[places[i]].amount
      /\ \A i, j \in 1 .. k : places[i] = places[j] => i = j
      /\ \A p \in 1 .. n : Counted(recordings, last, p) =>
           \/ \E i \in 1 .. k : places[i] = p
           \/ \E m \in 1 .. n : recordings[p].at + Kept < recordings[m].at
  BY DEF SamplesAre
<1>4. k \in Nat
  BY <1>3, LenProperties
<1>5. /\ added \in Seq(Samples) /\ added # <<>> /\ Len(added) = k + 1 /\ added[k + 1] = sample
      /\ \A i \in 1 .. k : added[i] = samples[i]
  <2>. DEFINE S == Samples
  <2>1. sample \in S
    BY <1>2 DEF Samples
  <2>2. samples \in Seq(S) /\ added = Append(samples, sample)
    BY <1>3
  <2>3. /\ Append(samples, sample) \in Seq(S) /\ Append(samples, sample) # <<>>
        /\ Len(Append(samples, sample)) = k + 1
        /\ \A i \in 1 .. k : Append(samples, sample)[i] = samples[i]
        /\ Append(samples, sample)[k + 1] = sample
    <3>. HIDE DEF S, sample
    <3>1. k = Len(samples)
      OBVIOUS
    <3>. HIDE DEF k
    <3>. QED BY <1>4, <2>1, <2>2, <3>1, AppendProperties
  <2>. HIDE DEF k, sample
  <2>. QED BY <2>2, <2>3
<1>6. PICK m \in 1 .. k + 1 :
        /\ pruned \in Seq(Samples) /\ Len(pruned) = (k + 1) - m + 1
        /\ \A i \in 1 .. (k + 1) - m + 1 : pruned[i] = added[m + i - 1]
        /\ \A i \in 1 .. k + 1 : i < m => added[i].at + Kept < r.at
  <2>1. added[Len(added)].at = r.at
    BY <1>5
  <2>. HIDE DEF r, k
  <2>2. \E m : PrunedFrom(added, pruned, r.at, m, Len(added))
    BY <1>2, <1>5, <2>1, PrunedIs
  <2>3. \E m : PrunedFrom(added, pruned, r.at, m, k + 1)
    BY <1>5, <2>2
  <2>4. PICK m : PrunedFrom(added, pruned, r.at, m, k + 1)
    BY <2>3
  <2>. HIDE DEF pruned
  <2>5. /\ m \in 1 .. k + 1 /\ pruned \in Seq(Samples) /\ Len(pruned) = (k + 1) - m + 1
        /\ \A i \in 1 .. (k + 1) - m + 1 : pruned[i] = added[m + i - 1]
        /\ \A i \in 1 .. k + 1 : i < m => added[i].at + Kept < r.at
    BY <2>4 DEF PrunedFrom
  <2>. QED BY <2>5
<1>. DEFINE size == (k + 1) - m + 1
            new == [i \in 1 .. size |-> all[m + i - 1]]
<1>7. IsLast(recordings, {"begin", "end"}, next, last)
  BY <1>1, <1>2, <1>3, LastGrows
<1>8. ASSUME NEW i \in 1 .. k + 1
      PROVE  /\ all[i] \in 1 .. next /\ Counted(recordings, last, all[i])
             /\ added[i].at = recordings[all[i]].at /\ added[i].hashes = recordings[all[i]].amount
  <2>1. CASE i = k + 1
    <3>1. all[i] = next /\ added[i] = sample
      BY <1>5, <2>1
    <3>. HIDE DEF all
    <3>. QED BY <1>1, <3>1
  <2>2. CASE i # k + 1
    <3>1. i \in 1 .. k
      BY <1>4, <2>2
    <3>2. all[i] = places[i] /\ added[i] = samples[i]
      BY <1>5, <2>2, <3>1
    <3>. HIDE DEF all
    <3>. QED BY <1>1, <1>3, <3>1, <3>2
  <2>. QED BY <2>1, <2>2
<1>9. ASSUME NEW i \in 1 .. k + 1, NEW j \in 1 .. k + 1, all[i] = all[j] PROVE i = j
  <2>1. \A h \in 1 .. k + 1 : h = k + 1 \/ h \in 1 .. k
    BY <1>4
  <2>2. \A h \in 1 .. k : all[h] = places[h] /\ places[h] # next
    <3>1. \A h \in 1 .. k : h \in 1 .. k + 1 /\ h # k + 1
      BY <1>4
    <3>. QED BY <1>1, <1>3, <3>1
  <2>3. all[k + 1] = next
    BY <1>4
  <2>. HIDE DEF all
  <2>. QED BY <1>3, <1>9, <2>1, <2>2, <2>3
<1>10. \A i \in 1 .. size : m + i - 1 \in 1 .. k + 1 /\ new[i] = all[m + i - 1]
  <2>1. \A i \in 1 .. size : m + i - 1 \in 1 .. k + 1
    BY <1>4
  <2>. HIDE DEF all
  <2>. QED BY <2>1
<1>11. \A h \in 1 .. k + 1 : h < m \/ \E i \in 1 .. size : m + i - 1 = h
  <2>1. ASSUME NEW h \in 1 .. k + 1, ~(h < m) PROVE \E i \in 1 .. size : m + i - 1 = h
    <3>1. h - m + 1 \in 1 .. size /\ m + (h - m + 1) - 1 = h
      BY <1>4, <2>1
    <3>. QED BY <3>1
  <2>. QED BY <2>1
<1>12. \A i, j \in 1 .. size : m + i - 1 = m + j - 1 => i = j
  BY <1>4
<1>13. k + 1 \in 1 .. k + 1 /\ \A h \in 1 .. k : h \in 1 .. k + 1 /\ h # k + 1
  BY <1>4
<1>14. all[k + 1] = next /\ \A h \in 1 .. k : all[h] = places[h]
  BY <1>13
<1>. HIDE DEF k, all, size, new, pruned, r
<1>15. ASSUME NEW p \in 1 .. next, Counted(recordings, last, p)
       PROVE  \/ \E i \in 1 .. size : new[i] = p
              \/ \E l \in 1 .. next : recordings[p].at + Kept < recordings[l].at
  <2>1. ASSUME NEW h \in 1 .. k + 1, all[h] = p
        PROVE  \/ \E i \in 1 .. size : new[i] = p
               \/ \E l \in 1 .. next : recordings[p].at + Kept < recordings[l].at
    <3>1. CASE h < m
      <4>1. added[h].at + Kept < r.at /\ added[h].at = recordings[p].at
        BY <1>6, <1>8, <2>1, <3>1
      <4>. QED BY <1>1, <4>1 DEF r
    <3>2. CASE \E i \in 1 .. size : m + i - 1 = h
      BY <1>10, <2>1, <3>2
    <3>. QED BY <1>11, <3>1, <3>2
  <2>2. CASE p = next
    BY <1>13, <1>14, <2>1, <2>2
  <2>3. CASE p \in 1 .. n
    <3>1. CASE \E i \in 1 .. k : places[i] = p
      BY <1>13, <1>14, <2>1, <3>1
    <3>2. CASE \E l \in 1 .. n : recordings[p].at + Kept < recordings[l].at
      BY <1>1, <3>2
    <3>. QED BY <1>3, <1>15, <2>3, <3>1, <3>2
  <2>. QED BY <1>1, <2>2, <2>3
<1>16. Len(pruned) = size /\ \A i \in 1 .. size : pruned[i] = added[m + i - 1]
  BY <1>6 DEF size
<1>17. \A i \in 1 .. size :
         /\ new[i] \in 1 .. next /\ Counted(recordings, last, new[i])
         /\ pruned[i].at = recordings[new[i]].at
         /\ pruned[i].hashes = recordings[new[i]].amount
  <2>1. ASSUME NEW i \in 1 .. size
        PROVE  /\ new[i] \in 1 .. next /\ Counted(recordings, last, new[i])
               /\ pruned[i].at = recordings[new[i]].at
               /\ pruned[i].hashes = recordings[new[i]].amount
    <3>. DEFINE h == m + i - 1
    <3>1. h \in 1 .. k + 1 /\ new[i] = all[h]
      BY <1>10
    <3>2. pruned[i] = added[h]
      BY <1>16
    <3>. HIDE DEF h
    <3>3. /\ all[h] \in 1 .. next /\ Counted(recordings, last, all[h])
          /\ added[h].at = recordings[all[h]].at /\ added[h].hashes = recordings[all[h]].amount
      BY <1>8, <3>1
    <3>. QED BY <3>1, <3>2, <3>3
  <2>. QED BY <2>1
<1>18. \A i, j \in 1 .. size : new[i] = new[j] => i = j
  BY <1>9, <1>10, <1>12
<1>19. SamplesAre(recordings, pruned, new, next, last)
  BY <1>6, <1>7, <1>15, <1>16, <1>17, <1>18 DEF SamplesAre
<1>. QED BY <1>19 DEF pruned, r

(* So each recording keeps the samples.                                     *)
LEMMA SamplesStep ==
    ASSUME NEW recordings \in Seq(Recordings), NEW n \in 0 .. Len(recordings) - 1,
           NEW next, next = n + 1, NEW s \in StatisticsTypes, NEW last, NEW places,
           SamplesAre(recordings, s.samples, places, n, last)
    PROVE  \E l, new : SamplesAre(recordings, Recorded(s, recordings[next]).samples, new, next, l)
<1>. DEFINE r == recordings[next]
            added == Append(s.samples, [at |-> r.at, hashes |-> r.amount])
            after == Recorded(s, r).samples
<1>1. n \in Nat /\ next \in 1 .. Len(recordings)
  BY LenProperties
<1>2. r \in Recordings /\ IsLast(recordings, {"begin", "end"}, n, last)
  BY <1>1, ElementOfSeq DEF SamplesAre
<1>3. /\ after = IF r.kind \in {"begin", "end"} THEN <<>>
                 ELSE IF r.kind = "hashes" /\ r.amount > 0 THEN Pruned(added, r.at) ELSE s.samples
  <2>. HIDE DEF r
  <2>. QED BY <1>2, RecordedIs
<1>4. last \in 0 .. n
  BY <1>2 DEF IsLast
<1>5. Counted(recordings, last, next) <=> r.kind = "hashes" /\ r.amount > 0
  BY <1>1, <1>4 DEF Counted
<1>. HIDE DEF after
<1>6. CASE r.kind \in {"begin", "end"}
  <2>1. SamplesAre(recordings, <<>>, places, next, next)
    BY <1>1, <1>2, <1>6, SamplesGone
  <2>. QED BY <1>3, <1>6, <2>1 DEF after
<1>7. CASE r.kind \notin {"begin", "end"} /\ ~Counted(recordings, last, next)
  <2>1. SamplesAre(recordings, s.samples, places, next, last)
    BY <1>1, <1>7, SamplesStay
  <2>2. after = s.samples
    BY <1>3, <1>5, <1>7
  <2>. QED BY <2>1, <2>2 DEF after
<1>8. CASE r.kind \notin {"begin", "end"} /\ Counted(recordings, last, next)
  <2>1. \E new : SamplesAre(recordings, Pruned(added, r.at), new, next, last)
    BY <1>8, SamplesAdd
  <2>2. after = Pruned(added, r.at)
    BY <1>3, <1>5, <1>8
  <2>. QED BY <2>1, <2>2 DEF after
<1>. QED BY <1>6, <1>7, <1>8

(* The statistics after the first recordings, one after the other.          *)
LEMMA StatisticsIs ==
    ASSUME NEW recordings, Len(recordings) \in Nat
    PROVE  \E f : /\ f[0] = InitialStatistics
                  /\ \A n \in 1 .. Len(recordings) : f[n] = Recorded(f[n - 1], recordings[n])
                  /\ Statistics(recordings) = f[Len(recordings)]
<1>. DEFINE s0 == InitialStatistics
            N == Len(recordings)
            Step(n, last) == Recorded(last, recordings[n])
            Good(k, f) == f = [n \in 0 .. k |-> IF n = 0 THEN s0 ELSE Step(n, f[n - 1])]
            Has == {k \in Nat : \E f : Good(k, f)}
<1>0. N \in Nat
  OBVIOUS
<1>. HIDE DEF s0, N, Step
<1>1. 0 \in Has
  <2>1. Good(0, [n \in 0 .. 0 |-> s0])
    OBVIOUS
  <2>. QED BY <2>1
<1>2. ASSUME NEW k \in Has PROVE k + 1 \in Has
  <2>1. PICK f : Good(k, f)
    OBVIOUS
  <2>. DEFINE g == [n \in 0 .. k + 1 |-> IF n = k + 1 THEN Step(k + 1, f[k]) ELSE f[n]]
  <2>2. ASSUME NEW n \in 0 .. k + 1 PROVE g[n] = IF n = 0 THEN s0 ELSE Step(n, g[n - 1])
    <3>1. CASE n = 0
      <4>1. g[0] = f[0] /\ f[0] = s0
        BY <2>1
      <4>. QED BY <3>1, <4>1
    <3>2. CASE n \in 1 .. k
      <4>1. /\ n - 1 \in 0 .. k /\ n - 1 # k + 1 /\ n # k + 1 /\ n - 1 \in 0 .. k + 1
            /\ n \in 0 .. k /\ n # 0
        BY <3>2
      <4>2. g[n] = f[n] /\ g[n - 1] = f[n - 1]
        BY <4>1
      <4>3. f[n] = Step(n, f[n - 1])
        BY <2>1, <4>1
      <4>. QED BY <4>1, <4>2, <4>3
    <3>3. CASE n = k + 1
      <4>1. (k + 1) - 1 = k /\ k \in 0 .. k + 1 /\ k # k + 1 /\ k + 1 # 0 /\ k + 1 \in 0 .. k + 1
        OBVIOUS
      <4>2. g[k + 1] = Step(k + 1, f[k]) /\ g[k] = f[k]
        BY <4>1
      <4>. HIDE DEF g
      <4>. QED BY <3>3, <4>1, <4>2
    <3>. QED BY <3>1, <3>2, <3>3
  <2>3. Good(k + 1, g)
    <3>1. g = [n \in 0 .. k + 1 |-> g[n]]
      OBVIOUS
    <3>. HIDE DEF g
    <3>. QED BY <2>2, <3>1
  <2>. HIDE DEF Good, g
  <2>. QED BY <2>3
<1>3. Has = Nat
  <2>1. Has \in SUBSET Nat
    OBVIOUS
  <2>. HIDE DEF Has
  <2>. QED BY <1>1, <1>2, <2>1, Induction
<1>4. \E f : Good(N, f)
  BY <1>0, <1>3
<1>5. \E f : Good(N, f) /\ Statistics(recordings) = f[Len(recordings)]
  BY <1>4 DEF Statistics, s0, N, Step
<1>6. PICK f : Good(N, f) /\ Statistics(recordings) = f[Len(recordings)]
  BY <1>5
<1>7. f[0] = s0 /\ \A n \in 1 .. N : f[n] = Step(n, f[n - 1])
  BY <1>0, <1>6
<1>. QED BY <1>6, <1>7 DEF s0, N, Step

(* What holds after n recordings.                                           *)
Keeping(recordings, s, n) ==
    /\ s \in StatisticsTypes /\ TotalIs(recordings, s, n)
    /\ \E last : SessionIs(recordings, s, n, last)
    /\ \E last, places : SamplesAre(recordings, s.samples, places, n, last)

(* At first nothing has been recorded.                                      *)
LEMMA KeepingBegins ==
    ASSUME NEW recordings
    PROVE  Keeping(recordings, InitialStatistics, 0)
<1>. DEFINE s == InitialStatistics
            S == Samples
<1>1. /\ s = [samples |-> <<>>, hashes |-> 0, sessionHashes |-> 0, best |-> 0]
  BY DEF InitialStatistics
<1>2. <<>> \in Seq(S) /\ Len(<<>>) = 0
  <2>. HIDE DEF S
  <2>. QED BY EmptySeq
<1>3. \A kind : Recent(recordings, kind, 0, 0) = {}
  BY DEF Recent
<1>4. SumFunctionOnSet(Amounts(recordings), {}) = 0
  BY SumTakes, FS_EmptySet
<1>5. \A kinds : IsLast(recordings, kinds, 0, 0)
  BY DEF IsLast
<1>6. s \in StatisticsTypes
  <2>. HIDE DEF s
  <2>. QED BY <1>1, <1>2 DEF StatisticsTypes
<1>. HIDE DEF s
<1>7. TotalIs(recordings, s, 0)
  BY <1>1, <1>3, <1>4 DEF TotalIs
<1>8. SessionIs(recordings, s, 0, 0)
  <2>1. {0} \cup {recordings[i].amount : i \in Recent(recordings, "share", 0, 0)} = {0}
    BY <1>3
  <2>2. IsGreatest(0, {0})
    BY DEF IsGreatest
  <2>. QED BY <1>1, <1>3, <1>4, <1>5, <2>1, <2>2 DEF SessionIs
<1>9. SamplesAre(recordings, s.samples, <<>>, 0, 0)
  <2>1. s.samples = <<>>
    BY <1>1
  <2>. QED BY <1>2, <1>5, <2>1 DEF SamplesAre
<1>. QED BY <1>6, <1>7, <1>8, <1>9 DEF Keeping, s

(* Each recording keeps what holds.                                         *)
LEMMA KeepingStep ==
    ASSUME NEW recordings \in Seq(Recordings), NEW n \in 0 .. Len(recordings) - 1,
           NEW next, next = n + 1, NEW s, Keeping(recordings, s, n)
    PROVE  Keeping(recordings, Recorded(s, recordings[next]), next)
<1>. DEFINE r == recordings[next]
            new == Recorded(s, r)
<1>1. PICK last : SessionIs(recordings, s, n, last)
  BY DEF Keeping
<1>2. PICK cleared, places : SamplesAre(recordings, s.samples, places, n, cleared)
  BY DEF Keeping
<1>3. s \in StatisticsTypes /\ TotalIs(recordings, s, n)
  BY DEF Keeping
<1>4. TotalIs(recordings, new, next)
  BY <1>3, TotalStep
<1>5. \E l : SessionIs(recordings, new, next, l)
  BY <1>1, <1>3, SessionStep
<1>6. PICK l, moved : SamplesAre(recordings, new.samples, moved, next, l)
  BY <1>2, <1>3, SamplesStep
<1>7. new.samples \in Seq(Samples)
  BY <1>6 DEF SamplesAre
<1>8. r \in Recordings
  <2>1. next \in 1 .. Len(recordings)
    BY LenProperties
  <2>. QED BY <2>1, ElementOfSeq
<1>9. new \in StatisticsTypes
  <2>1. /\ new.hashes = IF r.kind = "hashes" THEN s.hashes + r.amount ELSE s.hashes
        /\ new.sessionHashes = IF r.kind = "begin" THEN 0
                               ELSE IF r.kind = "hashes" THEN s.sessionHashes + r.amount
                               ELSE s.sessionHashes
        /\ new.best = IF r.kind = "begin" THEN 0
                      ELSE IF r.kind = "share" /\ r.amount > s.best THEN r.amount ELSE s.best
        /\ new = [samples |-> new.samples, hashes |-> new.hashes,
                  sessionHashes |-> new.sessionHashes, best |-> new.best]
    <3>. HIDE DEF r
    <3>. QED BY <1>3, <1>8, RecordedIs
  <2>2. r.amount \in Nat /\ s.hashes \in Nat /\ s.sessionHashes \in Nat /\ s.best \in Nat
    BY <1>3, <1>8 DEF Recordings, Recording, StatisticsTypes
  <2>. HIDE DEF r, new
  <2>3. new.hashes \in Nat /\ new.sessionHashes \in Nat /\ new.best \in Nat
    BY <2>1, <2>2
  <2>. QED BY <1>7, <2>1, <2>3 DEF StatisticsTypes
<1>. HIDE DEF new
<1>10. Keeping(recordings, new, next)
  BY <1>4, <1>5, <1>6, <1>9 DEF Keeping
<1>. QED BY <1>10 DEF new, r

(* So it holds after all of them.                                           *)
LEMMA StatisticsKeep ==
    ASSUME NEW recordings \in Seq(Recordings)
    PROVE  Keeping(recordings, Statistics(recordings), Len(recordings))
<1>. DEFINE N == Len(recordings)
<1>1. N \in Nat
  BY LenProperties
<1>2. PICK f : /\ f[0] = InitialStatistics
               /\ \A n \in 1 .. N : f[n] = Recorded(f[n - 1], recordings[n])
               /\ Statistics(recordings) = f[N]
  BY <1>1, StatisticsIs
<1>. DEFINE Good == {n \in Nat : n <= N => Keeping(recordings, f[n], n)}
<1>3. 0 \in Good
  BY <1>2, KeepingBegins
<1>4. ASSUME NEW n \in Good PROVE n + 1 \in Good
  <2>1. n \in Nat
    OBVIOUS
  <2>2. CASE ~(n + 1 <= N)
    BY <2>1, <2>2
  <2>3. CASE n + 1 <= N
    <3>1. /\ n \in 0 .. N - 1 /\ n <= N /\ n + 1 \in 1 .. N /\ (n + 1) - 1 = n
          /\ n + 1 \in Nat
      BY <1>1, <2>1, <2>3
    <3>2. Keeping(recordings, f[n], n)
      BY <3>1
    <3>3. f[n + 1] = Recorded(f[n], recordings[n + 1])
      BY <1>2, <3>1
    <3>4. Keeping(recordings, Recorded(f[n], recordings[n + 1]), n + 1)
      BY <3>1, <3>2, KeepingStep
    <3>. QED BY <3>1, <3>3, <3>4
  <2>. QED BY <2>2, <2>3
<1>5. Good = Nat
  <2>1. Good \in SUBSET Nat
    OBVIOUS
  <2>. HIDE DEF Good
  <2>. QED BY <1>3, <1>4, <2>1, Induction
<1>6. N \in Good
  <2>. HIDE DEF Good, N
  <2>. QED BY <1>1, <1>5
<1>. QED BY <1>1, <1>2, <1>6

(* The last recording of some kinds, and what is counted of a kind.         *)
LEMMA LastOfIs ==
    ASSUME NEW recordings, NEW kinds, NEW last, Len(recordings) \in Nat,
           DOMAIN recordings = 1 .. Len(recordings),
           IsLast(recordings, kinds, Len(recordings), last)
    PROVE  LastOf(recordings, kinds) = last
<1>. DEFINE set == {0} \cup {i \in DOMAIN recordings : recordings[i].kind \in kinds}
            N == Len(recordings)
<1>1. last \in 0 .. N /\ (last # 0 => recordings[last].kind \in kinds)
      /\ \A i \in 1 .. N : i > last => recordings[i].kind \notin kinds
  BY DEF IsLast
<1>2. set \in SUBSET Nat
  OBVIOUS
<1>3. last \in set
  BY <1>1
<1>4. \A x \in set : x <= last
  BY <1>1
<1>. HIDE DEF set
<1>5. Max(set) = last
  BY <1>2, <1>3, <1>4, MaxEquals DEF IsGreatest
<1>. QED BY <1>5 DEF LastOf, set

(* What is recorded of a kind after some recording.                         *)
LEMMA OfKindIs ==
    ASSUME NEW recordings, DOMAIN recordings = 1 .. Len(recordings), NEW kind, NEW from
    PROVE  OfKind(recordings, kind, from) = Recent(recordings, kind, from, Len(recordings))
BY DEF OfKind, Recent

(* What the recordings chosen add up to.                                    *)
LEMMA SumOfIs ==
    ASSUME NEW recordings, NEW chosen
    PROVE  SumOf(recordings, chosen) = SumFunctionOnSet(Amounts(recordings), chosen)
BY DEF SumOf, Amounts

(* What a window is due, and that it holds that.                            *)
Due(recordings, last, from) ==
    {i \in OfKind(recordings, "hashes", last) :
       recordings[i].amount > 0 /\ recordings[i].at >= from}

WindowHolds(recordings, s, last, now, window) ==
    LET due    == Due(recordings, last, now - window)
        oldest == Min({now} \cup {recordings[i].at : i \in due})
    IN  HashrateOverWindow(s, now, window) =
          IF oldest = now THEN Nothing
          ELSE [hashes |-> SumOf(recordings, due), elapsed |-> now - oldest]

(* A window holds what was recorded in it.                                  *)
LEMMA WindowIs ==
    ASSUME NEW recordings \in Seq(Recordings), NEW s, NEW last, NEW places,
           SamplesAre(recordings, s.samples, places, Len(recordings), last),
           NEW window \in Windows, NEW now \in Nat, InTime(recordings, now, window)
    PROVE  WindowHolds(recordings, s, last, now, window)
<1>. DEFINE N == Len(recordings)
            k == Len(s.samples)
            from == now - window
            due == Due(recordings, last, from)
            w == Amounts(recordings)
            counted == {i \in DOMAIN s.samples : s.samples[i].at >= from}
            amounts == [i \in DOMAIN s.samples |-> s.samples[i].hashes]
            times == {now} \cup {recordings[i].at : i \in due}
            held == {now} \cup {s.samples[i].at : i \in counted}
<1>1. /\ N \in Nat /\ DOMAIN recordings = 1 .. N
      /\ \A i \in 1 .. N : recordings[i].at \in Nat /\ recordings[i].amount \in Nat
  <2>1. \A i \in 1 .. N : recordings[i] \in Recordings
    BY ElementOfSeq
  <2>. QED BY <2>1, LenProperties DEF Recordings, Recording
<1>2. /\ s.samples \in Seq(Samples)
      /\ \A i \in 1 .. k : /\ places[i] \in 1 .. N /\ Counted(recordings, last, places[i])
                           /\ s.samples[i].at = recordings[places[i]].at
                           /\ s.samples[i].hashes = recordings[places[i]].amount
      /\ \A i, j \in 1 .. k : places[i] = places[j] => i = j
      /\ \A p \in 1 .. N : Counted(recordings, last, p) =>
           \/ \E i \in 1 .. k : places[i] = p
           \/ \E m \in 1 .. N : recordings[p].at + Kept < recordings[m].at
  BY DEF SamplesAre
<1>3. k \in Nat /\ DOMAIN s.samples = 1 .. k
  BY <1>2, LenProperties
<1>4. /\ Kept \in Nat /\ window \in Nat /\ from \in Int
      /\ \A m \in 1 .. N : now >= recordings[m].at - (Kept - window)
  <2>1. Kept \in Nat /\ window \in 1 .. Kept
    BY WindowsAssumption
  <2>2. \A m \in 1 .. N : now >= recordings[m].at - (Kept - window)
    BY <1>1 DEF InTime
  <2>. QED BY <2>1, <2>2
<1>5. \A p : p \in due <=> p \in 1 .. N /\ Counted(recordings, last, p) /\ recordings[p].at >= from
  BY <1>1 DEF Due, OfKind, Counted
<1>6. \A i : i \in counted <=> i \in 1 .. k /\ s.samples[i].at >= from
  BY <1>3
<1>7. \A i \in 1 .. k : amounts[i] = s.samples[i].hashes
  BY <1>3
<1>8. IsFiniteSet(counted)
  <2>1. 1 \in Int /\ k \in Int /\ counted \in SUBSET (1 .. k)
    BY <1>3
  <2>2. IsFiniteSet(1 .. k)
    BY <2>1, FS_Interval
  <2>. HIDE DEF counted
  <2>. QED BY <2>1, <2>2, FS_Subset
<1>9. \A i \in 1 .. N : w[i] = recordings[i].amount
  BY <1>1 DEF Amounts
<1>. HIDE DEF due, counted, amounts, w, Counted
<1>10. ASSUME NEW p \in due PROVE \E i \in counted : places[i] = p
  <2>1. p \in 1 .. N /\ Counted(recordings, last, p) /\ recordings[p].at >= from
    BY <1>5
  <2>2. ASSUME NEW m \in 1 .. N, recordings[p].at + Kept < recordings[m].at PROVE FALSE
    <3>1. recordings[m].at \in Nat /\ recordings[p].at \in Nat
          /\ now >= recordings[m].at - (Kept - window)
      BY <1>1, <1>4, <2>1
    <3>. DEFINE a == recordings[p].at
                b == recordings[m].at
    <3>2. /\ a \in Nat /\ b \in Nat /\ now >= b - (Kept - window)
          /\ a >= from /\ a + Kept < b
      BY <2>1, <2>2, <3>1
    <3>3. Kept \in Nat /\ window \in Nat /\ now \in Int /\ from = now - window
      BY <1>4
    <3>. HIDE DEF a, b, from
    <3>. QED BY <3>2, <3>3
  <2>3. PICK i \in 1 .. k : places[i] = p
    BY <1>2, <2>1, <2>2
  <2>. QED BY <1>2, <1>6, <2>1, <2>3
<1>11. \A i \in counted : /\ i \in 1 .. k /\ places[i] \in due
                          /\ s.samples[i].at = recordings[places[i]].at
  BY <1>2, <1>5, <1>6
<1>12. due = {places[i] : i \in counted}
  BY <1>10, <1>11
<1>13. held = times
  <2>1. \A i \in counted : s.samples[i].at \in {recordings[p].at : p \in due}
    BY <1>11
  <2>2. \A p \in due : recordings[p].at \in {s.samples[i].at : i \in counted}
    BY <1>10, <1>11
  <2>. QED BY <2>1, <2>2
<1>14. \A i \in counted : /\ w[places[i]] \in Nat /\ amounts[i] = w[places[i]]
                          /\ amounts[i] \in Nat /\ amounts[i] > 0
  <2>. SUFFICES ASSUME NEW i \in counted
                PROVE  /\ w[places[i]] \in Nat /\ amounts[i] = w[places[i]]
                       /\ amounts[i] \in Nat /\ amounts[i] > 0
    OBVIOUS
  <2>1. /\ i \in 1 .. k /\ places[i] \in 1 .. N /\ Counted(recordings, last, places[i])
        /\ s.samples[i].hashes = recordings[places[i]].amount
    BY <1>2, <1>11
  <2>2. amounts[i] = recordings[places[i]].amount /\ w[places[i]] = recordings[places[i]].amount
    BY <1>7, <1>9, <2>1
  <2>. QED BY <1>1, <2>1, <2>2 DEF Counted
<1>15. SumFunctionOnSet(amounts, counted) = SumFunctionOnSet(w, due)
  <2>1. \A x, y \in counted : places[x] = places[y] => x = y
    BY <1>2, <1>11
  <2>2. SumFunctionOnSet(amounts, counted) = SumFunctionOnSet(w, {places[x] : x \in counted})
    BY <1>8, <1>14, <2>1, SumImage
  <2>. QED BY <1>12, <2>2
<1>16. /\ counted = {} => SumFunctionOnSet(amounts, counted) = 0
       /\ counted # {} => SumFunctionOnSet(amounts, counted) # 0
  <2>1. ASSUME counted # {} PROVE SumFunctionOnSet(amounts, counted) # 0
    <3>1. SumFunctionOnSet(amounts, counted) > 0
      BY <1>8, <1>14, <2>1, SumPositive
    <3>2. SumFunctionOnSet(amounts, counted) \in Nat
      BY <1>8, <1>14, SumIs
    <3>. QED BY <3>1, <3>2
  <2>2. ASSUME counted = {} PROVE SumFunctionOnSet(amounts, counted) = 0
    BY <1>8, <2>2, SumTakes
  <2>. QED BY <2>1, <2>2
<1>17. times \in SUBSET Nat
  BY <1>1, <1>5
<1>18. Min(times) \in times /\ Min(times) <= now /\ Min(times) \in Nat
  <2>1. now \in times
    OBVIOUS
  <2>. HIDE DEF times
  <2>. QED BY <1>17, <2>1, MinIn
<1>19. due = {} => Min(times) = now
  <2>1. due = {} => times = {now}
    OBVIOUS
  <2>. HIDE DEF times
  <2>. QED BY <1>18, <2>1
<1>20. due = {} <=> counted = {}
  BY <1>10, <1>11
<1>21. HashrateOverWindow(s, now, window) =
         IF SumFunctionOnSet(amounts, counted) = 0 \/ now - Min(held) <= 0 THEN Nothing
         ELSE [hashes |-> SumFunctionOnSet(amounts, counted), elapsed |-> now - Min(held)]
  BY DEF HashrateOverWindow, amounts, counted
<1>22. SumOf(recordings, due) = SumFunctionOnSet(w, due)
  BY SumOfIs DEF w
<1>. HIDE DEF times, held
<1>23. HashrateOverWindow(s, now, window) =
         IF Min(times) = now THEN Nothing
         ELSE [hashes |-> SumOf(recordings, due), elapsed |-> now - Min(times)]
  <2>1. now - Min(times) <= 0 <=> Min(times) = now
    BY <1>18
  <2>2. SumFunctionOnSet(amounts, counted) = 0 => Min(times) = now
    BY <1>16, <1>19, <1>20
  <2>. QED BY <1>13, <1>15, <1>21, <1>22, <2>1, <2>2
<1>. QED BY <1>23 DEF WindowHolds, times, due

(* What the statistics show is what was recorded.                           *)
LEMMA CountsSound ==
    ASSUME NEW recordings \in Seq(Recordings), NEW times \in SUBSET Nat
    PROVE  CountsWhatHappened(recordings, times)
<1>. DEFINE s == Statistics(recordings)
            N == Len(recordings)
            session == LastOf(recordings, {"begin"})
            cleared == LastOf(recordings, {"begin", "end"})
<1>1. N \in Nat /\ DOMAIN recordings = 1 .. N
  BY LenProperties
<1>2. Keeping(recordings, s, N)
  BY StatisticsKeep
<1>. HIDE DEF s
<1>3. PICK first : SessionIs(recordings, s, N, first)
  BY <1>2 DEF Keeping
<1>4. PICK last, places : SamplesAre(recordings, s.samples, places, N, last)
  BY <1>2 DEF Keeping
<1>5. session = first
  BY <1>1, <1>3, LastOfIs DEF SessionIs
<1>6. cleared = last
  BY <1>1, <1>4, LastOfIs DEF SamplesAre
<1>7. \A kind, from : OfKind(recordings, kind, from) = Recent(recordings, kind, from, N)
  BY <1>1, OfKindIs
<1>8. \A chosen : SumOf(recordings, chosen) = SumFunctionOnSet(Amounts(recordings), chosen)
  BY SumOfIs
<1>9. s.hashes = SumOf(recordings, OfKind(recordings, "hashes", 0))
  BY <1>2, <1>7, <1>8 DEF Keeping, TotalIs
<1>10. s.sessionHashes = SumOf(recordings, OfKind(recordings, "hashes", session))
  BY <1>3, <1>5, <1>7, <1>8 DEF SessionIs
<1>11. s.best = Max({0} \cup {recordings[i].amount : i \in OfKind(recordings, "share", session)})
  <2>. DEFINE set == {0} \cup {recordings[i].amount : i \in OfKind(recordings, "share", session)}
  <2>1. IsGreatest(s.best, set)
    BY <1>3, <1>5, <1>7 DEF SessionIs
  <2>2. set \in SUBSET Nat
    <3>1. \A i \in 1 .. N : recordings[i] \in Recordings
      BY ElementOfSeq
    <3>2. \A i \in 1 .. N : recordings[i].amount \in Nat
      BY <3>1 DEF Recordings, Recording
    <3>3. OfKind(recordings, "share", session) \in SUBSET (1 .. N)
      BY <1>1 DEF OfKind
    <3>. QED BY <3>2, <3>3
  <2>. HIDE DEF set
  <2>3. Max(set) = s.best
    BY <2>1, <2>2, MaxEquals
  <2>. QED BY <2>3 DEF set
<1>12. ASSUME NEW window \in Windows, NEW now \in times, InTime(recordings, now, window)
       PROVE  WindowHolds(recordings, s, cleared, now, window)
  <2>1. now \in Nat
    OBVIOUS
  <2>. HIDE DEF cleared
  <2>. QED BY <1>4, <1>6, <1>12, <2>1, WindowIs
<1>. QED BY <1>9, <1>10, <1>11, <1>12 DEF CountsWhatHappened, WindowHolds, Due, s

(* The totals, the session's counters and every window's hash rate are what *)
(* was recorded, whatever order the clocks were read in and the mutex was   *)
(* taken in, for all windows and every run of recordings, read in time      *)
(* (mining/stats.cpp).                                                      *)
THEOREM StatisticsCorrect == Spec => []StatisticsAreExact
<1>1. InputInv => StatisticsAreExact
  <2>. SUFFICES ASSUME InputInv, subject.kind = "recordings"
                PROVE  CountsWhatHappened(subject.recordings, Clocks)
    BY DEF StatisticsAreExact
  <2>1. subject.recordings \in Seq(Recordings)
    BY DEF InputInv, Allowed, Recordings
  <2>. QED BY <2>1, CountsSound, ClocksAssumption
<1>. QED BY <1>1, SubjectAllowed, PTL

-----------------------------------------------------------------------------
(* The strings of the JSON reader and writer.                               *)

(* The letters of the escapes are told apart by either of their two codes.  *)
LEMMA LettersAre ==
    LET letters == Letters \cup {<<47, 47>>}
    IN  /\ \A p, q \in letters : p[2] = q[2] => p = q
        /\ \A p, q \in Letters : p[1] = q[1] => p = q
        /\ \A p \in letters : p[1] \in Nat /\ p[2] \in Nat /\ p[2] # 117
        /\ Letters \subseteq letters
        /\ \A p \in Letters : p[2] # 47
        /\ \A c \in {Quote, Backslash} : \E p \in Letters : p[1] = c
BY DEF Letters, Quote, Backslash

(* One of its escapes is found by the character, and by its letter.         *)
LEMMA LetterIs ==
    ASSUME NEW p \in Letters
    PROVE  /\ Escaped(p[1]) = <<Backslash, p[2]>>
           /\ {q \in Letters \cup {<<47, 47>>} : q[2] = p[2]} = {p}
<1>1. {q \in Letters : q[1] = p[1]} = {p}
  BY LettersAre
<1>2. {q \in Letters \cup {<<47, 47>>} : q[2] = p[2]} = {p}
  BY LettersAre
<1>3. (CHOOSE q \in {p} : TRUE) = p
  OBVIOUS
<1>. QED BY <1>1, <1>2, <1>3 DEF Escaped

(* A hexadecimal digit is read as it was.                                   *)
LEMMA DigitIs ==
    ASSUME NEW d \in 0 .. 15
    PROVE  HexValue(HexDigit(d)) = d /\ HexDigit(d) \in Nat
<1>1. CASE d < 10
  <2>1. HexDigit(d) = 48 + d /\ 48 + d \in 48 .. 57
    BY <1>1 DEF HexDigit
  <2>2. HexValue(48 + d) = 48 + d - 48
    BY <2>1 DEF HexValue
  <2>. QED BY <2>1, <2>2
<1>2. CASE d >= 10
  <2>1. HexDigit(d) = 87 + d /\ 87 + d \in 97 .. 102 /\ 87 + d \notin 48 .. 57
    BY <1>2 DEF HexDigit
  <2>2. HexValue(87 + d) = 87 + d - 87
    BY <2>1 DEF HexValue
  <2>. QED BY <2>1, <2>2
<1>. QED BY <1>1, <1>2

(* A control character is one byte in UTF-8.                                *)
LEMMA Utf8Is ==
    ASSUME NEW c \in Nat, c < 32
    PROVE  Utf8(c) = <<c>>
<1>1. c < 128 /\ c \notin 128 .. 2047
  OBVIOUS
<1>. QED BY <1>1 DEF Utf8

(* What is written for a character.                                         *)
LEMMA EscapedIs ==
    ASSUME NEW c \in Nat
    PROVE  \/ \E p \in Letters : p[1] = c /\ Escaped(c) = <<Backslash, p[2]>>
           \/ /\ c < 32
              /\ Escaped(c) = <<Backslash, 117, 48, 48, HexDigit(c \div 16), HexDigit(c % 16)>>
           \/ c # Quote /\ c # Backslash /\ Escaped(c) = <<c>>
<1>1. CASE \E p \in Letters : p[1] = c
  BY <1>1, LetterIs
<1>2. CASE ~\E p \in Letters : p[1] = c
  <2>1. {p \in Letters : p[1] = c} = {}
    BY <1>2
  <2>2. c # Quote /\ c # Backslash
    BY <1>2, LettersAre
  <2>. QED BY <2>1, <2>2 DEF Escaped
<1>. QED BY <1>1, <1>2

(* What is written for a character is not empty.                            *)
LEMMA EscapedTyped ==
    ASSUME NEW c \in Nat
    PROVE  Escaped(c) \in Seq(Nat) /\ Len(Escaped(c)) >= 1
<1>1. Quote \in Nat /\ Backslash \in Nat /\ \A p \in Letters : p[2] \in Nat
  BY LettersAre DEF Quote, Backslash
<1>2. CASE \E p \in Letters : p[1] = c /\ Escaped(c) = <<Backslash, p[2]>>
  BY <1>1, <1>2
<1>3. CASE /\ c < 32
           /\ Escaped(c) = <<Backslash, 117, 48, 48, HexDigit(c \div 16), HexDigit(c % 16)>>
  <2>1. HexDigit(c \div 16) \in Nat /\ HexDigit(c % 16) \in Nat
    <3>1. c \div 16 \in 0 .. 15 /\ c % 16 \in 0 .. 15
      BY <1>3
    <3>. QED BY <3>1, DigitIs
  <2>. QED BY <1>1, <1>3, <2>1
<1>4. CASE Escaped(c) = <<c>>
  BY <1>4
<1>. QED BY <1>2, <1>3, <1>4, EscapedIs

(* Where in the codes a piece stands.                                       *)
StandsAt(codes, pos, piece) ==
    /\ pos + Len(piece) - 1 <= Len(codes)
    /\ \A k \in 1 .. Len(piece) : codes[pos + k - 1] = piece[k]

(* The reader takes what is written for a character in one turn.            *)
LEMMA TurnReads ==
    ASSUME NEW codes, Len(codes) \in Nat, NEW pos \in Nat \ {0}, NEW read \in Seq(Nat),
           NEW c \in Nat, StandsAt(codes, pos, Escaped(c))
    PROVE  Turn(codes, Reading(pos, read)) = Reading(pos + Len(Escaped(c)), Append(read, c))
<1>. DEFINE s == Reading(pos, read)
<1>1. s.is = "reading" /\ s.pos = pos /\ s.read = read
  BY DEF Reading
<1>. HIDE DEF s
<1>2. Quote \in Nat /\ Backslash \in Nat /\ Quote # Backslash
  BY DEF Quote, Backslash
<1>3. CASE c # Quote /\ c # Backslash /\ Escaped(c) = <<c>>
  <2>1. Len(<<c>>) = 1 /\ <<c>>[1] = c
    OBVIOUS
  <2>2. pos <= Len(codes) /\ codes[pos] = c
    BY <1>3, <2>1 DEF StandsAt
  <2>3. Turn(codes, s) = Reading(pos + 1, Append(read, c))
    BY <1>1, <1>3, <2>2 DEF Turn
  <2>. QED BY <1>3, <2>1, <2>3 DEF s
<1>4. ASSUME NEW p \in Letters, p[1] = c, Escaped(c) = <<Backslash, p[2]>>
      PROVE  Turn(codes, s) = Reading(pos + Len(Escaped(c)), Append(read, c))
  <2>. DEFINE piece == <<Backslash, p[2]>>
  <2>2. Len(piece) = 2 /\ piece[1] = Backslash /\ piece[2] = p[2]
    OBVIOUS
  <2>3. pos + 1 <= Len(codes) /\ codes[pos] = Backslash /\ codes[pos + 1] = p[2]
    <3>. HIDE DEF piece
    <3>1. StandsAt(codes, pos, piece)
      BY <1>4 DEF piece
    <3>2. /\ 1 \in 1 .. Len(piece) /\ 2 \in 1 .. Len(piece)
          /\ pos + 1 - 1 = pos /\ pos + 2 - 1 = pos + 1
      BY <2>2
    <3>. QED BY <2>2, <3>1, <3>2 DEF StandsAt
  <2>4. {q \in Letters \cup {<<47, 47>>} : q[2] = codes[pos + 1]} = {p}
    BY <2>3, LetterIs
  <2>5. Escape(codes, pos, read) = Reading(pos + 2, Append(read, c))
    <3>1. (CHOOSE q \in {p} : TRUE) = p /\ {p} # {}
      OBVIOUS
    <3>2. ~(pos + 1 > Len(codes))
      BY <2>3
    <3>. QED BY <1>4, <2>4, <3>1, <3>2 DEF Escape
  <2>6. Turn(codes, s) = Escape(codes, pos, read)
    BY <1>1, <1>2, <2>3 DEF Turn
  <2>. QED BY <1>4, <2>2, <2>5, <2>6
<1>5. CASE /\ c < 32
           /\ Escaped(c) = <<Backslash, 117, 48, 48, HexDigit(c \div 16), HexDigit(c % 16)>>
  <2>. DEFINE high == c \div 16
              low == c % 16
              piece == <<Backslash, 117, 48, 48, HexDigit(high), HexDigit(low)>>
              hex == [k \in 0 .. 3 |-> HexValue(codes[pos + 2 + k])]
              code == 4096 * hex[0] + 256 * hex[1] + 16 * hex[2] + hex[3]
  <2>1. high \in 0 .. 15 /\ low \in 0 .. 15 /\ 16 * high + low = c
    BY <1>5
  <2>. HIDE DEF high, low
  <2>2. /\ HexValue(HexDigit(high)) = high /\ HexDigit(high) \in Nat
        /\ HexValue(HexDigit(low)) = low /\ HexDigit(low) \in Nat
    BY <2>1, DigitIs
  <2>3. HexValue(48) = 0
    BY DEF HexValue
  <2>4. /\ Len(piece) = 6
        /\ piece[1] = Backslash /\ piece[2] = 117 /\ piece[3] = 48 /\ piece[4] = 48
        /\ piece[5] = HexDigit(high) /\ piece[6] = HexDigit(low)
    OBVIOUS
  <2>5. /\ pos + 5 <= Len(codes) /\ codes[pos] = Backslash /\ codes[pos + 1] = 117
        /\ codes[pos + 2] = 48 /\ codes[pos + 3] = 48
        /\ codes[pos + 4] = HexDigit(high) /\ codes[pos + 5] = HexDigit(low)
    <3>1. StandsAt(codes, pos, piece)
      BY <1>5 DEF high, low
    <3>. HIDE DEF piece
    <3>2. /\ \A k \in 1 .. 6 : k \in 1 .. Len(piece)
          /\ pos + 1 - 1 = pos /\ pos + 2 - 1 = pos + 1 /\ pos + 3 - 1 = pos + 2
          /\ pos + 4 - 1 = pos + 3 /\ pos + 5 - 1 = pos + 4 /\ pos + 6 - 1 = pos + 5
      BY <2>4
    <3>3. \A k \in 1 .. 6 : codes[pos + k - 1] = piece[k]
      BY <3>1, <3>2 DEF StandsAt
    <3>4. pos + 5 <= Len(codes)
      BY <2>4, <3>1 DEF StandsAt
    <3>. QED BY <2>4, <3>2, <3>3, <3>4
  <2>6. hex[0] = 0 /\ hex[1] = 0 /\ hex[2] = high /\ hex[3] = low
    <3>1. /\ pos + 2 + 0 = pos + 2 /\ pos + 2 + 1 = pos + 3
          /\ pos + 2 + 2 = pos + 4 /\ pos + 2 + 3 = pos + 5
      OBVIOUS
    <3>2. /\ hex[0] = HexValue(codes[pos + 2 + 0]) /\ hex[1] = HexValue(codes[pos + 2 + 1])
          /\ hex[2] = HexValue(codes[pos + 2 + 2]) /\ hex[3] = HexValue(codes[pos + 2 + 3])
      OBVIOUS
    <3>. HIDE DEF hex, piece
    <3>3. /\ hex[0] = HexValue(codes[pos + 2]) /\ hex[1] = HexValue(codes[pos + 3])
          /\ hex[2] = HexValue(codes[pos + 4]) /\ hex[3] = HexValue(codes[pos + 5])
      BY <3>1, <3>2
    <3>4. hex[0] = 0 /\ hex[1] = 0
      BY <2>3, <2>5, <3>3
    <3>5. hex[2] = high /\ hex[3] = low
      BY <2>2, <2>5, <3>3
    <3>. QED BY <3>4, <3>5
  <2>7. ~\E k \in 0 .. 3 : hex[k] < 0
    <3>1. \A k \in 0 .. 3 : k = 0 \/ k = 1 \/ k = 2 \/ k = 3
      OBVIOUS
    <3>. HIDE DEF hex
    <3>. QED BY <2>1, <2>6, <3>1
  <2>8. {q \in Letters \cup {<<47, 47>>} : q[2] = codes[pos + 1]} = {}
    BY <2>5, LettersAre
  <2>9. Utf8(code) = <<c>>
    <3>. HIDE DEF hex
    <3>1. code = c
      BY <2>1, <2>6
    <3>2. Utf8(c) = <<c>>
      <4>1. c < 32
        BY <1>5
      <4>. QED BY <4>1, Utf8Is
    <3>. HIDE DEF code
    <3>. QED BY <3>1, <3>2
  <2>10. read \o <<c>> = Append(read, c)
    BY AppendIsConcat
  <2>11. Escape(codes, pos, read) = Reading(pos + 6, Append(read, c))
    <3>1. ~(pos + 1 > Len(codes)) /\ ~(pos + 5 > Len(codes))
      BY <2>5
    <3>2. Escape(codes, pos, read) = Reading(pos + 6, read \o Utf8(code))
      BY <2>5, <2>7, <2>8, <3>1 DEF Escape
    <3>. HIDE DEF hex, code
    <3>. QED BY <2>9, <2>10, <3>2
  <2>12. Turn(codes, s) = Escape(codes, pos, read)
    <3>1. pos <= Len(codes)
      BY <2>5
    <3>. QED BY <1>1, <1>2, <2>5, <3>1 DEF Turn
  <2>13. Escaped(c) = piece
    BY <1>5 DEF high, low
  <2>. HIDE DEF piece
  <2>. QED BY <2>4, <2>11, <2>12, <2>13 DEF s
<1>. QED BY <1>3, <1>4, <1>5, EscapedIs DEF s

(* The turns of the reader, one after the other.                            *)
LEMMA TurnsAre ==
    ASSUME NEW codes, Len(codes) \in Nat
    PROVE  \E f : /\ f[0] = Reading(1, <<>>)
                  /\ \A n \in 1 .. Len(codes) + 1 : f[n] = Turn(codes, f[n - 1])
                  /\ ParseString(codes) = f[Len(codes) + 1]
<1>. DEFINE s0 == Reading(1, <<>>)
            N == Len(codes) + 1
            Step(n, last) == Turn(codes, last)
            Good(k, f) == f = [n \in 0 .. k |-> IF n = 0 THEN s0 ELSE Step(n, f[n - 1])]
            Has == {k \in Nat : \E f : Good(k, f)}
<1>0. N \in Nat
  OBVIOUS
<1>. HIDE DEF s0, N, Step
<1>1. 0 \in Has
  <2>1. Good(0, [n \in 0 .. 0 |-> s0])
    OBVIOUS
  <2>. QED BY <2>1
<1>2. ASSUME NEW k \in Has PROVE k + 1 \in Has
  <2>1. PICK f : Good(k, f)
    OBVIOUS
  <2>. DEFINE g == [n \in 0 .. k + 1 |-> IF n = k + 1 THEN Step(k + 1, f[k]) ELSE f[n]]
  <2>2. ASSUME NEW n \in 0 .. k + 1 PROVE g[n] = IF n = 0 THEN s0 ELSE Step(n, g[n - 1])
    <3>1. CASE n = 0
      <4>1. g[0] = f[0] /\ f[0] = s0
        BY <2>1
      <4>. QED BY <3>1, <4>1
    <3>2. CASE n \in 1 .. k
      <4>1. /\ n - 1 \in 0 .. k /\ n - 1 # k + 1 /\ n # k + 1 /\ n - 1 \in 0 .. k + 1
            /\ n \in 0 .. k /\ n # 0
        BY <3>2
      <4>2. g[n] = f[n] /\ g[n - 1] = f[n - 1]
        BY <4>1
      <4>3. f[n] = Step(n, f[n - 1])
        BY <2>1, <4>1
      <4>. QED BY <4>1, <4>2, <4>3
    <3>3. CASE n = k + 1
      <4>1. (k + 1) - 1 = k /\ k \in 0 .. k + 1 /\ k # k + 1 /\ k + 1 # 0 /\ k + 1 \in 0 .. k + 1
        OBVIOUS
      <4>2. g[k + 1] = Step(k + 1, f[k]) /\ g[k] = f[k]
        BY <4>1
      <4>. HIDE DEF g
      <4>. QED BY <3>3, <4>1, <4>2
    <3>. QED BY <3>1, <3>2, <3>3
  <2>3. Good(k + 1, g)
    <3>1. g = [n \in 0 .. k + 1 |-> g[n]]
      OBVIOUS
    <3>. HIDE DEF g
    <3>. QED BY <2>2, <3>1
  <2>. HIDE DEF Good, g
  <2>. QED BY <2>3
<1>3. Has = Nat
  <2>1. Has \in SUBSET Nat
    OBVIOUS
  <2>. HIDE DEF Has
  <2>. QED BY <1>1, <1>2, <2>1, Induction
<1>4. \E f : Good(N, f)
  BY <1>0, <1>3
<1>5. \E f : Good(N, f) /\ ParseString(codes) = f[Len(codes) + 1]
  BY <1>4 DEF ParseString, s0, N, Step
<1>6. PICK f : Good(N, f) /\ ParseString(codes) = f[Len(codes) + 1]
  BY <1>5
<1>7. f[0] = s0 /\ \A n \in 1 .. N : f[n] = Step(n, f[n - 1])
  BY <1>0, <1>6
<1>. QED BY <1>6, <1>7 DEF s0, N, Step

(* The pieces of a text stand in it one behind the other.                   *)
PiecesStand(text, parts, start) ==
    /\ start[1] = 1 /\ start[Len(parts) + 1] = Len(text) + 1
    /\ \A n \in 1 .. Len(parts) : /\ start[n] \in Nat \ {0}
                                 /\ start[n + 1] = start[n] + Len(parts[n])
                                 /\ StandsAt(text, start[n], parts[n])

(* The pieces of a text are found in it one behind the other.               *)
LEMMA PiecesAre ==
    ASSUME NEW S, NEW parts \in Seq(Seq(S))
    PROVE  FlattenSeq(parts) \in Seq(S) /\ \E start : PiecesStand(FlattenSeq(parts), parts, start)
<1>. DEFINE Q == Seq(S)
            N == Len(parts)
<1>1. N \in Nat /\ (parts # <<>> => N # 0) /\ (parts = <<>> => N = 0)
  <2>1. parts \in Seq(Q)
    OBVIOUS
  <2>. HIDE DEF Q
  <2>. QED BY <2>1, LenProperties, EmptySeq
<1>2. CASE parts = <<>>
  <2>1. FlattenSeq(parts) = <<>>
    BY <1>2 DEF FlattenSeq
  <2>2. <<>> \in Seq(S) /\ Len(<<>>) = 0
    BY EmptySeq
  <2>3. PiecesStand(FlattenSeq(parts), parts, [n \in {1} |-> 1])
    BY <1>1, <1>2, <2>1, <2>2 DEF PiecesStand
  <2>. QED BY <2>1, <2>2, <2>3
<1>3. CASE parts # <<>>
  <2>1. PICK f : /\ f[1] = parts[1]
                 /\ \A n \in 2 .. N : f[n] = f[n - 1] \o parts[n]
                 /\ FlattenSeq(parts) = f[N]
                 /\ \A n \in 1 .. N : f[n] \in Seq(S)
    BY <1>3, FlattenIs
  <2>2. \A n \in 1 .. N : parts[n] \in Seq(S)
    <3>1. parts \in Seq(Q)
      OBVIOUS
    <3>. HIDE DEF Q
    <3>2. \A n \in 1 .. N : parts[n] \in Q
      BY <3>1, ElementOfSeq
    <3>. QED BY <3>2 DEF Q
  <2>. HIDE DEF N, Q
  <2>. DEFINE start == [n \in 1 .. N + 1 |-> IF n = 1 THEN 1 ELSE Len(f[n - 1]) + 1]
              begins(a, b) == Len(a) <= Len(b) /\ \A j \in 1 .. Len(a) : b[j] = a[j]
  <2>3. N \in Nat /\ N # 0 /\ \A n \in 1 .. N : Len(f[n]) \in Nat /\ Len(parts[n]) \in Nat
    <3>1. \A n \in 1 .. N : Len(f[n]) \in Nat /\ Len(parts[n]) \in Nat
      BY <2>1, <2>2, LenProperties
    <3>. QED BY <1>1, <1>3, <3>1
  <2>4. ASSUME NEW n \in 2 .. N
        PROVE  /\ Len(f[n]) = Len(f[n - 1]) + Len(parts[n])
               /\ begins(f[n - 1], f[n])
               /\ \A k \in 1 .. Len(parts[n]) : f[n][Len(f[n - 1]) + k] = parts[n][k]
    <3>1. f[n - 1] \in Seq(S) /\ parts[n] \in Seq(S) /\ f[n] = f[n - 1] \o parts[n]
      <4>1. n - 1 \in 1 .. N /\ n \in 1 .. N
        BY <2>3
      <4>. QED BY <2>1, <2>2, <4>1
    <3>. DEFINE a == f[n - 1]
                b == parts[n]
    <3>2. a \in Seq(S) /\ b \in Seq(S)
      BY <3>1
    <3>. HIDE DEF a, b
    <3>3. /\ Len(a \o b) = Len(a) + Len(b)
          /\ \A i \in 1 .. Len(a) + Len(b) :
               (a \o b)[i] = IF i <= Len(a) THEN a[i] ELSE b[i - Len(a)]
          /\ Len(a) \in Nat /\ Len(b) \in Nat
      BY <3>2, ConcatProperties, LenProperties
    <3>4. /\ \A k \in 1 .. Len(b) : /\ Len(a) + k \in 1 .. Len(a) + Len(b)
                                   /\ ~(Len(a) + k <= Len(a))
                                   /\ Len(a) + k - Len(a) = k
          /\ \A i \in 1 .. Len(a) : i \in 1 .. Len(a) + Len(b) /\ i <= Len(a)
          /\ Len(a) <= Len(a) + Len(b)
      BY <3>3
    <3>5. \A k \in 1 .. Len(b) : (a \o b)[Len(a) + k] = b[k]
      BY <3>3, <3>4
    <3>6. begins(a, a \o b)
      BY <3>3, <3>4
    <3>. QED BY <3>1, <3>3, <3>5, <3>6 DEF a, b
  <2>5. ASSUME NEW n \in 1 .. N PROVE begins(f[n], f[N])
    <3>. DEFINE Right == {m \in Nat : n + m <= N => begins(f[n], f[n + m])}
    <3>1. 0 \in Right
      <4>1. n + 0 = n /\ Len(f[n]) <= Len(f[n])
        BY <2>3
      <4>. QED BY <4>1
    <3>2. ASSUME NEW m \in Right PROVE m + 1 \in Right
      <4>1. m \in Nat
        OBVIOUS
      <4>2. CASE n + (m + 1) <= N
        <5>1. /\ n + (m + 1) \in 2 .. N /\ (n + (m + 1)) - 1 = n + m /\ n + m <= N
              /\ n + m \in 1 .. N
          BY <2>3, <4>1, <4>2
        <5>2. begins(f[n], f[n + m])
          BY <5>1
        <5>3. begins(f[n + m], f[n + (m + 1)])
          <6>1. begins(f[(n + (m + 1)) - 1], f[n + (m + 1)])
            <7>. HIDE DEF begins
            <7>. QED BY <2>4, <5>1
          <6>. QED BY <5>1, <6>1
        <5>4. /\ Len(f[n]) \in Nat /\ Len(f[n + m]) \in Nat /\ Len(f[n + (m + 1)]) \in Nat
          BY <2>3, <4>2, <5>1
        <5>5. begins(f[n], f[n + (m + 1)])
          <6>1. Len(f[n]) <= Len(f[n + (m + 1)])
            BY <5>2, <5>3, <5>4
          <6>2. \A j \in 1 .. Len(f[n]) : j \in 1 .. Len(f[n + m])
            BY <5>2, <5>4
          <6>. QED BY <5>2, <5>3, <6>1, <6>2
        <5>. HIDE DEF begins
        <5>. QED BY <4>1, <5>5
      <4>3. CASE ~(n + (m + 1) <= N)
        BY <4>1, <4>3
      <4>. QED BY <4>2, <4>3
    <3>3. Right = Nat
      <4>1. Right \in SUBSET Nat
        OBVIOUS
      <4>. HIDE DEF Right
      <4>. QED BY <3>1, <3>2, <4>1, Induction
    <3>4. N - n \in Nat /\ n + (N - n) = N /\ n + (N - n) <= N
      BY <2>3
    <3>5. N - n \in Right
      <4>. HIDE DEF Right
      <4>. QED BY <3>3, <3>4
    <3>. QED BY <3>4, <3>5
  <2>6. ASSUME NEW n \in 1 .. N
        PROVE  /\ start[n] \in Nat \ {0} /\ start[n + 1] = start[n] + Len(parts[n])
               /\ Len(f[n]) = start[n] + Len(parts[n]) - 1
               /\ \A k \in 1 .. Len(parts[n]) : f[n][start[n] + k - 1] = parts[n][k]
    <3>1. n \in 1 .. N + 1 /\ n + 1 \in 1 .. N + 1 /\ n + 1 # 1 /\ (n + 1) - 1 = n
      BY <2>3
    <3>2. start[n + 1] = Len(f[n]) + 1
      BY <3>1
    <3>3. CASE n = 1
      <4>1. start[1] = 1 /\ f[1] = parts[1]
        BY <2>1, <3>1, <3>3
      <4>2. Len(parts[1]) \in Nat /\ \A k \in 1 .. Len(parts[1]) : 1 + k - 1 = k
        BY <2>3, <3>3
      <4>. HIDE DEF start
      <4>. QED BY <3>2, <3>3, <4>1, <4>2
    <3>4. CASE n # 1
      <4>1. n \in 2 .. N /\ n - 1 \in 1 .. N
        BY <2>3, <3>4
      <4>2. start[n] = Len(f[n - 1]) + 1
        BY <3>1, <3>4
      <4>. HIDE DEF start
      <4>3. Len(f[n - 1]) \in Nat /\ Len(parts[n]) \in Nat
        BY <2>3, <4>1
      <4>4. /\ Len(f[n]) = Len(f[n - 1]) + Len(parts[n])
            /\ \A k \in 1 .. Len(parts[n]) : f[n][Len(f[n - 1]) + k] = parts[n][k]
        BY <2>4, <4>1
      <4>5. \A k \in 1 .. Len(parts[n]) : start[n] + k - 1 = Len(f[n - 1]) + k
        BY <4>2, <4>3
      <4>6. \A k \in 1 .. Len(parts[n]) : f[n][start[n] + k - 1] = parts[n][k]
        BY <4>4, <4>5
      <4>. DEFINE a == Len(f[n - 1])
                  b == Len(parts[n])
                  x == Len(f[n])
                  here == start[n]
                  behind == start[n + 1]
      <4>7. a \in Nat /\ b \in Nat /\ x = a + b /\ here = a + 1 /\ behind = x + 1
        BY <3>2, <4>2, <4>3, <4>4
      <4>. HIDE DEF a, b, x, here, behind
      <4>8. here \in Nat \ {0} /\ behind = here + b /\ x = here + b - 1
        BY <4>7
      <4>. QED BY <4>6, <4>8 DEF b, x, here, behind
    <3>. QED BY <3>3, <3>4
  <2>7. start[1] = 1 /\ start[N + 1] = Len(f[N]) + 1
    <3>1. 1 \in 1 .. N + 1 /\ N + 1 \in 1 .. N + 1 /\ N + 1 # 1 /\ (N + 1) - 1 = N
      BY <2>3
    <3>. QED BY <3>1
  <2>. HIDE DEF start
  <2>8. ASSUME NEW n \in 1 .. N PROVE StandsAt(f[N], start[n], parts[n])
    <3>1. begins(f[n], f[N])
      <4>. HIDE DEF begins
      <4>. QED BY <2>5
    <3>2. /\ start[n] \in Nat \ {0} /\ Len(parts[n]) \in Nat /\ Len(f[n]) \in Nat
          /\ Len(f[n]) = start[n] + Len(parts[n]) - 1
      BY <2>3, <2>6
    <3>3. \A k \in 1 .. Len(parts[n]) : start[n] + k - 1 \in 1 .. Len(f[n])
      <4>. DEFINE a == start[n]
                  b == Len(parts[n])
                  e == Len(f[n])
      <4>1. a \in Nat \ {0} /\ b \in Nat /\ e \in Nat /\ e = a + b - 1
        BY <3>2
      <4>. HIDE DEF a, b, e
      <4>2. \A k \in 1 .. b : a + k - 1 \in 1 .. e
        BY <4>1
      <4>. QED BY <4>2 DEF a, b, e
    <3>4. start[n] + Len(parts[n]) - 1 <= Len(f[N])
      BY <3>1, <3>2
    <3>. QED BY <2>6, <3>1, <3>3, <3>4 DEF StandsAt
  <2>9. PiecesStand(f[N], parts, start)
    BY <2>6, <2>7, <2>8 DEF PiecesStand, N
  <2>10. f[N] \in Seq(S)
    BY <2>1, <2>3
  <2>. QED BY <2>1, <2>9, <2>10
<1>. QED BY <1>2, <1>3

(* Every string comes back, whatever its characters.                        *)
LEMMA StringsSound ==
    ASSUME NEW codes \in Seq(Nat)
    PROVE  StringsComeBack(codes)
<1>. DEFINE N == Len(codes)
            parts == [i \in DOMAIN codes |-> Escaped(codes[i])]
            flat == FlattenSeq(parts)
            escaped == JsonEscape(codes)
            L == Len(escaped)
            S == Nat
            Q == Seq(S)
<1>1. N \in Nat /\ DOMAIN codes = 1 .. N /\ \A i \in 1 .. N : codes[i] \in Nat
  BY LenProperties, ElementOfSeq
<1>2. \A i \in 1 .. N : Escaped(codes[i]) \in Seq(Nat) /\ Len(Escaped(codes[i])) >= 1
  <2>. SUFFICES ASSUME NEW i \in 1 .. N
                PROVE  Escaped(codes[i]) \in Seq(Nat) /\ Len(Escaped(codes[i])) >= 1
    OBVIOUS
  <2>1. codes[i] \in Nat
    BY <1>1
  <2>. QED BY <2>1, EscapedTyped
<1>3. parts \in Seq(Q) /\ Len(parts) = N /\ \A i \in 1 .. N : parts[i] = Escaped(codes[i])
  <2>1. parts = [i \in 1 .. N |-> Escaped(codes[i])]
    BY <1>1
  <2>2. \A i \in 1 .. N : parts[i] = Escaped(codes[i]) /\ Escaped(codes[i]) \in Q
    BY <1>2, <2>1
  <2>3. parts = [i \in 1 .. N |-> parts[i]] /\ \A i \in 1 .. N : parts[i] \in Q
    BY <2>1, <2>2
  <2>. HIDE DEF parts, Q, N
  <2>. QED BY <1>1, <2>2, <2>3
<1>4. escaped = flat \o <<Quote>>
  BY DEF JsonEscape
<1>. HIDE DEF parts, escaped
<1>5. flat \in Seq(Nat) /\ \E start : PiecesStand(flat, parts, start)
  <2>. HIDE DEF S
  <2>1. flat \in Seq(S) /\ \E start : PiecesStand(flat, parts, start)
    BY <1>3, PiecesAre
  <2>. QED BY <2>1 DEF S
<1>6. PICK start : PiecesStand(flat, parts, start)
  BY <1>5
<1>. HIDE DEF flat
<1>7. /\ L \in Nat /\ Len(flat) \in Nat /\ L = Len(flat) + 1 /\ escaped[L] = Quote
      /\ \A i \in 1 .. Len(flat) : escaped[i] = flat[i]
  <2>1. <<Quote>> \in Seq(Nat) /\ Len(<<Quote>>) = 1 /\ <<Quote>>[1] = Quote
    BY DEF Quote
  <2>. DEFINE b == <<Quote>>
  <2>. HIDE DEF b
  <2>2. b \in Seq(Nat) /\ Len(b) = 1 /\ b[1] = Quote
    BY <2>1 DEF b
  <2>3. /\ Len(flat \o b) = Len(flat) + Len(b) /\ Len(flat) \in Nat
        /\ \A i \in 1 .. Len(flat) + Len(b) :
             (flat \o b)[i] = IF i <= Len(flat) THEN flat[i] ELSE b[i - Len(flat)]
    BY <1>5, <2>2, ConcatProperties, LenProperties
  <2>4. escaped = flat \o b
    BY <1>4 DEF b
  <2>5. /\ Len(flat) + 1 \in 1 .. Len(flat) + Len(b) /\ ~(Len(flat) + 1 <= Len(flat))
        /\ (Len(flat) + 1) - Len(flat) = 1
        /\ \A i \in 1 .. Len(flat) : i \in 1 .. Len(flat) + Len(b) /\ i <= Len(flat)
    BY <2>2, <2>3
  <2>. QED BY <2>2, <2>3, <2>4, <2>5
<1>8. \A n \in 1 .. N : /\ start[n] \in Nat \ {0}
                        /\ start[n + 1] = start[n] + Len(Escaped(codes[n]))
                        /\ StandsAt(flat, start[n], Escaped(codes[n]))
  BY <1>3, <1>6 DEF PiecesStand
<1>9. start[1] = 1 /\ start[N + 1] = L
  BY <1>3, <1>6, <1>7 DEF PiecesStand
<1>. HIDE DEF N, L
<1>10. ASSUME NEW n \in 1 .. N PROVE StandsAt(escaped, start[n], Escaped(codes[n]))
  <2>. DEFINE piece == Escaped(codes[n])
              pos == start[n]
  <2>1. pos \in Nat \ {0} /\ Len(piece) \in Nat /\ StandsAt(flat, pos, piece)
    BY <1>2, <1>8, LenProperties
  <2>. HIDE DEF piece, pos
  <2>2. /\ pos + Len(piece) - 1 <= Len(flat)
        /\ \A k \in 1 .. Len(piece) : flat[pos + k - 1] = piece[k]
    BY <2>1 DEF StandsAt
  <2>3. \A k \in 1 .. Len(piece) : pos + k - 1 \in 1 .. Len(flat)
    BY <1>7, <2>1, <2>2
  <2>4. pos + Len(piece) - 1 <= Len(escaped)
    BY <1>7, <2>1, <2>2 DEF L
  <2>5. StandsAt(escaped, pos, piece)
    BY <1>7, <2>2, <2>3, <2>4 DEF StandsAt
  <2>. QED BY <2>5 DEF piece, pos
<1>11. PICK g : /\ g[0] = Reading(1, <<>>)
                /\ \A n \in 1 .. L + 1 : g[n] = Turn(escaped, g[n - 1])
                /\ ParseString(escaped) = g[L + 1]
  BY <1>7, TurnsAre DEF L
<1>. DEFINE Read(n) == \E read \in Seq(Nat) :
                         /\ g[n] = Reading(start[n + 1], read) /\ Len(read) = n
                         /\ \A j \in 1 .. n : read[j] = codes[j]
            Right == {n \in Nat : n <= N => n <= L /\ start[n + 1] >= n + 1 /\ Read(n)}
<1>12. 0 \in Right
  <2>1. <<>> \in Seq(Nat) /\ Len(<<>>) = 0
    OBVIOUS
  <2>2. Read(0)
    <3>1. g[0] = Reading(start[0 + 1], <<>>)
      BY <1>9, <1>11
    <3>2. \A j \in 1 .. 0 : <<>>[j] = codes[j]
      OBVIOUS
    <3>. QED BY <2>1, <3>1, <3>2
  <2>. HIDE DEF Read
  <2>. QED BY <1>7, <1>9, <2>2
<1>13. ASSUME NEW n \in Right PROVE n + 1 \in Right
  <2>1. n \in Nat
    OBVIOUS
  <2>2. CASE ~(n + 1 <= N)
    BY <2>1, <2>2
  <2>3. CASE n + 1 <= N
    <3>. DEFINE next == n + 1
                c == codes[next]
    <3>1. n <= N /\ next \in 1 .. N /\ next - 1 = n /\ next \in Nat
      BY <1>1, <2>1, <2>3
    <3>2. n <= L /\ start[next] >= next /\ Read(n)
      BY <3>1
    <3>3. PICK read \in Seq(Nat) : /\ g[n] = Reading(start[next], read) /\ Len(read) = n
                                   /\ \A j \in 1 .. n : read[j] = codes[j]
      BY <3>2
    <3>. HIDE DEF Right, Read, next
    <3>4. /\ c \in Nat /\ start[next] \in Nat \ {0} /\ Len(Escaped(c)) >= 1
          /\ Len(Escaped(c)) \in Nat
          /\ start[next + 1] = start[next] + Len(Escaped(c))
          /\ StandsAt(escaped, start[next], Escaped(c))
      BY <1>1, <1>2, <1>8, <1>10, <3>1, LenProperties
    <3>. HIDE DEF c
    <3>5. start[next] + Len(Escaped(c)) - 1 <= L
      BY <3>4 DEF StandsAt, L
    <3>6. next <= L /\ start[next + 1] >= next + 1 /\ next \in 1 .. L + 1
      BY <1>7, <3>1, <3>2, <3>4, <3>5
    <3>7. Turn(escaped, Reading(start[next], read))
            = Reading(start[next] + Len(Escaped(c)), Append(read, c))
      BY <1>7, <3>4, TurnReads DEF L
    <3>8. g[next] = Reading(start[next + 1], Append(read, c))
      BY <1>11, <3>1, <3>3, <3>4, <3>6, <3>7
    <3>9. /\ Append(read, c) \in Seq(Nat) /\ Len(Append(read, c)) = next
          /\ \A j \in 1 .. n : Append(read, c)[j] = codes[j]
          /\ Append(read, c)[next] = c
      BY <3>3, <3>4, AppendProperties DEF next
    <3>10. \A j \in 1 .. next : j \in 1 .. n \/ j = next
      BY <2>1 DEF next
    <3>11. Read(next)
      BY <3>8, <3>9, <3>10 DEF Read, c
    <3>12. next \in Right
      BY <3>1, <3>6, <3>11 DEF Right
    <3>. QED BY <3>12 DEF next
  <2>. QED BY <2>2, <2>3
<1>14. Right = Nat
  <2>1. Right \in SUBSET Nat
    OBVIOUS
  <2>. HIDE DEF Right
  <2>. QED BY <1>12, <1>13, <2>1, Induction
<1>15. N <= L /\ Read(N)
  <2>1. N \in Nat /\ N <= N
    BY <1>1
  <2>2. N \in Right
    <3>. HIDE DEF Right
    <3>. QED BY <1>14, <2>1
  <2>. HIDE DEF Read
  <2>. QED BY <2>1, <2>2
<1>16. PICK read \in Seq(Nat) : /\ g[N] = Reading(L, read) /\ Len(read) = N
                                /\ \A j \in 1 .. N : read[j] = codes[j]
  BY <1>9, <1>15
<1>17. read = codes
  BY <1>1, <1>16, SeqEqual DEF N
<1>. DEFINE closed == ClosedAt(L + 1, codes)
            Done == {n \in Nat : N + 1 + n <= L + 1 => g[N + 1 + n] = closed}
<1>18. 0 \in Done
  <2>1. N + 1 \in 1 .. L + 1 /\ (N + 1) - 1 = N /\ N + 1 + 0 = N + 1
    BY <1>1, <1>7, <1>15
  <2>2. g[N + 1] = Turn(escaped, Reading(L, codes))
    BY <1>11, <1>16, <1>17, <2>1
  <2>3. Turn(escaped, Reading(L, codes)) = ClosedAt(L + 1, codes)
    BY <1>7 DEF Turn, Reading, L
  <2>. QED BY <2>1, <2>2, <2>3
<1>19. ASSUME NEW n \in Done PROVE n + 1 \in Done
  <2>1. n \in Nat
    OBVIOUS
  <2>2. CASE ~(N + 1 + (n + 1) <= L + 1)
    BY <2>1, <2>2
  <2>3. CASE N + 1 + (n + 1) <= L + 1
    <3>1. /\ N + 1 + (n + 1) \in 1 .. L + 1 /\ (N + 1 + (n + 1)) - 1 = N + 1 + n
          /\ N + 1 + n <= L + 1 /\ n + 1 \in Nat
      BY <1>1, <1>7, <2>1, <2>3
    <3>2. g[N + 1 + n] = closed
      BY <3>1
    <3>3. g[N + 1 + (n + 1)] = Turn(escaped, closed)
      BY <1>11, <3>1, <3>2
    <3>4. Turn(escaped, closed) = closed
      BY DEF Turn, ClosedAt
    <3>. HIDE DEF closed
    <3>. QED BY <3>1, <3>3, <3>4
  <2>. QED BY <2>2, <2>3
<1>20. Done = Nat
  <2>1. Done \in SUBSET Nat
    OBVIOUS
  <2>. HIDE DEF Done
  <2>. QED BY <1>18, <1>19, <2>1, Induction
<1>21. ParseString(escaped) = closed
  <2>1. L - N \in Nat /\ N + 1 + (L - N) = L + 1
    BY <1>1, <1>7, <1>15
  <2>2. L - N \in Done
    <3>. HIDE DEF Done
    <3>. QED BY <1>20, <2>1
  <2>. HIDE DEF closed
  <2>3. g[N + 1 + (L - N)] = closed
    BY <1>7, <2>1, <2>2
  <2>. QED BY <1>11, <2>1, <2>3
<1>. QED BY <1>21 DEF StringsComeBack, L, escaped
=============================================================================
