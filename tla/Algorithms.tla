----------------------------- MODULE Algorithms -----------------------------
(***************************************************************************)
(* The sequential parts of the miner: one input is chosen, and the          *)
(* invariants compare what the code makes of it with what integers, trees,  *)
(* sequences or protocols say.  Which inputs there are is a parameter, of   *)
(* which no more is assumed than what a correct caller sees to.             *)
(***************************************************************************)
EXTENDS Wire, Statistics, Sha256, Configuration

CONSTANTS Subjects,    \* the inputs to choose from
          Clocks       \* the times at which the statistics are read

(* Jobs as the pool sends them and the client completes them.               *)
Jobs ==
    [jobId : STRING, coinbase1 : Seq(Bytes), extranonce1 : Seq(Bytes), coinbase2 : Seq(Bytes),
     branch : Seq(STRING), extranonce2Size : Nat, difficulty : 0 .. Unit * LimbBase - 2,
     nBits : [exponent : Nat, word : Word]]
Counters == 0 .. CounterSpace - 1

(* The blocks a pool has shares made for.                                   *)
WordOfBytes == [1 .. WordBytes -> Bytes]
PoolBlocks ==
    [jobId : STRING \ {""}, previous : [1 .. WordBytes * HashWords -> Bytes],
     coinbase1 : Seq(Bytes), coinbase2 : Seq(Bytes), branch : Seq(STRING),
     version : WordOfBytes, bits : WordOfBytes, timestamp : WordOfBytes]

(* The values of a patch; those of the number of threads fit in an int.     *)
JsonValue(v) ==
    \/ v = Null
    \/ v \in [kind : {"bool"}, number : {0, 1}]
    \/ v \in [kind : {"string"}, text : STRING]
    \/ v \in [kind : {"digits", "number"}, number : Int]
FitsItsField(field, v) ==
    field = "cpuThreads" /\ v.kind \in {"digits", "number"} => v.number < IntSpace \div 2

(* The inputs that each kind may have.                                      *)
Allowed(s) ==
    /\ s.kind # "none"
    /\ s.kind = "numbers"    => s \in [kind : {"numbers"}, a : UInts, b : UInts]
    /\ s.kind = "shift"      => s \in [kind : {"shift"}, a : UInts, shift : Nat]
    /\ s.kind = "nBits"      => s \in [kind : {"nBits"}, exponent : Nat, word : Word]
    /\ s.kind = "target"     => s \in [kind : {"target"}, target : UInts]
    /\ s.kind = "share"      =>
         s \in [kind : {"share"}, hash : UInts, d : 1 .. Unit * LimbBase - 2]
    /\ s.kind = "leaves"     =>
         s \in [kind : {"leaves"}, leaves : Seq(Seq(Nat))] /\ s.leaves # <<>>
    /\ s.kind = "recordings" =>
         s \in [kind : {"recordings"},
                recordings : Seq(Recording({"hashes", "share", "begin", "end"}, Nat, Nat))]
    /\ s.kind = "message"    => s \in [kind : {"message"}, parts : Seq(Seq(MessageBytes))]
    /\ s.kind = "work"       => s \in [kind : {"work"}, job : Jobs, a : Counters, b : Counters]
    /\ s.kind = "wire"       =>
         s \in [kind : {"wire"}, block : PoolBlocks, extranonce1 : Seq(Bytes),
                extranonce2 : Seq(Bytes), nonce : Words]
    /\ s.kind = "patch"      =>
         /\ \E fields \in SUBSET DOMAIN Defaults : DOMAIN s.patch = fields
         /\ \A f \in DOMAIN s.patch : JsonValue(s.patch[f]) /\ FitsItsField(f, s.patch[f])
         /\ s.edited \in DOMAIN Defaults /\ JsonValue(s.to)

ASSUME SubjectsAssumption == \A s \in Subjects : Allowed(s)
ASSUME ClocksAssumption == Clocks \subseteq Nat

VARIABLE subject

Init == subject = [kind |-> "none"]

Choose == subject.kind = "none" /\ subject' \in Subjects
Chosen == subject.kind # "none" /\ UNCHANGED subject

Next == Choose \/ Chosen
Spec == Init /\ [][Next]_subject

(* Sums, differences, comparisons, shifts and quotients of 256-bit numbers  *)
(* are those of the integers.                                               *)
NumbersAreExact ==
    /\ subject.kind = "numbers" =>
         SumsAreExact(subject.a, subject.b) /\ QuotientsAreExact(subject.a, subject.b)
    /\ subject.kind = "shift" => ShiftsAreExact(subject.a, subject.shift)

(* nBits means what its definition says, or is refused, and targets go      *)
(* through it and back; the target of a share difficulty falls as the       *)
(* difficulty rises, and agrees with the ranking of shares by difficulty.   *)
TargetsAreExact ==
    /\ subject.kind = "nBits" =>
         LET nBits == [exponent |-> subject.exponent, word |-> subject.word]
         IN  DecodesItsValue(nBits) /\ RoundTrips(nBits)
    /\ subject.kind = "target" => EncodingIsTight(subject.target)
    /\ subject.kind = "share" =>
         HarderIsSmaller(subject.d) /\ RanksLikeItsTarget(subject.hash, subject.d)

(* What SHA-256 compresses is the padded message, however it came in, and   *)
(* the root that a miner folds from the branch is the root of the tree.     *)
HashesAreStandard ==
    /\ subject.kind = "message" => PaddingIsStandard(subject.parts)
    /\ subject.kind = "leaves" => BranchGivesRoot(subject.leaves)

(* The windows and the counters of the statistics hold what was recorded,   *)
(* in whatever order the clocks were read and the mutex was taken.          *)
StatisticsAreExact ==
    subject.kind = "recordings" => CountsWhatHappened(subject.recordings, Clocks)

(* Work differs as long as its extranonce2 can, and is workable.            *)
WorkIsDistinct ==
    subject.kind = "work" => WorkIsSound(subject.job, subject.a, subject.b)

(* A share is checked by the pool as it was hashed.                         *)
PoolsAgree ==
    subject.kind = "wire" =>
      ThePoolAgrees(subject.block, subject.extranonce1, subject.extranonce2, subject.nonce)

(* A configuration that is read, edited in one field and written back is    *)
(* changed in that field alone.                                             *)
EditsAreLocal ==
    subject.kind = "patch" => EditsOneField(subject.patch, subject.edited, subject.to)
=============================================================================
