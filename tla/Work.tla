-------------------------------- MODULE Work --------------------------------
(***************************************************************************)
(* The units of work of src/src/mining/work.cpp: an extranonce2 counter     *)
(* becomes bytes, the bytes a coinbase, the coinbase a Merkle root and a    *)
(* header, and the header has two targets.                                  *)
(*                                                                          *)
(* Abstractions.  The hash of a coinbase is the coinbase; the fields of the *)
(* header that are copied from the job are left out.                        *)
(***************************************************************************)
EXTENDS Difficulty, MerkleTree

CONSTANT CounterBytes      \* 8: the counter is a uint64_t

ASSUME CounterAssumption == CounterBytes \in Nat \ {0}

CounterSpace == Pow2[ByteBits * CounterBytes]

(* MiningJob::valid()                                                       *)
ValidJob(job) == job.jobId # "" /\ job.coinbase1 # <<>> /\ job.extranonce2Size > 0

(* Wrong form: the least significant bytes come first, and the highest of   *)
(* them are lost.                                                           *)
EncodeExtranonce2Top(counter, size) ==
    [i \in 1 .. size |->
       IF i <= CounterBytes THEN (counter \div Pow2[ByteBits * (CounterBytes - i)]) % ByteBase ELSE 0]

(* encodeExtranonce2(): big-endian, in as many bytes as the pool asked for. *)
EncodeExtranonce2(counter, size) ==
    [i \in 1 .. size |->
       IF size - i < CounterBytes THEN (counter \div Pow2[ByteBits * (size - i)]) % ByteBase ELSE 0]

(* buildCoinbase()                                                          *)
BuildCoinbase(job, extranonce2) ==
    job.coinbase1 \o job.extranonce1 \o extranonce2 \o job.coinbase2

(* The targets; without a difficulty, the share target is the network's.    *)
NetworkTarget(job) == DecodeCompactBits(job.nBits)
ShareTarget(job) ==
    LET target == TargetFromShareDifficulty(job.difficulty)
    IN  IF IsZero(target) THEN NetworkTarget(job) ELSE target

(* buildWorkWithExtranonce2()                                               *)
NoWork == [valid |-> FALSE]
BuildWorkWithExtranonce2(job, extranonce2) ==
    IF ~ValidJob(job) \/ Len(extranonce2) # job.extranonce2Size THEN NoWork
    ELSE [valid         |-> ~IsZero(NetworkTarget(job)),
          extranonce2   |-> extranonce2,
          merkleRoot    |-> MerkleRootFromBranch(BuildCoinbase(job, extranonce2), job.branch),
          shareTarget   |-> ShareTarget(job),
          networkTarget |-> NetworkTarget(job)]

(* buildWork()                                                              *)
BuildWork(job, counter) ==
    BuildWorkWithExtranonce2(job, EncodeExtranonce2(counter, job.extranonce2Size))

-----------------------------------------------------------------------------
(* Two counters give the same header exactly if they are the same as far as *)
(* the pool's extranonce2 is long: the counter repeats, and not before it   *)
(* must.  Work for a usable job is valid and has a target that some hash    *)
(* meets; without a difficulty, a share is nothing less than a block        *)
(* (work.cpp:69-74).                                                        *)
WorkIsSound(job, a, b) ==
    LET first  == BuildWork(job, a)
        second == BuildWork(job, b)
        period == Pow2[ByteBits * Min({job.extranonce2Size, CounterBytes})]
    IN  /\ first.valid <=> ValidJob(job) /\ Accepted(job.nBits) /\ ~IsZero(NetworkTarget(job))
        /\ first.valid =>
             /\ first.merkleRoot = second.merkleRoot <=> a % period = b % period
             /\ HashMeetsTarget(Zero, first.shareTarget)
             /\ job.difficulty = 0 => first.shareTarget = first.networkTarget
=============================================================================
