----------------------------- MODULE NonceScan ------------------------------
(***************************************************************************)
(* One worker's walk over the nonces of one unit of work: the inner loop of *)
(* MinerController::workerLoop() (src/src/mining/miner.cpp), which calls    *)
(* mine() of the CPU reference or of the CUDA backend for a chunk of nonces *)
(* at a time.  A launch of the CUDA backend is what module MineKernel shows *)
(* of it: some nonce of the launch that meets the target, if there is one.  *)
(***************************************************************************)
EXTENDS Integers, FiniteSets, FiniteSetsExt

CONSTANTS NonceSpace,   \* 2^32 in the program
          CountSpace,   \* 2^64: remaining, hashes and offsets are uint64_t
          ChunkSize,    \* kCpuChunkSize or kGpuChunkSize
          LaunchSize,   \* kChunkSize of the CUDA backend
          PollEvery,    \* hashes between two looks at the stop flag (CPU)
          StartNonce    \* where this worker's region begins

ASSUME ScanAssumption ==
    /\ NonceSpace \in Nat \ {0} /\ CountSpace \in Nat /\ 2 * NonceSpace < CountSpace
    /\ ChunkSize \in Nat \ {0} /\ LaunchSize \in Nat \ {0} /\ PollEvery \in Nat \ {0}
    /\ StartNonce \in 0 .. NonceSpace - 1

Nonces == 0 .. NonceSpace - 1
Counts == 0 .. CountSpace - 1

VARIABLES
    onGpu,                    \* useCuda_
    winners,                  \* the nonces whose hash meets the share target
    pc, nonce, remaining,     \* workerLoop()
    chunk, offset, performed, \* mine(): nonceCount, the loop index, hashes
    stopFlag, newWork,        \* stopFlag_; the generation has changed
    counted,                  \* stats_.addHashes()
    submitted,                \* nonces in the order handleFoundNonce() got them
    hashed, tried             \* how often each nonce was really hashed, and all
                              \* of them together

scanVars == <<nonce, remaining>>
mineVars == <<chunk, offset, performed>>
outVars  == <<counted, submitted>>
hashVars == <<hashed, tried>>
given == <<onGpu, winners>>
vars == <<given, pc, scanVars, mineVars, stopFlag, newWork, outVars, hashVars>>

Init ==
    /\ onGpu \in BOOLEAN /\ winners \in SUBSET Nonces
    /\ pc = "range" /\ nonce = StartNonce /\ remaining = NonceSpace
    /\ chunk = 0 /\ offset = 0 /\ performed = 0
    /\ stopFlag = FALSE /\ newWork = FALSE
    /\ counted = 0 /\ submitted = [n \in Nonces |-> 0]
    /\ hashed = [n \in Nonces |-> 0] /\ tried = 0

(* static_cast<uint32_t>(startNonce + i)                                    *)
NonceAt(i) == (nonce + i) % NonceSpace

-----------------------------------------------------------------------------
(* stop(), or a new job, at any time.                                       *)
RaiseStop ==
    /\ ~stopFlag /\ stopFlag' = TRUE
    /\ UNCHANGED <<given, pc, scanVars, mineVars, newWork, outVars, hashVars>>

JobChanges ==
    /\ ~newWork /\ newWork' = TRUE
    /\ UNCHANGED <<given, pc, scanVars, mineVars, stopFlag, outVars, hashVars>>

(* The head of the loop.                                                    *)
RangeEnds ==
    /\ pc = "range" /\ (remaining = 0 \/ stopFlag \/ newWork)
    /\ pc' = "done"
    /\ UNCHANGED <<given, scanVars, mineVars, stopFlag, newWork, outVars, hashVars>>

(* Wrong form: the range is cut into whole chunks.                          *)
MineBeginsWhole ==
    /\ pc = "range" /\ remaining > 0 /\ ~stopFlag /\ ~newWork
    /\ chunk' = IF remaining < ChunkSize THEN 0 ELSE ChunkSize
    /\ offset' = 0 /\ performed' = 0
    /\ pc' = "mine"
    /\ UNCHANGED <<given, scanVars, stopFlag, newWork, outVars, hashVars>>

MineBegins ==
    /\ pc = "range" /\ remaining > 0 /\ ~stopFlag /\ ~newWork
    /\ chunk' = Min({remaining, ChunkSize})
    /\ offset' = 0 /\ performed' = 0
    /\ pc' = "mine"
    /\ UNCHANGED <<given, scanVars, stopFlag, newWork, outVars, hashVars>>

(* CpuReferenceMiner::mine(): one nonce.                                    *)
CpuHashes ==
    /\ pc = "mine" /\ ~onGpu /\ offset < chunk
    /\ offset % PollEvery = 0 => ~stopFlag
    /\ LET n == NonceAt(offset) IN
         /\ hashed' = [hashed EXCEPT ![n] = @ + 1] /\ tried' = tried + 1
         /\ performed' = performed + 1
         /\ IF n \in winners THEN pc' = "found" /\ UNCHANGED offset
                             ELSE offset' = offset + 1 /\ UNCHANGED pc
    /\ UNCHANGED <<given, scanVars, chunk, stopFlag, newWork, outVars>>

Hash(done) ==
    /\ hashed' = [n \in Nonces |-> hashed[n] + IF n \in done THEN 1 ELSE 0]
    /\ tried' = tried + Cardinality(done)

(* CudaMiningBackend::mine(): one launch.  Threads that see a peer's        *)
(* success do not hash, and any winner may be the one that is reported.     *)
GpuLaunches ==
    /\ pc = "mine" /\ onGpu /\ offset < chunk /\ ~stopFlag
    /\ LET size == Min({chunk - offset, LaunchSize})
           launch == {NonceAt(offset + i) : i \in 0 .. size - 1}
       IN  /\ performed' = performed + size
           /\ IF launch \cap winners = {}
                THEN /\ offset' = offset + size /\ UNCHANGED pc
                     /\ Hash(launch)
                ELSE /\ pc' = "found"
                     /\ \E done \in SUBSET launch :
                          /\ \E i \in 0 .. size - 1 :
                               /\ offset' = offset + i
                               /\ NonceAt(offset + i) \in winners \cap done
                          /\ Hash(done)
    /\ UNCHANGED <<given, scanVars, chunk, stopFlag, newWork, outVars>>

(* Wrong form: the chunk is counted, hashed or not.                         *)
FoundNothingEstimates ==
    /\ pc = "mine"
    /\ \/ offset = chunk
       \/ stopFlag /\ (onGpu \/ offset % PollEvery = 0)
    /\ counted' = counted + chunk
    /\ nonce' = (nonce + chunk) % NonceSpace
    /\ remaining' = (remaining - chunk) % CountSpace
    /\ pc' = "range"
    /\ UNCHANGED <<given, mineVars, stopFlag, newWork, submitted, hashVars>>

(* mine() saw the stop flag, or came to the end of the chunk.               *)
FoundNothing ==
    /\ pc = "mine"
    /\ \/ offset = chunk
       \/ stopFlag /\ (onGpu \/ offset % PollEvery = 0)
    /\ counted' = counted + performed
    /\ nonce' = (nonce + chunk) % NonceSpace
    /\ remaining' = (remaining - chunk) % CountSpace
    /\ pc' = "range"
    /\ UNCHANGED <<given, mineVars, stopFlag, newWork, submitted, hashVars>>

(* Wrong forms: the hashes of a find are not taken off the range; the scan  *)
(* goes on after the chunk.                                                 *)
FoundShareFree ==
    /\ pc = "found"
    /\ counted' = counted + performed
    /\ submitted' = [submitted EXCEPT ![NonceAt(offset)] = @ + 1]
    /\ nonce' = (NonceAt(offset) + 1) % NonceSpace
    /\ pc' = "range"
    /\ UNCHANGED <<given, remaining, mineVars, stopFlag, newWork, hashVars>>
FoundShareSkips ==
    /\ pc = "found"
    /\ counted' = counted + performed
    /\ submitted' = [submitted EXCEPT ![NonceAt(offset)] = @ + 1]
    /\ nonce' = (nonce + chunk) % NonceSpace
    /\ remaining' = (remaining - chunk) % CountSpace
    /\ pc' = "range"
    /\ UNCHANGED <<given, mineVars, stopFlag, newWork, hashVars>>

(* "Continue past the winning nonce with the same work."                    *)
FoundShare ==
    /\ pc = "found"
    /\ counted' = counted + performed
    /\ submitted' = [submitted EXCEPT ![NonceAt(offset)] = @ + 1]
    /\ nonce' = (NonceAt(offset) + 1) % NonceSpace
    /\ remaining' = IF remaining > performed + 1
                      THEN (remaining - (performed + 1)) % CountSpace ELSE 0
    /\ pc' = "range"
    /\ UNCHANGED <<given, mineVars, stopFlag, newWork, hashVars>>

Ended == pc = "done" /\ UNCHANGED vars

Loop == RangeEnds \/ MineBegins \/ CpuHashes \/ GpuLaunches \/ FoundNothing \/ FoundShare
Next == RaiseStop \/ JobChanges \/ Loop \/ Ended

Spec     == Init /\ [][Next]_vars
FairSpec == Spec /\ WF_vars(Loop)

-----------------------------------------------------------------------------
(* Every variable has its type: the 64-bit counters never wrap.             *)
TypeOK ==
    /\ onGpu \in BOOLEAN /\ winners \in SUBSET Nonces
    /\ pc \in {"range", "mine", "found", "done"}
    /\ nonce \in Nonces /\ remaining \in 0 .. NonceSpace
    /\ chunk \in 0 .. ChunkSize /\ offset \in 0 .. chunk /\ performed \in 0 .. chunk
    /\ stopFlag \in BOOLEAN /\ newWork \in BOOLEAN
    /\ counted \in 0 .. NonceSpace
    /\ submitted \in [Nonces -> Nat] /\ hashed \in [Nonces -> Nat] /\ tried \in Nat

(* No nonce of a unit of work is submitted twice, although the scan wraps   *)
(* around the nonce space and, on the GPU, goes back over part of a launch. *)
SubmittedOnce == \A n \in Nonces : submitted[n] <= 1

Found == {n \in Nonces : submitted[n] > 0}

(* What the statistics count is what was hashed: a backend "counts the      *)
(* nonces it actually hashed" (backend.hpp:31-32).  The GPU counts launches, *)
(* and so at least that.                                                    *)
CountedIsHashed ==
    pc = "range" => IF onGpu THEN counted >= tried ELSE counted = tried

(* A scan that nothing cut short leaves out, for each share that it found,  *)
(* at most one nonce on the CPU and at most one launch's on the GPU: one    *)
(* that finds nothing has tried every nonce.  The CPU submits every winner  *)
(* that it tried; a launch reports one winner of those that it hashed.      *)
LeftOutPerShare == IF onGpu THEN LaunchSize ELSE 1
ScanIsComplete ==
    pc = "done" /\ ~stopFlag /\ ~newWork =>
        /\ Cardinality({n \in Nonces : hashed[n] = 0})
             <= LeftOutPerShare * Cardinality(Found)
        /\ ~onGpu => \A n \in winners : hashed[n] > 0 => n \in Found

(* The worker gets to the end of the range and takes new work.              *)
ScanEnds == <>(pc = "done")
=============================================================================
