---------------------------- MODULE MineKernel -----------------------------
(***************************************************************************)
(* One launch of mineKernel in src/src/cuda/cuda_backend.cu: the threads of *)
(* the grid share one KernelFound in device memory, { found, nonce }, which *)
(* the host has set to { 0, 0 }.  The threads are scheduled in any order.   *)
(***************************************************************************)
EXTENDS Integers

CONSTANTS NonceCount,   \* threads that pass the index test
          StartNonce,   \* first nonce of the launch
          NonceSpace    \* 2^32 in the program

ASSUME LaunchAssumption ==
    /\ NonceSpace \in Nat \ {0} /\ NonceCount \in 0 .. NonceSpace
    /\ StartNonce \in 0 .. NonceSpace - 1

Indices == 0 .. NonceCount - 1
Nonces  == 0 .. NonceSpace - 1

(* uint32_t addition.                                                       *)
NonceOf(index) == (StartNonce + index) % NonceSpace

VARIABLES winners,   \* the nonces whose hash meets the share target
          pc,        \* where each thread is
          found, nonce

vars == <<winners, pc, found, nonce>>

Init ==
    /\ winners \in SUBSET Nonces
    /\ pc = [i \in Indices |-> "begin"]
    /\ found = 0 /\ nonce = 0

(* Wrong form: the index test stops one nonce short.                        *)
BeginShort(i) ==
    /\ pc[i] = "begin"
    /\ pc' = [pc EXCEPT ![i] = IF found # 0 \/ i >= NonceCount - 1 THEN "gaveUp" ELSE "hash"]
    /\ UNCHANGED <<winners, found, nonce>>

(* A thread that sees a peer's success gives up without hashing; the plain  *)
(* load need not see it.                                                    *)
Begin(i) ==
    /\ pc[i] = "begin"
    /\ \E to \in IF found # 0 THEN {"gaveUp", "hash"} ELSE {"hash"} :
         pc' = [pc EXCEPT ![i] = to]
    /\ UNCHANGED <<winners, found, nonce>>

Hash(i) ==
    /\ pc[i] = "hash"
    /\ pc' = [pc EXCEPT ![i] = IF NonceOf(i) \in winners THEN "claim" ELSE "hashed"]
    /\ UNCHANGED <<winners, found, nonce>>

(* Wrong forms: every winner stores; every winner minimises.                *)
ClaimAlways(i) ==
    /\ pc[i] = "claim"
    /\ found' = 1 /\ pc' = [pc EXCEPT ![i] = "store"]
    /\ UNCHANGED <<winners, nonce>>
ClaimNever(i) ==
    /\ pc[i] = "claim"
    /\ found' = 1 /\ pc' = [pc EXCEPT ![i] = "min"]
    /\ UNCHANGED <<winners, nonce>>

(* atomicCAS(&found, 0, 1)                                                  *)
Claim(i) ==
    /\ pc[i] = "claim"
    /\ found' = 1
    /\ pc' = [pc EXCEPT ![i] = IF found = 0 THEN "store" ELSE "min"]
    /\ UNCHANGED <<winners, nonce>>

(* The first winner's plain store, ...                                      *)
Store(i) ==
    /\ pc[i] = "store"
    /\ nonce' = NonceOf(i)
    /\ pc' = [pc EXCEPT ![i] = "hashed"]
    /\ UNCHANGED <<winners, found>>

(* ... which does not wait for the atomicMin() of the others, nor they for it. *)
TakeMin(i) ==
    /\ pc[i] = "min"
    /\ nonce' = IF NonceOf(i) < nonce THEN NonceOf(i) ELSE nonce
    /\ pc' = [pc EXCEPT ![i] = "hashed"]
    /\ UNCHANGED <<winners, found>>

Ended == \A i \in Indices : pc[i] \in {"hashed", "gaveUp"}

(* cudaDeviceSynchronize() returns when every thread has ended.             *)
Synchronized == Ended /\ UNCHANGED vars

Next ==
    \/ \E i \in Indices : Begin(i) \/ Hash(i) \/ Claim(i) \/ Store(i) \/ TakeMin(i)
    \/ Synchronized

Spec == Init /\ [][Next]_vars

-----------------------------------------------------------------------------
(* Every variable has its type.                                             *)
TypeOK ==
    /\ winners \in SUBSET Nonces
    /\ pc \in [Indices -> {"begin", "hash", "claim", "store", "min", "hashed", "gaveUp"}]
    /\ found \in {0, 1} /\ nonce \in Nonces

Launched == {NonceOf(i) : i \in Indices}

(* What the launch reports is a winning nonce of its range, however the     *)
(* first winner's store and the others' atomicMin() interleave.             *)
ReportsWinner == Ended /\ found = 1 => nonce \in winners \cap Launched

(* The launch reports a share exactly when its range holds one, although    *)
(* threads give up early.                                                   *)
FindsIfAny == Ended => (found = 1 <=> winners \cap Launched # {})

(* What makes them so: nobody stores or minimises before the claim, exactly *)
(* one thread is the claimant until it has stored, and from then on the     *)
(* reported nonce is a winner's.                                            *)
ClaimInv ==
    /\ \A i \in Indices : pc[i] \in {"claim", "store", "min"} => NonceOf(i) \in winners
    /\ \A i \in Indices : pc[i] \in {"store", "min", "gaveUp"} => found = 1
    /\ \A i, j \in Indices : pc[i] = "store" /\ pc[j] = "store" => i = j
    /\ found = 1 => \/ nonce \in winners \cap Launched
                    \/ \E i \in Indices : pc[i] = "store"
    /\ found = 0 => \A i \in Indices : pc[i] = "hashed" => NonceOf(i) \notin winners
=============================================================================
