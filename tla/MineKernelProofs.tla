-------------------------- MODULE MineKernelProofs --------------------------
(***************************************************************************)
(* The launch of MineKernel reports a winner of its range, and finds one    *)
(* whenever there is one, for every size of the grid and every start nonce. *)
(***************************************************************************)
EXTENDS MineKernel, TLAPS

(* Adding an index to the start nonce stays in the nonce space.             *)
LEMMA NonceInSpace == \A i \in Indices : NonceOf(i) \in Nonces
  BY LaunchAssumption, SMT DEF Indices, NonceOf, Nonces

(* Every step keeps the types.                                              *)
LEMMA TypeStep == TypeOK /\ [Next]_vars => TypeOK'
<1> SUFFICES ASSUME TypeOK, [Next]_vars PROVE TypeOK'
  OBVIOUS
<1> USE DEF TypeOK
<1>1. ASSUME NEW i \in Indices, Begin(i) \/ Hash(i) PROVE TypeOK'
  BY <1>1 DEF Begin, Hash
<1>2. ASSUME NEW i \in Indices, Claim(i) PROVE TypeOK'
  BY <1>2 DEF Claim
<1>3. ASSUME NEW i \in Indices, Store(i) \/ TakeMin(i) PROVE TypeOK'
  BY <1>3, NonceInSpace DEF Store, TakeMin
<1>4. CASE UNCHANGED vars
  BY <1>4 DEF vars
<1> QED
  BY <1>1, <1>2, <1>3, <1>4 DEF Next, Synchronized

(* The variables keep their types, the reported nonce included.             *)
THEOREM TypeCorrect == Spec => []TypeOK
<1>1. Init => TypeOK
  BY LaunchAssumption DEF Init, TypeOK, Nonces
<1> QED
  BY <1>1, TypeStep, PTL DEF Spec

(* The claim protocol of the threads is an inductive invariant.             *)
LEMMA ClaimStep == TypeOK /\ ClaimInv /\ [Next]_vars => ClaimInv'
<1> SUFFICES ASSUME TypeOK, ClaimInv, [Next]_vars PROVE ClaimInv'
  OBVIOUS
<1> USE DEF TypeOK, ClaimInv
<1>1. ASSUME NEW i \in Indices, Begin(i) PROVE ClaimInv'
  BY <1>1 DEF Begin, Launched
<1>2. ASSUME NEW i \in Indices, Hash(i) PROVE ClaimInv'
  BY <1>2 DEF Hash, Launched
<1>3. ASSUME NEW i \in Indices, Claim(i) PROVE ClaimInv'
  BY <1>3 DEF Claim, Launched
<1>4. ASSUME NEW i \in Indices, Store(i) PROVE ClaimInv'
  BY <1>4 DEF Store, Launched
<1>5. ASSUME NEW i \in Indices, TakeMin(i) PROVE ClaimInv'
  BY <1>5 DEF TakeMin, Launched
<1>6. CASE UNCHANGED vars
  BY <1>6 DEF vars, Launched
<1> QED
  BY <1>1, <1>2, <1>3, <1>4, <1>5, <1>6 DEF Next, Synchronized

(* Nobody stores before the claim, one thread at most stores, and from then *)
(* on the reported nonce is a winner's.                                     *)
THEOREM ClaimCorrect == Spec => []ClaimInv
<1>1. Init => ClaimInv
  BY DEF Init, ClaimInv
<1>2. TypeOK /\ ClaimInv /\ [Next]_vars => ClaimInv'
  BY ClaimStep
<1> QED
  BY <1>1, <1>2, TypeCorrect, PTL DEF Spec

(* What a finished launch reports is a winning nonce of its range.          *)
THEOREM ReportCorrect == Spec => []ReportsWinner
<1>1. TypeOK /\ ClaimInv => ReportsWinner
  BY DEF TypeOK, ClaimInv, ReportsWinner, Ended
<1> QED
  BY <1>1, TypeCorrect, ClaimCorrect, PTL

(* A finished launch reports a share exactly when its range holds one.      *)
THEOREM SearchCorrect == Spec => []FindsIfAny
<1>1. TypeOK /\ ClaimInv => FindsIfAny
  <2> SUFFICES ASSUME TypeOK, ClaimInv, Ended
               PROVE  found = 1 <=> winners \cap Launched # {}
    BY DEF FindsIfAny
  <2>1. CASE found = 1
    BY <2>1 DEF ClaimInv, Ended
  <2>2. CASE found = 0
    <3>1. \A i \in Indices : pc[i] = "hashed"
      BY <2>2 DEF ClaimInv, Ended
    <3> QED
      BY <2>2, <3>1 DEF ClaimInv, Launched
  <2> QED
    BY <2>1, <2>2 DEF TypeOK
<1> QED
  BY <1>1, TypeCorrect, ClaimCorrect, PTL

-----------------------------------------------------------------------------
(* The nonces whose threads did not give up, once the launch has ended.     *)
Hashed == {NonceOf(i) : i \in {j \in Indices : pc[j] = "hashed"}}

(* What one launch is to CudaMiningBackend::mine(), which NonceScan makes a *)
(* single step of: without a winner in it all of it is hashed; with one,    *)
(* some of it is, and the reported nonce is a winner among that.            *)
LaunchOutcome ==
    IF Launched \cap winners = {}
      THEN found = 0 /\ Hashed = Launched
      ELSE found = 1 /\ Hashed \subseteq Launched /\ nonce \in winners \cap Hashed

(* The reported nonce was hashed by its own thread, unless the claimant has *)
(* yet to store.                                                            *)
HashedInv == found = 1 => nonce \in Hashed \/ \E i \in Indices : pc[i] = "store"

(* Every step keeps it.                                                     *)
LEMMA HashedStep == TypeOK /\ ClaimInv /\ HashedInv /\ [Next]_vars => HashedInv'
<1> SUFFICES ASSUME TypeOK, ClaimInv, HashedInv, [Next]_vars PROVE HashedInv'
  OBVIOUS
<1> USE DEF TypeOK, HashedInv
<1>1. ASSUME NEW i \in Indices, Begin(i) \/ Hash(i) PROVE HashedInv'
  BY <1>1 DEF Begin, Hash, Hashed
<1>2. ASSUME NEW i \in Indices, Claim(i) PROVE HashedInv'
  BY <1>2 DEF Claim, Hashed
<1>3. ASSUME NEW i \in Indices, Store(i) PROVE HashedInv'
  BY <1>3 DEF Store, Hashed
<1>4. ASSUME NEW i \in Indices, TakeMin(i) PROVE HashedInv'
  BY <1>4 DEF TakeMin, Hashed
<1>5. CASE UNCHANGED vars
  BY <1>5 DEF vars, Hashed
<1> QED
  BY <1>1, <1>2, <1>3, <1>4, <1>5 DEF Next, Synchronized

(* A launch that has ended did one of the two things that the scan's step   *)
(* GpuLaunches of NonceScan may do, for every grid, however its threads     *)
(* raced for the result.                                                    *)
THEOREM LaunchCorrect == Spec => [](Ended => LaunchOutcome)
<1>1. Init => HashedInv
  BY DEF Init, HashedInv
<1>2. TypeOK /\ ClaimInv /\ HashedInv => (Ended => LaunchOutcome)
  <2> SUFFICES ASSUME TypeOK, ClaimInv, HashedInv, Ended PROVE LaunchOutcome
    OBVIOUS
  <2>1. Hashed \subseteq Launched
    BY DEF Hashed, Launched
  <2>2. CASE found = 1
    <3>1. nonce \in winners \cap Launched /\ nonce \in Hashed
      BY <2>2 DEF ClaimInv, HashedInv, Ended
    <3> QED
      BY <2>1, <2>2, <3>1 DEF LaunchOutcome
  <2>3. CASE found = 0
    <3>1. \A i \in Indices : pc[i] = "hashed" /\ NonceOf(i) \notin winners
      BY <2>3 DEF ClaimInv, Ended
    <3>2. Hashed = Launched /\ Launched \cap winners = {}
      BY <3>1 DEF Hashed, Launched
    <3> QED
      BY <2>3, <3>2 DEF LaunchOutcome
  <2> QED
    BY <2>2, <2>3 DEF TypeOK
<1> QED
  BY <1>1, <1>2, HashedStep, TypeCorrect, ClaimCorrect, PTL DEF Spec
=============================================================================
