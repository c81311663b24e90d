-------------------------- MODULE NonceScanProofs --------------------------
(***************************************************************************)
(* Theorems about NonceScan, for every nonce space, chunk and launch size,  *)
(* for every first nonce and every set of winners.                          *)
(***************************************************************************)
EXTENDS NonceScan, FiniteSetTheorems, TLAPS

(* The nonces in the order of the scan: it begins at StartNonce and wraps.  *)
Ring(i) == (StartNonce + i) % NonceSpace

(* Hashes of the call of mine() that is under way.                          *)
Ahead == IF pc \in {"mine", "found"} THEN performed ELSE 0

(* A remainder by the nonce space, of what is at most twice as large.       *)
LEMMA ModSpace ==
    ASSUME NEW a \in 0 .. 2 * NonceSpace - 1
    PROVE  a % NonceSpace = IF a < NonceSpace THEN a ELSE a - NonceSpace
<1>1. CASE a < NonceSpace
  BY <1>1, ScanAssumption
<1>2. CASE a \in NonceSpace .. 2 * NonceSpace - 1
  BY <1>2, ScanAssumption
<1>. QED BY <1>1, <1>2, ScanAssumption

(* The ring meets every nonce, and none twice.                              *)
LEMMA RingOnce ==
    /\ \A i \in 0 .. NonceSpace : Ring(i) \in Nonces
    /\ \A i, j \in 0 .. NonceSpace - 1 : Ring(i) = Ring(j) => i = j
    /\ \A n \in Nonces : \E i \in 0 .. NonceSpace - 1 : Ring(i) = n
<1>1. \A i \in 0 .. NonceSpace :
        Ring(i) = IF StartNonce + i < NonceSpace THEN StartNonce + i
                                                 ELSE StartNonce + i - NonceSpace
  BY ModSpace, ScanAssumption DEF Ring
<1>2. \A i \in 0 .. NonceSpace : Ring(i) \in Nonces
  BY <1>1, ScanAssumption DEF Nonces
<1>3. \A i, j \in 0 .. NonceSpace - 1 : Ring(i) = Ring(j) => i = j
  BY <1>1, ScanAssumption
<1>4. ASSUME NEW n \in Nonces PROVE \E i \in 0 .. NonceSpace - 1 : Ring(i) = n
  <2>1. CASE n >= StartNonce
    <3>1. n - StartNonce \in 0 .. NonceSpace - 1 /\ Ring(n - StartNonce) = n
      BY <1>1, <2>1, ScanAssumption DEF Nonces
    <3>. QED BY <3>1
  <2>2. CASE n < StartNonce
    <3>1. /\ n - StartNonce + NonceSpace \in 0 .. NonceSpace - 1
          /\ Ring(n - StartNonce + NonceSpace) = n
      BY <1>1, <2>2, ScanAssumption DEF Nonces
    <3>. QED BY <3>1
  <2>. QED BY <2>1, <2>2, ScanAssumption DEF Nonces
<1>. QED BY <1>2, <1>3, <1>4

(* From a place on the ring, mine() and the loop go on along it.            *)
LEMMA RingOn ==
    ASSUME NEW p \in 0 .. NonceSpace, NEW o \in 0 .. NonceSpace, p + o <= NonceSpace
    PROVE  /\ (Ring(p) + o) % NonceSpace = Ring(p + o)
           /\ p + o < NonceSpace => (Ring(p + o) + 1) % NonceSpace = Ring(p + o + 1)
<1>1. \A i \in 0 .. NonceSpace :
        Ring(i) = IF StartNonce + i < NonceSpace THEN StartNonce + i
                                                 ELSE StartNonce + i - NonceSpace
  BY ModSpace, ScanAssumption DEF Ring
<1>3. Ring(p) + o \in 0 .. 2 * NonceSpace - 1
  BY <1>1, ScanAssumption
<1>4. (Ring(p) + o) % NonceSpace = Ring(p + o)
  BY <1>1, <1>3, ModSpace, ScanAssumption
<1>5. ASSUME p + o < NonceSpace PROVE (Ring(p + o) + 1) % NonceSpace = Ring(p + o + 1)
  <2>1. Ring(p + o) + 1 \in 0 .. 2 * NonceSpace - 1 /\ p + o + 1 \in 0 .. NonceSpace
    BY <1>1, <1>5, ScanAssumption
  <2>. QED BY <1>1, <1>5, <2>1, ModSpace, ScanAssumption
<1>. QED BY <1>4, <1>5

(* The smaller of two numbers.                                              *)
LEMMA MinOfTwo ==
    ASSUME NEW a \in Nat, NEW b \in Nat
    PROVE  Min({a, b}) = IF a <= b THEN a ELSE b
<1>1. ASSUME NEW x \in {a, b}, \A y \in {a, b} : x <= y,
             NEW z \in {a, b}, \A y \in {a, b} : z <= y
      PROVE  x = z
  BY <1>1
<1>2. \E x \in {a, b} : \A y \in {a, b} : x <= y
  OBVIOUS
<1>. QED BY <1>1, <1>2 DEF Min

(* What a call of mine() has done: its hashes lie within the chunk, and the  *)
(* chunk within what remains.                                               *)
MineInv ==
    pc \in {"mine", "found"} =>
        /\ chunk \in 1 .. remaining
        /\ pc = "mine" => performed = offset
        /\ pc = "found" => offset < performed /\ (~onGpu => performed = offset + 1)

(* The shares found are finitely many.                                      *)
LEMMA FoundFinite == IsFiniteSet(Found) /\ Cardinality(Found) \in Nat
<1>1. IsFiniteSet(Nonces)
  BY FS_Interval, ScanAssumption DEF Nonces
<1>2. IsFiniteSet(Found)
  BY <1>1, FS_Subset DEF Found
<1>. QED BY <1>2, FS_CardinalityType

(* What is counted fits into what was taken off the range, and is what was  *)
(* hashed: exactly, on the CPU.                                             *)
CountInv ==
    /\ counted + remaining <= NonceSpace
    /\ ~onGpu => tried = counted + Ahead
    /\ onGpu => tried <= counted + Ahead

(* The scan is at the place p of the ring, and submitted nothing beyond it. *)
Walk(p) ==
    /\ nonce = Ring(p) /\ p + remaining <= NonceSpace
    /\ \A i \in p .. NonceSpace - 1 : submitted[Ring(i)] = 0

(* On the CPU nothing beyond it and the hashes under way was hashed; if the *)
(* scan was not stopped, everything up to there was, and what is missing at *)
(* the end is one nonce for each find.                                      *)
CpuWalk(p) ==
    /\ \A i \in p + Ahead .. NonceSpace - 1 : hashed[Ring(i)] = 0
    /\ ~stopFlag => /\ \A i \in 0 .. p + Ahead - 1 : hashed[Ring(i)] > 0
                    /\ p + remaining + Cardinality(Found) >= NonceSpace

(* The places before q whose nonces were not hashed.                        *)
Skipped(q) == {i \in 0 .. q - 1 : hashed[Ring(i)] = 0}

(* On the GPU, if the scan was not stopped, what was left out up to here    *)
(* and what will be at the end make no more than a launch for each find.    *)
(* The rest of the launch that has just found a share is already taken off. *)
GpuWalk(p) ==
    ~stopFlag =>
        /\ pc # "found" =>
             Cardinality(Skipped(p + Ahead)) + NonceSpace
               <= LaunchSize * Cardinality(Found) + p + remaining
        /\ pc = "found" =>
             Cardinality(Skipped(p + offset + 1)) + performed - offset + NonceSpace
               <= LaunchSize * Cardinality(Found) + LaunchSize + p + remaining

(* The inductive invariant.                                                 *)
ScanInv ==
    /\ MineInv /\ CountInv /\ SubmittedOnce
    /\ \E p \in 0 .. NonceSpace : Walk(p) /\ (IF onGpu THEN GpuWalk(p) ELSE CpuWalk(p))
    /\ ~onGpu => /\ \A n \in Nonces : hashed[n] <= 1
                 /\ \A n \in winners : hashed[n] > 0 =>
                      n \in Found \/ (pc = "found" /\ n = NonceAt(offset))
    /\ pc = "done" => remaining = 0 \/ stopFlag \/ newWork

(* The initial states.                                                      *)
LEMMA ScanInit == Init => TypeOK /\ ScanInv
<1>. SUFFICES ASSUME Init PROVE TypeOK /\ ScanInv
  OBVIOUS
<1>. USE ScanAssumption DEF Init
<1>1. TypeOK
  <2>1. submitted \in [Nonces -> Nat] /\ hashed \in [Nonces -> Nat]
    OBVIOUS
  <2>2. nonce \in Nonces /\ remaining \in 0 .. NonceSpace /\ counted \in 0 .. NonceSpace
    BY DEF Nonces
  <2>3. chunk \in 0 .. ChunkSize /\ offset \in 0 .. chunk /\ performed \in 0 .. chunk
    OBVIOUS
  <2>. QED BY <2>1, <2>2, <2>3 DEF TypeOK
<1>2. Ring(0) = StartNonce
  BY DEF Ring
<1>3. Ahead = 0 /\ Found = {}
  BY DEF Ahead, Found
<1>4. Cardinality(Found) = 0
  BY <1>3, FS_EmptySet
<1>5. Walk(0)
  BY <1>2, RingOnce DEF Walk
<1>6. CpuWalk(0)
  BY <1>3, <1>4, RingOnce DEF CpuWalk
<1>7. GpuWalk(0)
  <2>1. Skipped(0 + Ahead) = {}
    BY <1>3 DEF Skipped
  <2>2. Cardinality(Skipped(0 + Ahead)) = 0
    BY <2>1, FS_EmptySet
  <2>. QED BY <1>4, <2>2 DEF GpuWalk
<1>8. MineInv /\ CountInv /\ SubmittedOnce
  BY <1>3 DEF MineInv, CountInv, SubmittedOnce, Nonces
<1>9. \E p \in 0 .. NonceSpace : Walk(p) /\ (IF onGpu THEN GpuWalk(p) ELSE CpuWalk(p))
  BY <1>5, <1>6, <1>7
<1>. QED BY <1>1, <1>8, <1>9 DEF ScanInv, Nonces

(* What the other threads do, and the end of the loop.                      *)
LEMMA SignalKeeps ==
    ASSUME TypeOK, ScanInv, RaiseStop \/ JobChanges \/ RangeEnds \/ UNCHANGED vars
    PROVE  TypeOK' /\ ScanInv'
<1>. USE DEF given, scanVars, mineVars, outVars, hashVars, vars
<1>1. /\ UNCHANGED <<given, scanVars, mineVars, outVars, hashVars>>
      /\ stopFlag' \in BOOLEAN /\ newWork' \in BOOLEAN
      /\ pc' = pc \/ (pc = "range" /\ pc' = "done")
  BY DEF RaiseStop, JobChanges, RangeEnds, TypeOK
<1>2. stopFlag => stopFlag'
  BY DEF RaiseStop, JobChanges, RangeEnds
<1>3. newWork => newWork'
  BY DEF RaiseStop, JobChanges, RangeEnds
<1>4. pc' = "done" => remaining = 0 \/ stopFlag' \/ newWork'
  BY <1>2, <1>3 DEF RaiseStop, JobChanges, RangeEnds, ScanInv
<1>5. TypeOK'
  BY <1>1 DEF TypeOK
<1>6. Ahead' = Ahead /\ Found' = Found
  BY <1>1 DEF Ahead, Found
<1>7. MineInv' /\ CountInv' /\ SubmittedOnce'
  BY <1>1, <1>6 DEF ScanInv, MineInv, CountInv, SubmittedOnce
<1>8. \A p \in 0 .. NonceSpace : Walk(p) => Walk(p)'
  BY <1>1 DEF Walk
<1>9. \A p \in 0 .. NonceSpace : CpuWalk(p) => CpuWalk(p)'
  BY <1>1, <1>2, <1>6 DEF CpuWalk
<1>10. \A p \in 0 .. NonceSpace : GpuWalk(p) => GpuWalk(p)'
  BY <1>1, <1>2, <1>6 DEF GpuWalk, Skipped
<1>11. ~onGpu => \A n \in winners : hashed'[n] > 0 =>
          n \in Found' \/ (pc' = "found" /\ n = NonceAt(offset)')
  BY <1>1, <1>6 DEF ScanInv, NonceAt
<1>. QED BY <1>1, <1>4, <1>5, <1>7, <1>8, <1>9, <1>10, <1>11 DEF ScanInv

(* A chunk begins.                                                          *)
LEMMA MineBeginsKeeps ==
    ASSUME TypeOK, ScanInv, MineBegins
    PROVE  TypeOK' /\ ScanInv'
<1>. USE ScanAssumption DEF given, scanVars, outVars, hashVars
<1>1. chunk' \in 1 .. remaining /\ chunk' \in 0 .. ChunkSize
  BY MinOfTwo DEF MineBegins, TypeOK
<1>2. TypeOK'
  BY <1>1 DEF MineBegins, TypeOK
<1>3. Ahead' = Ahead /\ Found' = Found
  BY DEF MineBegins, Ahead, Found
<1>4. MineInv' /\ CountInv' /\ SubmittedOnce'
  BY <1>1, <1>3 DEF MineBegins, ScanInv, MineInv, CountInv, SubmittedOnce
<1>5. \A p \in 0 .. NonceSpace : Walk(p) => Walk(p)'
  BY DEF MineBegins, Walk
<1>6. \A p \in 0 .. NonceSpace : CpuWalk(p) => CpuWalk(p)'
  BY <1>3 DEF MineBegins, CpuWalk
<1>7. \A p \in 0 .. NonceSpace : GpuWalk(p) => GpuWalk(p)'
  BY <1>3 DEF MineBegins, GpuWalk, Skipped
<1>. QED BY <1>2, <1>3, <1>4, <1>5, <1>6, <1>7 DEF MineBegins, ScanInv

(* Where mine() is, its nonce lies on the ring, not yet submitted.          *)
LEMMA NonceOnRing ==
    ASSUME TypeOK, ScanInv, pc \in {"mine", "found"}, NEW o \in 0 .. chunk - 1,
           NEW p \in 0 .. NonceSpace, Walk(p)
    PROVE  /\ p + o \in 0 .. NonceSpace - 1
           /\ NonceAt(o) = Ring(p + o) /\ NonceAt(o) \in Nonces
           /\ submitted[NonceAt(o)] = 0
<1>1. p + o \in 0 .. NonceSpace - 1 /\ p + o >= p
  BY ScanAssumption DEF ScanInv, MineInv, Walk, TypeOK
<1>2. NonceAt(o) = Ring(p + o)
  BY <1>1, RingOn, ScanAssumption DEF Walk, NonceAt
<1>3. Ring(p + o) \in Nonces
  BY <1>1, RingOnce, ScanAssumption
<1>4. submitted[Ring(p + o)] = 0
  BY <1>1 DEF Walk
<1>. QED BY <1>1, <1>2, <1>3, <1>4

(* One nonce on the CPU.                                                    *)
LEMMA CpuHashesKeeps ==
    ASSUME TypeOK, ScanInv, CpuHashes
    PROVE  TypeOK' /\ ScanInv'
<1>. USE ScanAssumption DEF given, scanVars, outVars, hashVars
<1>1. PICK p \in 0 .. NonceSpace : Walk(p) /\ CpuWalk(p)
  BY DEF ScanInv, CpuHashes
<1>2. pc = "mine" /\ ~onGpu /\ offset \in 0 .. chunk - 1 /\ performed = offset
  BY DEF CpuHashes, ScanInv, MineInv, TypeOK
<1>. DEFINE n == NonceAt(offset)
<1>3. p + offset \in 0 .. NonceSpace - 1 /\ n = Ring(p + offset) /\ n \in Nonces
  BY <1>1, <1>2, NonceOnRing
<1>4. /\ hashed' = [hashed EXCEPT ![n] = @ + 1] /\ tried' = tried + 1
      /\ performed' = offset + 1
      /\ UNCHANGED <<onGpu, winners, nonce, remaining, chunk, stopFlag, newWork, counted,
                     submitted>>
      /\ IF n \in winners THEN pc' = "found" /\ offset' = offset
                          ELSE offset' = offset + 1 /\ pc' = pc
  BY <1>2 DEF CpuHashes
<1>5. hashed[n] = 0 /\ Ahead = offset /\ Ahead' = offset + 1 /\ Found' = Found
  <2>1. Ahead = offset /\ Ahead' = offset + 1 /\ Found' = Found
    BY <1>2, <1>4 DEF Ahead, Found
  <2>. QED BY <1>1, <1>3, <2>1 DEF CpuWalk
<1>6. TypeOK'
  <2>1. offset' \in 0 .. chunk' /\ performed' \in 0 .. chunk' /\ pc' \in {"mine", "found"}
    BY <1>2, <1>4 DEF TypeOK
  <2>2. hashed' \in [Nonces -> Nat] /\ tried' \in Nat
    BY <1>3, <1>4 DEF TypeOK
  <2>. QED BY <1>4, <2>1, <2>2 DEF TypeOK
<1>7. MineInv' /\ SubmittedOnce'
  BY <1>2, <1>4 DEF ScanInv, MineInv, SubmittedOnce, TypeOK
<1>8. CountInv'
  BY <1>2, <1>4, <1>5 DEF ScanInv, CountInv, TypeOK
<1>9. Walk(p)'
  BY <1>1, <1>4 DEF Walk
<1>10. CpuWalk(p)'
  <2>1. \A i \in p + offset + 1 .. NonceSpace - 1 : hashed'[Ring(i)] = 0
    <3>. TAKE i \in p + offset + 1 .. NonceSpace - 1
    <3>1. Ring(i) # n /\ Ring(i) \in Nonces
      BY <1>3, RingOnce
    <3>2. hashed[Ring(i)] = 0
      BY <1>1, <1>5 DEF CpuWalk, TypeOK
    <3>. QED BY <1>4, <3>1, <3>2 DEF TypeOK
  <2>2. ASSUME ~stopFlag PROVE \A i \in 0 .. p + offset : hashed'[Ring(i)] > 0
    <3>. TAKE i \in 0 .. p + offset
    <3>1. Ring(i) \in Nonces
      BY <1>3, RingOnce
    <3>2. i = p + offset \/ hashed[Ring(i)] > 0
      BY <1>1, <1>5, <2>2 DEF CpuWalk, TypeOK
    <3>. QED BY <1>3, <1>4, <3>1, <3>2 DEF TypeOK
  <2>. QED BY <1>1, <1>4, <1>5, <2>1, <2>2 DEF CpuWalk, TypeOK
<1>11. \A m \in Nonces : hashed'[m] <= 1
  BY <1>2, <1>3, <1>4, <1>5 DEF ScanInv, TypeOK
<1>12. ASSUME NEW m \in winners, hashed'[m] > 0
       PROVE  m \in Found' \/ (pc' = "found" /\ m = NonceAt(offset)')
  <2>1. CASE m = n
    BY <1>4, <2>1 DEF NonceAt
  <2>2. CASE m # n
    BY <1>2, <1>3, <1>4, <1>5, <1>12, <2>2 DEF ScanInv, TypeOK
  <2>. QED BY <2>1, <2>2
<1>. QED BY <1>2, <1>4, <1>6, <1>7, <1>8, <1>9, <1>10, <1>11, <1>12 DEF ScanInv

(* Of a launch, no more nonces are hashed than it has threads.              *)
LEMMA LaunchSizes ==
    ASSUME NEW size \in Nat, NEW from, NEW done \in SUBSET {NonceAt(from + i) : i \in 0 .. size - 1}
    PROVE  Cardinality(done) \in Nat /\ Cardinality(done) <= size
<1>. DEFINE launch == {NonceAt(from + i) : i \in 0 .. size - 1}
            f == [k \in 1 .. size |-> NonceAt(from + (k - 1))]
<1>1. f \in Surjection(1 .. size, launch)
  <2>1. \A k \in 1 .. size : k - 1 \in 0 .. size - 1
    OBVIOUS
  <2>2. f \in [1 .. size -> launch]
    BY <2>1
  <2>3. ASSUME NEW n \in launch PROVE \E k \in 1 .. size : f[k] = n
    <3>1. PICK i \in 0 .. size - 1 : n = NonceAt(from + i)
      BY <2>3
    <3>2. i + 1 \in 1 .. size /\ (i + 1) - 1 = i
      BY <3>1
    <3>3. f[i + 1] = n
      BY <3>1, <3>2
    <3>. QED BY <3>2, <3>3
  <2>. QED BY <2>2, <2>3 DEF Surjection
<1>2. IsFiniteSet(1 .. size) /\ Cardinality(1 .. size) = size
  BY FS_Interval
<1>3. IsFiniteSet(launch) /\ Cardinality(launch) <= size
  BY <1>1, <1>2, FS_Surjection
<1>4. IsFiniteSet(done) /\ Cardinality(done) <= Cardinality(launch)
  BY <1>3, FS_Subset
<1>5. Cardinality(done) \in Nat /\ Cardinality(launch) \in Nat
  BY <1>3, <1>4, FS_CardinalityType
<1>. QED BY <1>3, <1>4, <1>5

(* There are finitely many places left out, and going on by at most d of    *)
(* them leaves out at most d more.                                          *)
LEMMA FewPlaces ==
    ASSUME NEW S, NEW T, NEW a \in Nat, NEW d \in Nat, NEW b \in Nat,
           S \in SUBSET (0 .. b), T \subseteq S \cup (a .. a + d - 1)
    PROVE  /\ Cardinality(S) \in Nat /\ Cardinality(T) \in Nat
           /\ Cardinality(T) <= Cardinality(S) + d
<1>. DEFINE I == a .. a + d - 1
<1>1. IsFiniteSet(S) /\ Cardinality(S) \in Nat
  <2>1. IsFiniteSet(0 .. b)
    BY FS_Interval
  <2>. QED BY <2>1, FS_Subset, FS_CardinalityType
<1>2. IsFiniteSet(I) /\ Cardinality(I) = d
  <2>1. a \in Int /\ a + d - 1 \in Int
    OBVIOUS
  <2>2. IsFiniteSet(I) /\ Cardinality(I) = IF a > a + d - 1 THEN 0 ELSE (a + d - 1) - a + 1
    BY <2>1, FS_Interval
  <2>. HIDE DEF I
  <2>. QED BY <2>2
<1>. HIDE DEF I
<1>3. IsFiniteSet(S \cup I) /\ Cardinality(S \cup I) <= Cardinality(S) + d
  <2>1. /\ IsFiniteSet(S \cup I)
        /\ Cardinality(S \cup I) = Cardinality(S) + d - Cardinality(S \cap I)
    BY <1>1, <1>2, FS_Union
  <2>2. S \cap I \in SUBSET S
    OBVIOUS
  <2>3. Cardinality(S \cap I) \in Nat
    BY <1>1, <2>2, FS_Subset, FS_CardinalityType
  <2>. QED BY <1>1, <2>1, <2>3
<1>4. T \in SUBSET (S \cup I)
  BY DEF I
<1>5. IsFiniteSet(T) /\ Cardinality(T) <= Cardinality(S \cup I)
  BY <1>3, <1>4, FS_Subset
<1>6. Cardinality(T) \in Nat /\ Cardinality(S \cup I) \in Nat
  BY <1>3, <1>5, FS_CardinalityType
<1>. QED BY <1>1, <1>3, <1>5, <1>6

(* One launch on the GPU.                                                   *)
LEMMA GpuLaunchesKeeps ==
    ASSUME TypeOK, ScanInv, GpuLaunches
    PROVE  TypeOK' /\ ScanInv'
<1>. USE ScanAssumption DEF given, scanVars, outVars, hashVars
<1>1. pc = "mine" /\ onGpu /\ offset \in 0 .. chunk - 1 /\ performed = offset
  BY DEF GpuLaunches, ScanInv, MineInv, TypeOK
<1>. DEFINE size   == Min({chunk - offset, LaunchSize})
            launch == {NonceAt(offset + i) : i \in 0 .. size - 1}
<1>2. size \in 1 .. chunk - offset /\ size <= LaunchSize
  BY <1>1, MinOfTwo DEF TypeOK
<1>3. PICK done \in SUBSET launch :
         /\ Hash(done)
         /\ \/ pc' = "mine" /\ offset' = offset + size /\ done = launch
            \/ \E i \in 0 .. size - 1 :
                 pc' = "found" /\ offset' = offset + i /\ NonceAt(offset + i) \in done
  <2>1. CASE launch \cap winners = {}
    <3>1. Hash(launch) /\ offset' = offset + size /\ pc' = "mine"
      BY <1>1, <2>1 DEF GpuLaunches
    <3>. QED BY <3>1
  <2>2. CASE launch \cap winners # {}
    <3>1. /\ pc' = "found"
          /\ \E done \in SUBSET launch :
               /\ \E i \in 0 .. size - 1 :
                    offset' = offset + i /\ NonceAt(offset + i) \in done
               /\ Hash(done)
      BY <2>2 DEF GpuLaunches
    <3>. QED BY <3>1
  <2>. QED BY <2>1, <2>2
<1>4. /\ UNCHANGED <<onGpu, winners, nonce, remaining, chunk, stopFlag, newWork, counted,
                     submitted>>
      /\ performed' = offset + size
  BY <1>1 DEF GpuLaunches
<1>5. \/ pc' = "mine" /\ offset' = offset + size
      \/ pc' = "found" /\ offset' \in offset .. offset + size - 1
  <2>. HIDE DEF size, launch
  <2>. QED BY <1>1, <1>2, <1>3 DEF TypeOK
<1>6. Cardinality(done) \in Nat /\ Cardinality(done) <= size
  <2>1. size \in Nat
    BY <1>1, <1>2 DEF TypeOK
  <2>. HIDE DEF size
  <2>. QED BY <2>1, LaunchSizes
<1>7. tried' = tried + Cardinality(done)
  BY <1>3 DEF Hash
<1>8. TypeOK'
  <2>1. offset' \in 0 .. chunk' /\ performed' \in 0 .. chunk' /\ pc' \in {"mine", "found"}
    BY <1>1, <1>2, <1>4, <1>5 DEF TypeOK
  <2>2. hashed' \in [Nonces -> Nat] /\ tried' \in Nat
    <3>1. \A n \in Nonces : hashed[n] + (IF n \in done THEN 1 ELSE 0) \in Nat
      BY DEF TypeOK
    <3>. QED BY <1>3, <1>6, <3>1 DEF Hash, TypeOK
  <2>. QED BY <1>4, <2>1, <2>2 DEF TypeOK
<1>9. MineInv' /\ SubmittedOnce'
  BY <1>1, <1>2, <1>4, <1>5 DEF ScanInv, MineInv, SubmittedOnce, TypeOK
<1>10. CountInv'
  <2>1. Ahead = offset /\ Ahead' = offset + size
    BY <1>1, <1>4, <1>5 DEF Ahead
  <2>. QED BY <1>1, <1>2, <1>4, <1>6, <1>7, <2>1 DEF ScanInv, CountInv, TypeOK
<1>11. PICK p \in 0 .. NonceSpace : Walk(p) /\ GpuWalk(p)
  BY <1>1 DEF ScanInv
<1>12. Walk(p)'
  BY <1>4, <1>11 DEF Walk
<1>13. \A k \in 0 .. size - 1 :
          /\ p + offset + k \in 0 .. NonceSpace - 1
          /\ NonceAt(offset + k) = Ring(p + offset + k) /\ NonceAt(offset + k) \in Nonces
  <2>. TAKE k \in 0 .. size - 1
  <2>1. offset + k \in 0 .. chunk - 1
    BY <1>1, <1>2 DEF TypeOK
  <2>2. p + (offset + k) = p + offset + k
    BY <1>1, <2>1
  <2>. QED BY <1>1, <1>11, <2>1, <2>2, NonceOnRing
<1>14. \A n \in Nonces : hashed'[n] = 0 => hashed[n] = 0 /\ n \notin done
  BY <1>3 DEF Hash, TypeOK
<1>15. /\ p + offset \in 0 .. NonceSpace - 1 /\ p + offset + size \in 0 .. NonceSpace
       /\ Ahead = offset
  <2>1. p + offset + (size - 1) \in 0 .. NonceSpace - 1 /\ p + offset + 0 \in 0 .. NonceSpace - 1
    <3>1. 0 \in 0 .. size - 1 /\ size - 1 \in 0 .. size - 1
      BY <1>1, <1>2 DEF TypeOK
    <3>. QED BY <1>13, <3>1
  <2>. QED BY <1>1, <1>2, <2>1 DEF Ahead, TypeOK
<1>. HIDE DEF size, launch
<1>16. GpuWalk(p)'
  <2>. SUFFICES ASSUME ~stopFlag PROVE GpuWalk(p)'
    BY <1>4 DEF GpuWalk
  <2>. DEFINE before == Skipped(p + offset)
  <2>1. p \in Nat /\ offset \in Nat /\ p + offset \in Nat /\ size \in Nat
    BY <1>1, <1>2, <1>15 DEF TypeOK
  <2>2. Found' = Found
    BY <1>4 DEF Found
  <2>3. Cardinality(before) + NonceSpace <= LaunchSize * Cardinality(Found) + p + remaining
    BY <1>1, <1>11, <1>15 DEF GpuWalk
  <2>4. before \in SUBSET (0 .. NonceSpace)
    BY <1>15 DEF Skipped
  <2>5. \A i \in 0 .. p + offset + size - 1 :
          hashed'[Ring(i)] = 0 /\ i < p + offset => i \in before
    <3>. TAKE i \in 0 .. p + offset + size - 1
    <3>1. Ring(i) \in Nonces
      BY <1>2, <1>15, <2>1, RingOnce
    <3>2. ASSUME hashed'[Ring(i)] = 0, i < p + offset PROVE i \in 0 .. p + offset - 1
      BY <2>1, <3>2
    <3>. QED BY <1>14, <2>1, <3>1, <3>2 DEF Skipped
  <2>6. CASE pc' = "mine"
    <3>1. pc' = "mine" /\ offset' = offset + size /\ done = launch
      BY <1>3, <2>6
    <3>2. Ahead' = offset + size
      BY <1>4, <3>1 DEF Ahead
    <3>. DEFINE q     == p + offset + size
                after == {i \in 0 .. q - 1 : hashed'[Ring(i)] = 0}
    <3>3. ASSUME NEW i \in after PROVE i \in before
      <4>0. i \in 0 .. p + offset + size - 1 /\ hashed'[Ring(i)] = 0
        BY <2>1, <3>3
      <4>1. CASE i < p + offset
        BY <2>5, <4>0, <4>1
      <4>2. CASE ~(i < p + offset)
        <5>1. i - (p + offset) \in 0 .. size - 1 /\ p + offset + (i - (p + offset)) = i
          BY <1>2, <1>15, <2>1, <4>0, <4>2
        <5>2. Ring(i) \in launch /\ Ring(i) \in Nonces
          BY <1>13, <5>1 DEF launch
        <5>. QED BY <1>14, <3>1, <4>0, <5>2
      <4>. QED BY <4>1, <4>2
    <3>4. after \subseteq before \cup (0 .. 0 + 0 - 1)
      BY <3>3
    <3>. HIDE DEF after, before
    <3>5. /\ Cardinality(before) \in Nat /\ Cardinality(after) \in Nat
          /\ Cardinality(after) <= Cardinality(before) + 0
      BY <2>4, <3>4, FewPlaces
    <3>. DEFINE allowed == LaunchSize * Cardinality(Found) + p + remaining
    <3>6. allowed \in Nat
      <4>1. Cardinality(Found) \in Nat
        BY FoundFinite
      <4>. QED BY <4>1 DEF TypeOK
    <3>7. Cardinality(after) + NonceSpace <= allowed
      <4>. HIDE DEF allowed
      <4>. QED BY <2>3, <3>5, <3>6 DEF allowed
    <3>8. Skipped(p + Ahead)' = after
      <4>1. p + Ahead' = p + offset + size
        BY <1>1, <1>2, <3>2
      <4>2. (p + Ahead)' = q
        BY <4>1
      <4>. HIDE DEF q
      <4>. QED BY <4>2 DEF Skipped, after
    <3>. QED BY <1>4, <2>2, <3>1, <3>7, <3>8 DEF GpuWalk
  <2>7. CASE pc' = "found"
    <3>1. PICK k \in 0 .. size - 1 : offset' = offset + k /\ NonceAt(offset + k) \in done
      BY <1>3, <2>7
    <3>. DEFINE after == {i \in 0 .. p + offset + k : hashed'[Ring(i)] = 0}
    <3>2. ASSUME NEW i \in after PROVE i \in before \cup (p + offset .. p + offset + k - 1)
      <4>0. i \in 0 .. p + offset + k /\ hashed'[Ring(i)] = 0 /\ k \in 0 .. size - 1
        BY <3>2
      <4>1. CASE i < p + offset
        <5>1. i \in 0 .. p + offset + size - 1
          BY <2>1, <4>0, <4>1
        <5>. QED BY <2>5, <4>0, <4>1, <5>1
      <4>2. CASE i = p + offset + k
        BY <1>13, <1>14, <3>1, <3>2, <4>2
      <4>. QED BY <1>15, <4>1, <4>2
    <3>3. after \subseteq before \cup (p + offset .. p + offset + k - 1)
      BY <3>2
    <3>. HIDE DEF after, before
    <3>4. /\ Cardinality(before) \in Nat /\ Cardinality(after) \in Nat
          /\ Cardinality(after) <= Cardinality(before) + k
      <4>1. p + offset \in Nat /\ k \in Nat /\ NonceSpace \in Nat
        BY <2>1
      <4>. QED BY <2>4, <3>3, <4>1, FewPlaces
    <3>. DEFINE product == LaunchSize * Cardinality(Found)
    <3>5. product \in Nat
      <4>1. Cardinality(Found) \in Nat
        BY FoundFinite
      <4>. QED BY <4>1
    <3>6. Cardinality(after) + performed' - offset' + NonceSpace
            <= product + LaunchSize + p + remaining
      <4>1. performed' - offset' = size - k
        BY <1>1, <1>2, <1>4, <3>1
      <4>2. Cardinality(after) + (size - k) + NonceSpace
              <= product + LaunchSize + p + remaining
        <5>1. Cardinality(before) + NonceSpace <= product + p + remaining
          BY <2>3
        <5>. HIDE DEF product
        <5>. QED BY <1>2, <3>4, <3>5, <5>1 DEF TypeOK
      <4>. HIDE DEF product
      <4>. QED BY <1>1, <1>2, <1>4, <3>1, <3>4, <3>5, <4>1, <4>2 DEF TypeOK
    <3>7. Skipped(p + offset + 1)' = after
      <4>1. p + (offset + k) + 1 - 1 = p + offset + k
        BY <1>1
      <4>. QED BY <3>1, <4>1 DEF Skipped, after
    <3>. QED BY <1>4, <2>2, <2>7, <3>6, <3>7 DEF GpuWalk
  <2>. QED BY <1>5, <2>6, <2>7
<1>. QED BY <1>1, <1>4, <1>5, <1>8, <1>9, <1>10, <1>12, <1>16 DEF ScanInv

(* Subtraction on 64 bits that does not go below zero.                      *)
LEMMA NoBorrow ==
    ASSUME NEW a \in 0 .. NonceSpace, NEW b \in 0 .. a
    PROVE  (a - b) % CountSpace = a - b
BY ScanAssumption

(* The end of a chunk, or its interruption.                                 *)
LEMMA FoundNothingKeeps ==
    ASSUME TypeOK, ScanInv, FoundNothing
    PROVE  TypeOK' /\ ScanInv'
<1>. USE ScanAssumption DEF given, mineVars, hashVars
<1>1. /\ pc = "mine" /\ pc' = "range" /\ performed = offset /\ chunk \in 1 .. remaining
      /\ counted' = counted + offset
      /\ UNCHANGED <<onGpu, winners, chunk, offset, performed, stopFlag, newWork, submitted,
                     hashed, tried>>
      /\ offset = chunk \/ stopFlag
  BY DEF FoundNothing, ScanInv, MineInv
<1>2. remaining' = remaining - chunk
  BY <1>1, NoBorrow DEF FoundNothing, TypeOK
<1>3. PICK p \in 0 .. NonceSpace : Walk(p) /\ (IF onGpu THEN GpuWalk(p) ELSE CpuWalk(p))
  BY DEF ScanInv
<1>. DEFINE q == p + chunk
<1>4. q \in 0 .. NonceSpace /\ nonce' = Ring(q) /\ nonce' \in Nonces
  <2>1. q \in 0 .. NonceSpace /\ chunk \in 0 .. NonceSpace
    BY <1>1, <1>3 DEF Walk, TypeOK
  <2>2. nonce' = (Ring(p) + chunk) % NonceSpace
    BY <1>3 DEF FoundNothing, Walk
  <2>3. nonce' = Ring(q)
    BY <2>1, <2>2, RingOn
  <2>. QED BY <2>1, <2>3, RingOnce
<1>5. Ahead = offset /\ Ahead' = 0 /\ Found' = Found
  BY <1>1 DEF Ahead, Found
<1>6. CountInv'
  BY <1>1, <1>2, <1>5 DEF ScanInv, CountInv, TypeOK
<1>7. TypeOK'
  BY <1>1, <1>2, <1>4, <1>6 DEF TypeOK, CountInv
<1>8. MineInv' /\ SubmittedOnce'
  BY <1>1 DEF ScanInv, MineInv, SubmittedOnce
<1>9. Walk(q)'
  BY <1>1, <1>2, <1>3, <1>4 DEF Walk, TypeOK
<1>10. ASSUME ~onGpu PROVE CpuWalk(q)'
  <2>1. \A i \in q .. NonceSpace - 1 : hashed[Ring(i)] = 0
    BY <1>1, <1>3, <1>5, <1>10 DEF CpuWalk, TypeOK
  <2>2. ~stopFlag => /\ \A i \in 0 .. q - 1 : hashed[Ring(i)] > 0
                     /\ q + remaining' + Cardinality(Found) >= NonceSpace
    <3>1. p + chunk + (remaining - chunk) = p + remaining
      BY <1>1, <1>3 DEF TypeOK
    <3>. QED BY <1>1, <1>2, <1>3, <1>5, <1>10, <3>1 DEF CpuWalk
  <2>. QED BY <1>1, <1>5, <2>1, <2>2 DEF CpuWalk, TypeOK
<1>11. ~onGpu => \A n \in winners : hashed[n] > 0 => n \in Found
  BY <1>1 DEF ScanInv
<1>12. ASSUME onGpu PROVE GpuWalk(q)'
  <2>. SUFFICES ASSUME ~stopFlag PROVE GpuWalk(q)'
    BY <1>1 DEF GpuWalk
  <2>1. p + Ahead = q /\ q + Ahead' = q /\ q + remaining' = p + remaining
    BY <1>1, <1>2, <1>3, <1>5 DEF TypeOK
  <2>2. Cardinality(Skipped(q)) + NonceSpace <= LaunchSize * Cardinality(Found) + p + remaining
    BY <1>1, <1>3, <1>12, <2>1 DEF GpuWalk
  <2>3. Skipped(q + Ahead)' = Skipped(q)
    BY <1>1, <2>1 DEF Skipped
  <2>. DEFINE product == LaunchSize * Cardinality(Found)
  <2>4. Cardinality(Skipped(q)) + NonceSpace <= product + q + remaining'
    <3>1. product \in Nat
      BY FoundFinite
    <3>. HIDE DEF product, q
    <3>. QED BY <1>1, <1>2, <1>4, <2>1, <2>2, <3>1 DEF TypeOK, product
  <2>. QED BY <1>1, <1>5, <2>3, <2>4 DEF GpuWalk
<1>. QED BY <1>1, <1>4, <1>5, <1>6, <1>7, <1>8, <1>9, <1>10, <1>11, <1>12 DEF ScanInv

(* A share is found and handed on, and the scan goes on behind it.          *)
LEMMA FoundShareKeeps ==
    ASSUME TypeOK, ScanInv, FoundShare
    PROVE  TypeOK' /\ ScanInv'
<1>. USE ScanAssumption DEF given, mineVars, hashVars
<1>. DEFINE m == NonceAt(offset)
<1>1. /\ pc = "found" /\ pc' = "range" /\ chunk \in 1 .. remaining
      /\ offset \in 0 .. chunk - 1 /\ performed \in offset + 1 .. chunk
      /\ counted' = counted + performed
      /\ submitted' = [submitted EXCEPT ![m] = @ + 1]
      /\ UNCHANGED <<onGpu, winners, chunk, offset, performed, stopFlag, newWork,
                     hashed, tried>>
  BY DEF FoundShare, ScanInv, MineInv, TypeOK
<1>2. remaining' = IF remaining > performed + 1 THEN remaining - (performed + 1) ELSE 0
  <2>1. CASE remaining > performed + 1
    <3>1. performed + 1 \in 0 .. remaining /\ remaining \in 0 .. NonceSpace
      BY <1>1, <2>1 DEF TypeOK
    <3>. QED BY <2>1, <3>1, NoBorrow DEF FoundShare
  <2>2. CASE ~(remaining > performed + 1)
    BY <2>2 DEF FoundShare
  <2>. QED BY <2>1, <2>2
<1>3. PICK p \in 0 .. NonceSpace : Walk(p) /\ (IF onGpu THEN GpuWalk(p) ELSE CpuWalk(p))
  BY DEF ScanInv
<1>. DEFINE q == p + offset + 1
<1>4. /\ p + offset \in 0 .. NonceSpace - 1 /\ m = Ring(p + offset)
      /\ m \in Nonces /\ submitted[m] = 0
  BY <1>1, <1>3, NonceOnRing
<1>5. q \in 0 .. NonceSpace /\ nonce' = Ring(q) /\ nonce' \in Nonces
  <2>1. q \in 0 .. NonceSpace /\ offset \in 0 .. NonceSpace /\ p + offset < NonceSpace
    BY <1>1, <1>3, <1>4 DEF TypeOK
  <2>2. nonce' = (Ring(p + offset) + 1) % NonceSpace
    BY <1>4 DEF FoundShare
  <2>3. nonce' = Ring(q)
    BY <2>1, <2>2, RingOn
  <2>. QED BY <2>1, <2>3, RingOnce
<1>6. Ahead = performed /\ Ahead' = 0
  BY <1>1 DEF Ahead
<1>7. Found' = Found \cup {m} /\ m \notin Found
  BY <1>1, <1>4 DEF Found, TypeOK
<1>8. /\ Cardinality(Found) \in Nat /\ IsFiniteSet(Found)
      /\ Cardinality(Found') = Cardinality(Found) + 1
  <2>1. IsFiniteSet(Nonces)
    BY FS_Interval DEF Nonces
  <2>2. IsFiniteSet(Found)
    BY <2>1, FS_Subset DEF Found
  <2>. QED BY <1>7, <2>2, FS_CardinalityType, FS_AddElement
<1>9. CountInv'
  BY <1>1, <1>2, <1>6 DEF ScanInv, CountInv, TypeOK
<1>10. TypeOK'
  <2>1. submitted' \in [Nonces -> Nat]
    BY <1>1, <1>4 DEF TypeOK
  <2>2. remaining' \in 0 .. NonceSpace /\ counted' \in 0 .. NonceSpace
    BY <1>1, <1>2, <1>9 DEF TypeOK, CountInv
  <2>. QED BY <1>1, <1>5, <2>1, <2>2 DEF TypeOK
<1>11. MineInv'
  BY <1>1 DEF MineInv
<1>12. SubmittedOnce'
  BY <1>1, <1>4 DEF ScanInv, SubmittedOnce, TypeOK
<1>13. Walk(q)'
  <2>1. q + remaining' <= NonceSpace
    BY <1>1, <1>2, <1>3 DEF Walk, TypeOK
  <2>2. ASSUME NEW i \in q .. NonceSpace - 1 PROVE submitted'[Ring(i)] = 0
    <3>1. i \in p .. NonceSpace - 1 /\ i \in 0 .. NonceSpace - 1 /\ i # p + offset
      BY <1>1, <1>3 DEF TypeOK
    <3>2. Ring(i) # m /\ Ring(i) \in Nonces
      BY <1>4, <3>1, RingOnce
    <3>3. submitted[Ring(i)] = 0
      BY <1>3, <3>1 DEF Walk
    <3>. QED BY <1>1, <3>2, <3>3 DEF TypeOK
  <2>. QED BY <1>1, <1>5, <2>1, <2>2 DEF Walk
<1>14. ASSUME ~onGpu PROVE CpuWalk(q)'
  <2>1. performed = offset + 1
    BY <1>1, <1>14 DEF ScanInv, MineInv
  <2>2. p + performed = q
    BY <1>1, <2>1 DEF TypeOK
  <2>3. \A i \in q .. NonceSpace - 1 : hashed[Ring(i)] = 0
    BY <1>3, <1>6, <1>14, <2>2 DEF CpuWalk
  <2>4. ASSUME ~stopFlag, NEW i \in 0 .. q - 1 PROVE hashed[Ring(i)] > 0
    <3>1. i \in 0 .. p + Ahead - 1
      BY <1>1, <1>6, <2>1 DEF TypeOK
    <3>2. CpuWalk(p)
      BY <1>3, <1>14
    <3>. QED BY <2>4, <3>1, <3>2 DEF CpuWalk
  <2>5. ~stopFlag => q + remaining' + Cardinality(Found') >= NonceSpace
    <3>1. ~stopFlag => p + remaining + Cardinality(Found) >= NonceSpace
      BY <1>3, <1>14 DEF CpuWalk
    <3>. QED BY <1>1, <1>2, <1>3, <1>8, <2>1, <3>1 DEF TypeOK
  <2>6. q + 0 = q
    BY <1>5
  <2>. QED BY <1>1, <1>6, <2>3, <2>4, <2>5, <2>6 DEF CpuWalk
<1>15. ~onGpu => \A n \in winners : hashed[n] > 0 => n \in Found'
  BY <1>1, <1>7 DEF ScanInv
<1>16. ASSUME onGpu PROVE GpuWalk(q)'
  <2>. SUFFICES ASSUME ~stopFlag PROVE GpuWalk(q)'
    BY <1>1 DEF GpuWalk
  <2>. DEFINE product == LaunchSize * Cardinality(Found)
              missed  == Cardinality(Skipped(q))
  <2>1. /\ missed + performed - offset + NonceSpace <= product + LaunchSize + p + remaining
        /\ product \in Nat /\ missed \in Nat
    <3>1. missed \in Nat
      <4>1. Skipped(q) \in SUBSET (0 .. NonceSpace)
        BY <1>5 DEF Skipped
      <4>2. Skipped(q) \subseteq Skipped(q) \cup (0 .. 0 + 0 - 1)
        OBVIOUS
      <4>. QED BY <4>1, <4>2, FewPlaces
    <3>. QED BY <1>1, <1>3, <1>8, <1>16, <3>1 DEF GpuWalk
  <2>2. LaunchSize * Cardinality(Found') = product + LaunchSize
    <3>1. Cardinality(Found') = Cardinality(Found) + 1 /\ Cardinality(Found) \in Nat
      BY <1>8
    <3>. DEFINE c == Cardinality(Found)
    <3>2. LaunchSize * (c + 1) = LaunchSize * c + LaunchSize
      <4>. HIDE DEF c
      <4>. QED BY <3>1 DEF c
    <3>. QED BY <3>1, <3>2
  <2>3. Skipped(q + Ahead)' = Skipped(q)
    <3>1. q + Ahead' = q
      BY <1>5, <1>6
    <3>. QED BY <1>1, <3>1 DEF Skipped
  <2>4. missed + NonceSpace <= product + LaunchSize + q + remaining'
    <3>. HIDE DEF product, missed
    <3>. QED BY <1>1, <1>2, <1>3, <2>1 DEF TypeOK
  <2>. QED BY <1>1, <2>2, <2>3, <2>4 DEF GpuWalk
<1>. QED BY <1>1, <1>5, <1>9, <1>10, <1>11, <1>12, <1>13, <1>14, <1>15, <1>16 DEF ScanInv

(* Every step keeps the types and the invariant.                            *)
LEMMA ScanStep == TypeOK /\ ScanInv /\ [Next]_vars => TypeOK' /\ ScanInv'
BY SignalKeeps, MineBeginsKeeps, CpuHashesKeeps, GpuLaunchesKeeps, FoundNothingKeeps,
   FoundShareKeeps DEF Next, Loop, Ended

(* Every variable keeps its type: no 64-bit counter wraps, for any sizes.   *)
THEOREM TypeCorrect == Spec => []TypeOK
<1>. QED BY ScanInit, ScanStep, PTL DEF Spec

(* The inductive invariant holds.                                           *)
LEMMA ScanCorrect == Spec => [](TypeOK /\ ScanInv)
<1>. QED BY ScanInit, ScanStep, PTL DEF Spec

(* No nonce is submitted twice, for every nonce space, first nonce, chunk    *)
(* and launch size.                                                         *)
THEOREM SubmittedOnceCorrect == Spec => []SubmittedOnce
<1>1. ScanInv => SubmittedOnce
  BY DEF ScanInv
<1>. QED BY <1>1, ScanCorrect, PTL

(* The hashes that the statistics count are those that were computed, and   *)
(* on the GPU at least those.                                               *)
THEOREM CountedCorrect == Spec => []CountedIsHashed
<1>1. TypeOK /\ ScanInv => CountedIsHashed
  BY DEF TypeOK, ScanInv, CountInv, Ahead, CountedIsHashed
<1>. QED BY <1>1, ScanCorrect, PTL

(* The nonces left out at the end of the walk are those of the places left  *)
(* out and of those not reached.                                            *)
LEMMA LeftOut ==
    ASSUME NEW p \in 0 .. NonceSpace, NEW h \in [Nonces -> Nat]
    PROVE  LET left   == {n \in Nonces : h[n] = 0}
               places == {i \in 0 .. p - 1 : h[Ring(i)] = 0}
           IN  /\ Cardinality(left) \in Nat /\ Cardinality(places) \in Nat
               /\ Cardinality(left) <= Cardinality(places) + NonceSpace - p
<1>. USE ScanAssumption
<1>. DEFINE left   == {n \in Nonces : h[n] = 0}
            places == {i \in 0 .. p - 1 : h[Ring(i)] = 0}
            all    == {i \in 0 .. NonceSpace - 1 : h[Ring(i)] = 0}
            f      == [i \in all |-> Ring(i)]
<1>1. f \in Surjection(all, left)
  <2>1. \A i \in all : Ring(i) \in left
    BY RingOnce
  <2>2. ASSUME NEW n \in left PROVE \E i \in all : f[i] = n
    <3>1. PICK i \in 0 .. NonceSpace - 1 : Ring(i) = n
      BY RingOnce
    <3>2. i \in all /\ f[i] = n
      BY <3>1
    <3>. QED BY <3>2
  <2>. QED BY <2>1, <2>2 DEF Surjection
<1>2. /\ Cardinality(places) \in Nat /\ Cardinality(all) \in Nat
      /\ Cardinality(all) <= Cardinality(places) + (NonceSpace - p)
  <2>1. places \in SUBSET (0 .. NonceSpace)
    OBVIOUS
  <2>2. all \subseteq places \cup (p .. p + (NonceSpace - p) - 1)
    OBVIOUS
  <2>. HIDE DEF places, all
  <2>. DEFINE rest == NonceSpace - p
  <2>3. rest \in Nat /\ p \in Nat /\ NonceSpace \in Nat
    OBVIOUS
  <2>4. all \subseteq places \cup (p .. p + rest - 1)
    BY <2>2
  <2>5. /\ Cardinality(places) \in Nat /\ Cardinality(all) \in Nat
        /\ Cardinality(all) <= Cardinality(places) + rest
    <3>. HIDE DEF rest
    <3>. QED BY <2>1, <2>3, <2>4, FewPlaces
  <2>. QED BY <2>5
<1>3. IsFiniteSet(all)
  <2>1. IsFiniteSet(0 .. NonceSpace - 1)
    BY FS_Interval
  <2>. QED BY <2>1, FS_Subset
<1>. HIDE DEF left, all, f
<1>4. IsFiniteSet(left) /\ Cardinality(left) <= Cardinality(all)
  BY <1>1, <1>3, FS_Surjection
<1>5. Cardinality(left) \in Nat
  BY <1>4, FS_CardinalityType
<1>. USE DEF left
<1>. HIDE DEF places
<1>6. Cardinality(left) <= Cardinality(places) + NonceSpace - p
  <2>. HIDE DEF left
  <2>. QED BY <1>2, <1>4, <1>5
<1>. QED BY <1>2, <1>5, <1>6 DEF places

(* A scan that nothing cut short leaves out, for each share it found, one   *)
(* nonce at most on the CPU and a launch's at most on the GPU; and the CPU  *)
(* submits every winner that it tried.                                      *)
THEOREM ScanCompleteCorrect == Spec => []ScanIsComplete
<1>1. TypeOK /\ ScanInv => ScanIsComplete
  <2>. SUFFICES ASSUME TypeOK, ScanInv, pc = "done", ~stopFlag, ~newWork
                PROVE  /\ Cardinality({n \in Nonces : hashed[n] = 0})
                            <= LeftOutPerShare * Cardinality(Found)
                       /\ ~onGpu => \A n \in winners : hashed[n] > 0 => n \in Found
    BY DEF ScanIsComplete
  <2>1. PICK p \in 0 .. NonceSpace : Walk(p) /\ (IF onGpu THEN GpuWalk(p) ELSE CpuWalk(p))
    BY DEF ScanInv
  <2>. DEFINE left   == Cardinality({n \in Nonces : hashed[n] = 0})
              places == Cardinality(Skipped(p))
              shares == Cardinality(Found)
  <2>2. remaining = 0 /\ p + Ahead = p
    BY DEF ScanInv, Ahead
  <2>3. left \in Nat /\ places \in Nat /\ left <= places + NonceSpace - p
    BY LeftOut DEF TypeOK, Skipped
  <2>4. shares \in Nat
    BY FoundFinite
  <2>5. ~onGpu => \A n \in winners : hashed[n] > 0 => n \in Found
    BY DEF ScanInv
  <2>6. CASE onGpu
    <3>1. places + NonceSpace <= LaunchSize * shares + p
      BY <2>1, <2>2, <2>6, <2>4, ScanAssumption DEF GpuWalk
    <3>. DEFINE product == LaunchSize * shares
    <3>2. product \in Nat
      BY <2>4, ScanAssumption
    <3>3. left <= product
      <4>. HIDE DEF left, places, product
      <4>. QED BY <2>3, <3>1, <3>2, ScanAssumption DEF product
    <3>. QED BY <2>6, <2>5, <3>3 DEF LeftOutPerShare
  <2>7. CASE ~onGpu
    <3>1. Skipped(p) = {} /\ p + shares >= NonceSpace
      <4>1. /\ \A i \in 0 .. p - 1 : hashed[Ring(i)] > 0
            /\ p + 0 + shares >= NonceSpace
        <5>1. CpuWalk(p) /\ ~stopFlag
          BY <2>1, <2>7
        <5>2. p \in Nat /\ Ahead = 0
          BY DEF Ahead
        <5>. QED BY <2>2, <5>1, <5>2, FoundFinite, ScanAssumption DEF CpuWalk
      <4>2. \A i \in 0 .. p - 1 : hashed[Ring(i)] # 0
        BY <4>1
      <4>. QED BY <4>1, <4>2 DEF Skipped
    <3>2. places = 0
      BY <3>1, FS_EmptySet
    <3>3. left <= shares
      <4>. HIDE DEF left, places, shares
      <4>. QED BY <2>3, <2>4, <3>1, <3>2, ScanAssumption DEF shares
    <3>4. LeftOutPerShare * shares = shares
      <4>. HIDE DEF shares
      <4>. QED BY <2>4, <2>7 DEF LeftOutPerShare
    <3>5. left <= LeftOutPerShare * shares
      BY <3>3, <3>4
    <3>. QED BY <2>5, <3>5
  <2>. QED BY <2>6, <2>7
<1>. QED BY <1>1, ScanCorrect, PTL
=============================================================================
