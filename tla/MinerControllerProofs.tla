----------------------- MODULE MinerControllerProofs -----------------------
(***************************************************************************)
(* Theorems about MinerController, for every number of workers, of callers  *)
(* and of jobs.  The types hold whatever the callers do; the rest holds as  *)
(* long as no call begins during another one, which is all that the code    *)
(* takes care of: start(), stop() and updateConfig() exclude each other by  *)
(* no lock.                                                                 *)
(***************************************************************************)
EXTENDS MinerController, FiniteSetTheorems, TLAPS

(* No call runs during another one.                                         *)
OneCallAtATime == \A c, d \in Callers : c # d => At(c, "idle") \/ At(d, "idle")

(* Places in a call at which every worker there ever was has returned.      *)
WorkersGone == {"reset", "create", "connect", "run", "spawn", "update", "discard",
                "teardown", "dismantle", "finish"}

(* What a caller at a place relies on.                                      *)
PlaceInv(place) ==
    /\ place \notin {"crashed", "killed"}
    /\ place \in WorkersGone => Alive = {}
    /\ place \notin {"idle", "spawn"} => ~running
    /\ place = "spawn" => running /\ miningState = "Running"
    /\ place \in {"reset", "create", "update"} => pool # "created"
    /\ place \in {"connect", "dismantle"} => pool = "created"
    /\ place \in {"run", "spawn", "stopping", "join", "teardown"} => pool = "live"
    /\ place = "finish" => pool = "none"
    /\ place = "discard" => pool # "live" /\ (workers = {} => ~sessionActive)
    /\ place = "update" /\ workers = {} => pool = "none" /\ ~sessionActive
    /\ place \in {"stopping", "join"} => miningState \in {"Running", "Error", "Stopping"}
    /\ place \in {"teardown", "dismantle", "finish"} => workers = {}
    /\ place \in {"reset", "create", "connect", "run", "spawn", "stopping", "join"} =>
         config \notin Unconfigured

(* What the miner is between two calls.                                     *)
RestInv ==
    AtRest =>
        /\ pool # "created"
        /\ running => /\ pool = "live" /\ miningState \in {"Running", "Error"}
                      /\ config \notin Unconfigured
        /\ ~running => Alive = {}
        /\ ~running /\ workers = {} => pool = "none" /\ ~sessionActive

(* The handles and what their threads do.  A CUDA worker is alone.          *)
WorkerInv ==
    /\ \A t \in Threads : t \in workers <=> wpc[t] # "none"
    /\ useCuda => \A t, u \in Alive : t = u
    /\ \A t \in Threads : wpc[t] = "failed" => useCuda

(* There is a job only while a client can drop it, and a worker's snapshot  *)
(* with the current generation is of the current version.                   *)
SnapshotInv ==
    /\ hasJob => pool = "live"
    /\ \A t \in Threads : wpc[t] \in {"build", "range", "hash", "submit"} =>
         workGen[t] <= generation /\ (workGen[t] = generation => work[t] = version)

(* The inductive invariant, while calls come one at a time.                 *)
ControllerInv ==
    /\ \A c \in Callers : PlaceInv(ctl[c])
    /\ RestInv /\ WorkerInv /\ SnapshotInv

(* The initial states are well typed.                                       *)
LEMMA TypeInit == Init => TypeOK
<1>1. Init => work \in [Threads -> Nat] /\ workGen \in [Threads -> Nat]
  BY DEF Init
<1>2. Init => version \in Nat /\ generation \in Nat
  BY DEF Init
<1>3. Init => /\ running \in BOOLEAN /\ stopFlag \in BOOLEAN /\ useCuda \in BOOLEAN
              /\ sessionActive \in BOOLEAN /\ hasJob \in BOOLEAN
  BY DEF Init
<1>. QED BY <1>1, <1>2, <1>3 DEF Init, TypeOK, MiningStates

(* Every step of a call keeps the types.                                    *)
LEMMA CallTypes ==
    ASSUME TypeOK, NEW c \in Callers, Calls(c) \/ Runs(c)
    PROVE  TypeOK'
<1>. USE CudaAssumption, ConfigsAssumption
     DEF TypeOK, MiningStates, flags, stats, jobVars, wVars, Moves, At
<1>1. ASSUME StartResets(c) PROVE TypeOK'
  <2>1. hasJob' \in BOOLEAN /\ useCuda' \in BOOLEAN
    BY <1>1 DEF StartResets
  <2>2. generation' \in Nat
    BY <1>1 DEF StartResets
  <2>. QED BY <1>1, <2>1, <2>2 DEF StartResets
<1>2. ASSUME StartCreatesPool(c) PROVE TypeOK'
  <2>1. hasJob' \in BOOLEAN /\ useCuda' \in BOOLEAN
    BY <1>2 DEF StartCreatesPool, DropsJobOfLive
  <2>2. generation' \in Nat
    BY <1>2 DEF StartCreatesPool, DropsJobOfLive
  <2>. QED BY <1>2, <2>1, <2>2 DEF StartCreatesPool, DropsJobOfLive
<1>3. StartConnects(c) => TypeOK'
  BY DEF StartConnects
<1>4. ASSUME StartFails(c) PROVE TypeOK'
  <2>1. hasJob' \in BOOLEAN /\ useCuda' \in BOOLEAN
    BY <1>4 DEF StartFails, ResetPool, DropsJobOfLive
  <2>2. generation' \in Nat
    BY <1>4 DEF StartFails, ResetPool, DropsJobOfLive
  <2>. QED BY <1>4, <2>1, <2>2 DEF StartFails, ResetPool, DropsJobOfLive
<1>5. StartFindsNone(c) => TypeOK'
  BY DEF StartFindsNone
<1>6. StartRuns(c) => TypeOK'
  BY DEF StartRuns
<1>7. StartSpawns(c) => TypeOK'
  BY DEF StartSpawns
<1>8. ASSUME StopDiscards(c) PROVE TypeOK'
  <2>1. hasJob' \in BOOLEAN /\ useCuda' \in BOOLEAN
    BY <1>8 DEF StopDiscards, ResetPool, DropsJobOfLive
  <2>2. generation' \in Nat
    BY <1>8 DEF StopDiscards, ResetPool, DropsJobOfLive
  <2>. QED BY <1>8, <2>1, <2>2 DEF StopDiscards, ResetPool, DropsJobOfLive
<1>9. StopFlags(c) => TypeOK'
  BY DEF StopFlags
<1>10. StopJoins(c) => TypeOK'
  BY DEF StopJoins
<1>11. ASSUME StopTearsDown(c) PROVE TypeOK'
  <2>1. hasJob' \in BOOLEAN /\ useCuda' \in BOOLEAN
    BY <1>11 DEF StopTearsDown, StopsClient, DropsJobOfLive
  <2>2. generation' \in Nat
    BY <1>11 DEF StopTearsDown, StopsClient, DropsJobOfLive
  <2>. QED BY <1>11, <2>1, <2>2 DEF StopTearsDown, StopsClient, DropsJobOfLive
<1>12. ASSUME StopDismantles(c) PROVE TypeOK'
  <2>1. hasJob' \in BOOLEAN /\ useCuda' \in BOOLEAN
    BY <1>12 DEF StopDismantles, ResetPool, DropsJobOfLive
  <2>2. generation' \in Nat
    BY <1>12 DEF StopDismantles, ResetPool, DropsJobOfLive
  <2>. QED BY <1>12, <2>1, <2>2 DEF StopDismantles, ResetPool, DropsJobOfLive
<1>13. StopFinishes(c) => TypeOK'
  BY DEF StopFinishes
<1>14. UpdateApplies(c) => TypeOK'
  BY DEF UpdateApplies
<1>15. StartBegins(c) => TypeOK'
  BY DEF StartBegins
<1>16. ASSUME StopIdle(c) PROVE TypeOK'
  <2>1. hasJob' \in BOOLEAN /\ useCuda' \in BOOLEAN
    BY <1>16 DEF StopIdle, StopsClient, DropsJobOfLive
  <2>2. generation' \in Nat
    BY <1>16 DEF StopIdle, StopsClient, DropsJobOfLive
  <2>. QED BY <1>16, <2>1, <2>2 DEF StopIdle, StopsClient, DropsJobOfLive
<1>17. StopBegins(c) => TypeOK'
  BY DEF StopBegins
<1>18. UpdateBegins(c) => TypeOK'
  BY DEF UpdateBegins
<1>19. StartRefused(c) => TypeOK'
  BY DEF StartRefused
<1>20. UpdateRefused(c) => TypeOK'
  BY DEF UpdateRefused, vars
<1>21. Collides(c) => TypeOK'
  BY DEF Collides
<1>. QED BY <1>1, <1>2, <1>3, <1>4, <1>5, <1>6, <1>7, <1>8, <1>9, <1>10, <1>11, <1>12, <1>13,
            <1>14, <1>15, <1>16, <1>17, <1>18, <1>19, <1>20, <1>21
       DEF Calls, Runs, Advance, Starting, Stopping

(* Every step of a worker keeps the types.                                  *)
LEMMA WorkerTypes ==
    ASSUME TypeOK, NEW t \in Threads, Worker(t)
    PROVE  TypeOK'
<1>. USE DEF TypeOK, MiningStates, flags, stats, jobVars, wVars, Goes
<1>1. WorkerExits(t) => TypeOK'
  BY DEF WorkerExits
<1>2. WorkerSnapshots(t) => TypeOK'
  BY DEF WorkerSnapshots
<1>3. WorkerBuilds(t) => TypeOK'
  BY DEF WorkerBuilds
<1>4. WorkerAbandons(t) => TypeOK'
  BY DEF WorkerAbandons
<1>5. WorkerHashes(t) => TypeOK'
  BY DEF WorkerHashes
<1>6. WorkerFindsNothing(t) => TypeOK'
  BY DEF WorkerFindsNothing
<1>7. WorkerFinds(t) => TypeOK'
  BY DEF WorkerFinds
<1>8. WorkerSubmits(t) => TypeOK'
  BY DEF WorkerSubmits
<1>9. WorkerFails(t) => TypeOK'
  BY DEF WorkerFails
<1>10. WorkerQuits(t) => TypeOK'
  BY DEF WorkerQuits
<1>. QED BY <1>1, <1>2, <1>3, <1>4, <1>5, <1>6, <1>7, <1>8, <1>9, <1>10 DEF Worker

(* Every step keeps the types, whoever calls what and when.                 *)
LEMMA TypeStep == TypeOK /\ [Next]_vars => TypeOK'
<1>. SUFFICES ASSUME TypeOK, [Next]_vars PROVE TypeOK'
  OBVIOUS
<1>1. CASE \E c \in Callers : Calls(c) \/ Runs(c)
  BY <1>1, CallTypes
<1>2. CASE Callback
  <2>1. hasJob' \in BOOLEAN
    BY <1>2 DEF Callback, OnJob, OnDifficulty, OnPoolLost, TypeOK
  <2>2. generation' \in Nat /\ version' \in Nat
    BY <1>2 DEF Callback, OnJob, OnDifficulty, OnPoolLost, TypeOK
  <2>3. UNCHANGED <<ctl, flags, stats, config, pool, workers, wpc, wVars>>
    BY <1>2 DEF Callback, OnJob, OnDifficulty, OnPoolLost
  <2>. QED BY <2>1, <2>2, <2>3 DEF TypeOK, flags, stats, wVars
<1>3. CASE \E t \in Threads : Worker(t)
  BY <1>3, WorkerTypes
<1>4. CASE UNCHANGED vars
  BY <1>4 DEF vars, TypeOK, flags, stats, jobVars, wVars
<1>. QED BY <1>1, <1>2, <1>3, <1>4 DEF Next

(* Every variable keeps its type, for any number of callers at once.        *)
THEOREM TypeCorrect == Spec => []TypeOK
<1>. QED BY TypeInit, TypeStep, PTL DEF Spec

(* A caller that moves on is the only one in a call, before and after.      *)
LEMMA Alone ==
    ASSUME TypeOK, OneCallAtATime, OneCallAtATime', NEW c \in Callers,
           NEW from, NEW to, from # to, Moves(c, from, to)
    PROVE  /\ ctl[c] = from /\ ctl'[c] = to
           /\ \A d \in Callers \ {c} : ctl[d] = "idle" /\ ctl'[d] = "idle"
BY DEF TypeOK, OneCallAtATime, Moves, At

(* A place that is reached is relied on by its caller alone.                *)
LEMMA OnlyOnePlace ==
    ASSUME NEW c \in Callers, NEW to, ctl'[c] = to,
           \A d \in Callers \ {c} : ctl'[d] = "idle", PlaceInv(to)'
    PROVE  \A d \in Callers : PlaceInv(ctl[d])'
BY DEF PlaceInv, WorkersGone

(* A call that begins or moves on keeps the invariant.                      *)
LEMMA CallKeeps ==
    ASSUME TypeOK, TypeOK', OneCallAtATime, OneCallAtATime', ControllerInv,
           NEW c \in Callers,
           StartResets(c) \/ StartCreatesPool(c) \/ StartConnects(c) \/ StartRuns(c) \/
             StartSpawns(c) \/ StopDiscards(c) \/ StopFlags(c) \/ StopJoins(c) \/
             StopTearsDown(c) \/ StopDismantles(c) \/ StopFinishes(c) \/ UpdateApplies(c) \/
             StartBegins(c) \/ StopIdle(c) \/ StopBegins(c) \/ UpdateBegins(c)
    PROVE  ControllerInv'
<1>. USE DEF flags, stats, jobVars, wVars
<1>1. ASSUME StartResets(c) PROVE ControllerInv'
  <2>1. /\ ctl[c] = "reset" /\ ctl'[c] = "create"
        /\ \A d \in Callers \ {c} : ctl[d] = "idle" /\ ctl'[d] = "idle"
    BY <1>1, Alone DEF StartResets
  <2>2. PlaceInv("reset") /\ RestInv /\ WorkerInv /\ SnapshotInv
    BY <2>1 DEF ControllerInv
  <2>3. PlaceInv("create")'
    BY <1>1, <2>1, <2>2 DEF StartResets, PlaceInv, RestInv, AtRest, At, WorkersGone, Alive
  <2>4. RestInv'
    BY <1>1, <2>1, <2>2 DEF StartResets, PlaceInv, RestInv, AtRest, At, WorkersGone, Alive
  <2>5. WorkerInv'
    BY <1>1, <2>2 DEF StartResets, PlaceInv, WorkerInv, WorkersGone, Alive
  <2>6. SnapshotInv'
    <3>1. \A t \in Threads : wpc[t] \in {"none", "returned"}
      BY <2>2 DEF PlaceInv, WorkerInv, WorkersGone, Alive
    <3>2. \A t \in Threads : wpc'[t] \notin {"build", "range", "hash", "submit"}
      BY <1>1, <3>1 DEF StartResets
    <3>3. hasJob' = FALSE
      BY <1>1 DEF StartResets
    <3>. QED BY <3>2, <3>3 DEF SnapshotInv
  <2>. QED BY <2>1, <2>3, <2>4, <2>5, <2>6, OnlyOnePlace DEF ControllerInv
<1>2. ASSUME StartCreatesPool(c) PROVE ControllerInv'
  <2>1. /\ ctl[c] = "create" /\ ctl'[c] = "connect"
        /\ \A d \in Callers \ {c} : ctl[d] = "idle" /\ ctl'[d] = "idle"
    BY <1>2, Alone DEF StartCreatesPool
  <2>2. PlaceInv("create") /\ RestInv /\ WorkerInv /\ SnapshotInv
    BY <2>1 DEF ControllerInv
  <2>3. PlaceInv("connect")'
    BY <1>2, <2>1, <2>2 DEF StartCreatesPool, DropsJobOfLive, PlaceInv, RestInv, AtRest, At,
       WorkersGone, Alive
  <2>4. RestInv'
    BY <1>2, <2>1, <2>2 DEF StartCreatesPool, DropsJobOfLive, PlaceInv, RestInv, AtRest, At,
       WorkersGone, Alive
  <2>5. WorkerInv'
    BY <1>2, <2>2 DEF StartCreatesPool, DropsJobOfLive, PlaceInv, WorkerInv, WorkersGone, Alive
  <2>6. SnapshotInv'
    BY <1>2, <2>2 DEF StartCreatesPool, DropsJobOfLive, PlaceInv, SnapshotInv, TypeOK
  <2>. QED BY <2>1, <2>3, <2>4, <2>5, <2>6, OnlyOnePlace DEF ControllerInv
<1>3. ASSUME StartConnects(c) PROVE ControllerInv'
  <2>1. /\ ctl[c] = "connect" /\ ctl'[c] = "run"
        /\ \A d \in Callers \ {c} : ctl[d] = "idle" /\ ctl'[d] = "idle"
    BY <1>3, Alone DEF StartConnects
  <2>2. PlaceInv("connect") /\ RestInv /\ WorkerInv /\ SnapshotInv
    BY <2>1 DEF ControllerInv
  <2>3. PlaceInv("run")'
    BY <1>3, <2>1, <2>2 DEF StartConnects, PlaceInv, RestInv, AtRest, At, WorkersGone, Alive
  <2>4. RestInv'
    BY <1>3, <2>1, <2>2 DEF StartConnects, PlaceInv, RestInv, AtRest, At, WorkersGone, Alive
  <2>5. WorkerInv'
    BY <1>3, <2>2 DEF StartConnects, PlaceInv, WorkerInv, WorkersGone, Alive
  <2>6. SnapshotInv'
    BY <1>3, <2>2 DEF StartConnects, PlaceInv, SnapshotInv, TypeOK
  <2>. QED BY <2>1, <2>3, <2>4, <2>5, <2>6, OnlyOnePlace DEF ControllerInv
<1>4. ASSUME StartRuns(c) PROVE ControllerInv'
  <2>1. /\ ctl[c] = "run" /\ ctl'[c] = "spawn"
        /\ \A d \in Callers \ {c} : ctl[d] = "idle" /\ ctl'[d] = "idle"
    BY <1>4, Alone DEF StartRuns
  <2>2. PlaceInv("run") /\ RestInv /\ WorkerInv /\ SnapshotInv
    BY <2>1 DEF ControllerInv
  <2>3. PlaceInv("spawn")'
    BY <1>4, <2>1, <2>2 DEF StartRuns, PlaceInv, RestInv, AtRest, At, WorkersGone, Alive
  <2>4. RestInv'
    BY <1>4, <2>1, <2>2 DEF StartRuns, PlaceInv, RestInv, AtRest, At, WorkersGone, Alive
  <2>5. WorkerInv'
    BY <1>4, <2>2 DEF StartRuns, PlaceInv, WorkerInv, WorkersGone, Alive
  <2>6. SnapshotInv'
    BY <1>4, <2>2 DEF StartRuns, PlaceInv, SnapshotInv, TypeOK
  <2>. QED BY <2>1, <2>3, <2>4, <2>5, <2>6, OnlyOnePlace DEF ControllerInv
<1>5. ASSUME StartSpawns(c) PROVE ControllerInv'
  <2>1. /\ ctl[c] = "spawn" /\ ctl'[c] = "idle"
        /\ \A d \in Callers \ {c} : ctl[d] = "idle" /\ ctl'[d] = "idle"
    BY <1>5, Alone DEF StartSpawns
  <2>2. PlaceInv("spawn") /\ RestInv /\ WorkerInv /\ SnapshotInv
    BY <2>1 DEF ControllerInv
  <2>3. PlaceInv("idle")'
    BY <1>5, <2>1, <2>2 DEF StartSpawns, PlaceInv, RestInv, AtRest, At, WorkersGone, Alive
  <2>4. RestInv'
    BY <1>5, <2>1, <2>2 DEF StartSpawns, PlaceInv, RestInv, AtRest, At, WorkersGone, Alive
  <2>5. WorkerInv'
    <3>1. PICK n \in SUBSET (Threads \ workers) :
             /\ Cardinality(n) = WorkerCount(useCuda)
             /\ workers' = workers \cup n
             /\ wpc' = [t \in Threads |-> IF t \in n THEN "top" ELSE wpc[t]]
      BY <1>5 DEF StartSpawns
    <3>2. Alive = {} /\ useCuda' = useCuda
      BY <1>5, <2>2 DEF StartSpawns, PlaceInv, WorkersGone
    <3>3. Alive' = n
      BY <3>1, <3>2 DEF Alive, TypeOK
    <3>4. ASSUME useCuda, NEW t \in n, NEW u \in n PROVE t = u
      <4>1. IsFiniteSet(n) /\ Cardinality(n) = 1
        BY <3>1, <3>4, ThreadsAssumption, FS_Subset DEF WorkerCount
      <4>. QED BY <3>4, <4>1, FS_Singleton
    <3>5. \A t \in Threads : t \in workers' <=> wpc'[t] # "none"
      BY <2>2, <3>1 DEF WorkerInv, TypeOK
    <3>6. \A t \in Threads : wpc'[t] = "failed" => useCuda'
      BY <2>2, <3>1, <3>2 DEF WorkerInv
    <3>. QED BY <3>2, <3>3, <3>4, <3>5, <3>6 DEF WorkerInv
  <2>6. SnapshotInv'
    BY <1>5, <2>2 DEF StartSpawns, PlaceInv, SnapshotInv, TypeOK
  <2>. QED BY <2>1, <2>3, <2>4, <2>5, <2>6, OnlyOnePlace DEF ControllerInv
<1>6. ASSUME StopDiscards(c) PROVE ControllerInv'
  <2>1. /\ ctl[c] = "discard" /\ ctl'[c] = "idle"
        /\ \A d \in Callers \ {c} : ctl[d] = "idle" /\ ctl'[d] = "idle"
    BY <1>6, Alone DEF StopDiscards
  <2>2. PlaceInv("discard") /\ RestInv /\ WorkerInv /\ SnapshotInv
    BY <2>1 DEF ControllerInv
  <2>3. PlaceInv("idle")'
    BY <1>6, <2>1, <2>2 DEF StopDiscards, ResetPool, DropsJobOfLive, PlaceInv, RestInv,
       AtRest, At, WorkersGone, Alive
  <2>4. RestInv'
    BY <1>6, <2>1, <2>2 DEF StopDiscards, ResetPool, DropsJobOfLive, PlaceInv, RestInv,
       AtRest, At, WorkersGone, Alive
  <2>5. WorkerInv'
    BY <1>6, <2>2 DEF StopDiscards, ResetPool, DropsJobOfLive, PlaceInv, WorkerInv,
       WorkersGone, Alive
  <2>6. SnapshotInv'
    BY <1>6, <2>2 DEF StopDiscards, ResetPool, DropsJobOfLive, PlaceInv, SnapshotInv, TypeOK
  <2>. QED BY <2>1, <2>3, <2>4, <2>5, <2>6, OnlyOnePlace DEF ControllerInv
<1>7. ASSUME StopFlags(c) PROVE ControllerInv'
  <2>1. /\ ctl[c] = "stopping" /\ ctl'[c] = "join"
        /\ \A d \in Callers \ {c} : ctl[d] = "idle" /\ ctl'[d] = "idle"
    BY <1>7, Alone DEF StopFlags
  <2>2. PlaceInv("stopping") /\ RestInv /\ WorkerInv /\ SnapshotInv
    BY <2>1 DEF ControllerInv
  <2>3. PlaceInv("join")'
    BY <1>7, <2>1, <2>2 DEF StopFlags, PlaceInv, RestInv, AtRest, At, WorkersGone, Alive
  <2>4. RestInv'
    BY <1>7, <2>1, <2>2 DEF StopFlags, PlaceInv, RestInv, AtRest, At, WorkersGone, Alive
  <2>5. WorkerInv'
    BY <1>7, <2>2 DEF StopFlags, PlaceInv, WorkerInv, WorkersGone, Alive
  <2>6. SnapshotInv'
    BY <1>7, <2>2 DEF StopFlags, PlaceInv, SnapshotInv, TypeOK
  <2>. QED BY <2>1, <2>3, <2>4, <2>5, <2>6, OnlyOnePlace DEF ControllerInv
<1>8. ASSUME StopJoins(c) PROVE ControllerInv'
  <2>1. /\ ctl[c] = "join" /\ ctl'[c] = "teardown"
        /\ \A d \in Callers \ {c} : ctl[d] = "idle" /\ ctl'[d] = "idle"
    BY <1>8, Alone DEF StopJoins
  <2>2. PlaceInv("join") /\ RestInv /\ WorkerInv /\ SnapshotInv
    BY <2>1 DEF ControllerInv
  <2>3. PlaceInv("teardown")'
    BY <1>8, <2>1, <2>2 DEF StopJoins, PlaceInv, RestInv, AtRest, At, WorkersGone, Alive
  <2>4. RestInv'
    BY <1>8, <2>1, <2>2 DEF StopJoins, PlaceInv, RestInv, AtRest, At, WorkersGone, Alive
  <2>5. WorkerInv'
    BY <1>8, <2>2 DEF StopJoins, PlaceInv, WorkerInv, WorkersGone, Alive
  <2>6. SnapshotInv'
    BY <1>8, <2>2 DEF StopJoins, PlaceInv, SnapshotInv, TypeOK
  <2>. QED BY <2>1, <2>3, <2>4, <2>5, <2>6, OnlyOnePlace DEF ControllerInv
<1>9. ASSUME StopTearsDown(c) PROVE ControllerInv'
  <2>1. /\ ctl[c] = "teardown" /\ ctl'[c] = "dismantle"
        /\ \A d \in Callers \ {c} : ctl[d] = "idle" /\ ctl'[d] = "idle"
    BY <1>9, Alone DEF StopTearsDown
  <2>2. PlaceInv("teardown") /\ RestInv /\ WorkerInv /\ SnapshotInv
    BY <2>1 DEF ControllerInv
  <2>3. PlaceInv("dismantle")'
    BY <1>9, <2>1, <2>2 DEF StopTearsDown, StopsClient, DropsJobOfLive, PlaceInv, RestInv,
       AtRest, At, WorkersGone, Alive
  <2>4. RestInv'
    BY <1>9, <2>1, <2>2 DEF StopTearsDown, StopsClient, DropsJobOfLive, PlaceInv, RestInv,
       AtRest, At, WorkersGone, Alive
  <2>5. WorkerInv'
    BY <1>9, <2>2 DEF StopTearsDown, StopsClient, DropsJobOfLive, PlaceInv, WorkerInv,
       WorkersGone, Alive
  <2>6. SnapshotInv'
    BY <1>9, <2>2 DEF StopTearsDown, StopsClient, DropsJobOfLive, PlaceInv, SnapshotInv, TypeOK
  <2>. QED BY <2>1, <2>3, <2>4, <2>5, <2>6, OnlyOnePlace DEF ControllerInv
<1>10. ASSUME StopDismantles(c) PROVE ControllerInv'
  <2>1. /\ ctl[c] = "dismantle" /\ ctl'[c] = "finish"
        /\ \A d \in Callers \ {c} : ctl[d] = "idle" /\ ctl'[d] = "idle"
    BY <1>10, Alone DEF StopDismantles
  <2>2. PlaceInv("dismantle") /\ RestInv /\ WorkerInv /\ SnapshotInv
    BY <2>1 DEF ControllerInv
  <2>3. PlaceInv("finish")'
    BY <1>10, <2>1, <2>2 DEF StopDismantles, ResetPool, DropsJobOfLive, PlaceInv, RestInv,
       AtRest, At, WorkersGone, Alive
  <2>4. RestInv'
    BY <1>10, <2>1, <2>2 DEF StopDismantles, ResetPool, DropsJobOfLive, PlaceInv, RestInv,
       AtRest, At, WorkersGone, Alive
  <2>5. WorkerInv'
    BY <1>10, <2>2 DEF StopDismantles, ResetPool, DropsJobOfLive, PlaceInv, WorkerInv,
       WorkersGone, Alive
  <2>6. SnapshotInv'
    BY <1>10, <2>2 DEF StopDismantles, ResetPool, DropsJobOfLive, PlaceInv, SnapshotInv, TypeOK
  <2>. QED BY <2>1, <2>3, <2>4, <2>5, <2>6, OnlyOnePlace DEF ControllerInv
<1>11. ASSUME StopFinishes(c) PROVE ControllerInv'
  <2>1. /\ ctl[c] = "finish" /\ ctl'[c] = "idle"
        /\ \A d \in Callers \ {c} : ctl[d] = "idle" /\ ctl'[d] = "idle"
    BY <1>11, Alone DEF StopFinishes
  <2>2. PlaceInv("finish") /\ RestInv /\ WorkerInv /\ SnapshotInv
    BY <2>1 DEF ControllerInv
  <2>3. PlaceInv("idle")'
    BY <1>11, <2>1, <2>2 DEF StopFinishes, PlaceInv, RestInv, AtRest, At, WorkersGone, Alive
  <2>4. RestInv'
    BY <1>11, <2>1, <2>2 DEF StopFinishes, PlaceInv, RestInv, AtRest, At, WorkersGone, Alive
  <2>5. WorkerInv'
    BY <1>11, <2>2 DEF StopFinishes, PlaceInv, WorkerInv, WorkersGone, Alive
  <2>6. SnapshotInv'
    BY <1>11, <2>2 DEF StopFinishes, PlaceInv, SnapshotInv, TypeOK
  <2>. QED BY <2>1, <2>3, <2>4, <2>5, <2>6, OnlyOnePlace DEF ControllerInv
<1>12. ASSUME UpdateApplies(c) PROVE ControllerInv'
  <2>1. /\ ctl[c] = "update" /\ ctl'[c] = "idle"
        /\ \A d \in Callers \ {c} : ctl[d] = "idle" /\ ctl'[d] = "idle"
    BY <1>12, Alone DEF UpdateApplies
  <2>2. PlaceInv("update") /\ RestInv /\ WorkerInv /\ SnapshotInv
    BY <2>1 DEF ControllerInv
  <2>3. PlaceInv("idle")'
    BY <1>12, <2>1, <2>2 DEF UpdateApplies, PlaceInv, RestInv, AtRest, At, WorkersGone, Alive
  <2>4. RestInv'
    BY <1>12, <2>1, <2>2 DEF UpdateApplies, PlaceInv, RestInv, AtRest, At, WorkersGone, Alive
  <2>5. WorkerInv'
    BY <1>12, <2>2 DEF UpdateApplies, PlaceInv, WorkerInv, WorkersGone, Alive
  <2>6. SnapshotInv'
    BY <1>12, <2>2 DEF UpdateApplies, PlaceInv, SnapshotInv, TypeOK
  <2>. QED BY <2>1, <2>3, <2>4, <2>5, <2>6, OnlyOnePlace DEF ControllerInv
<1>13. ASSUME StartBegins(c) PROVE ControllerInv'
  <2>1. /\ ctl[c] = "idle" /\ ctl'[c] = "reset"
        /\ \A d \in Callers \ {c} : ctl[d] = "idle" /\ ctl'[d] = "idle"
    BY <1>13, Alone DEF StartBegins
  <2>2. PlaceInv("idle") /\ RestInv /\ WorkerInv /\ SnapshotInv
    BY <2>1 DEF ControllerInv
  <2>3. PlaceInv("reset")'
    BY <1>13, <2>1, <2>2 DEF StartBegins, PlaceInv, RestInv, AtRest, At, WorkersGone, Alive
  <2>4. RestInv'
    BY <1>13, <2>1, <2>2 DEF StartBegins, PlaceInv, RestInv, AtRest, At, WorkersGone, Alive
  <2>5. WorkerInv'
    BY <1>13, <2>2 DEF StartBegins, PlaceInv, WorkerInv, WorkersGone, Alive
  <2>6. SnapshotInv'
    BY <1>13, <2>2 DEF StartBegins, PlaceInv, SnapshotInv, TypeOK
  <2>. QED BY <2>1, <2>3, <2>4, <2>5, <2>6, OnlyOnePlace DEF ControllerInv
<1>14. ASSUME StopIdle(c) PROVE ControllerInv'
  <2>1. /\ ctl[c] = "idle" /\ ctl'[c] = "discard"
        /\ \A d \in Callers \ {c} : ctl[d] = "idle" /\ ctl'[d] = "idle"
    BY <1>14, Alone DEF StopIdle
  <2>2. PlaceInv("idle") /\ RestInv /\ WorkerInv /\ SnapshotInv
    BY <2>1 DEF ControllerInv
  <2>3. PlaceInv("discard")'
    BY <1>14, <2>1, <2>2 DEF StopIdle, StopsClient, DropsJobOfLive, PlaceInv, RestInv, AtRest,
       At, WorkersGone, Alive
  <2>4. RestInv'
    BY <1>14, <2>1, <2>2 DEF StopIdle, StopsClient, DropsJobOfLive, PlaceInv, RestInv, AtRest,
       At, WorkersGone, Alive
  <2>5. WorkerInv'
    BY <1>14, <2>2 DEF StopIdle, StopsClient, DropsJobOfLive, PlaceInv, WorkerInv,
       WorkersGone, Alive
  <2>6. SnapshotInv'
    BY <1>14, <2>2 DEF StopIdle, StopsClient, DropsJobOfLive, PlaceInv, SnapshotInv, TypeOK
  <2>. QED BY <2>1, <2>3, <2>4, <2>5, <2>6, OnlyOnePlace DEF ControllerInv
<1>15. ASSUME StopBegins(c) PROVE ControllerInv'
  <2>1. /\ ctl[c] = "idle" /\ ctl'[c] = "stopping"
        /\ \A d \in Callers \ {c} : ctl[d] = "idle" /\ ctl'[d] = "idle"
    BY <1>15, Alone DEF StopBegins
  <2>2. PlaceInv("idle") /\ RestInv /\ WorkerInv /\ SnapshotInv
    BY <2>1 DEF ControllerInv
  <2>3. PlaceInv("stopping")'
    BY <1>15, <2>1, <2>2 DEF StopBegins, PlaceInv, RestInv, AtRest, At, WorkersGone, Alive
  <2>4. RestInv'
    BY <1>15, <2>1, <2>2 DEF StopBegins, PlaceInv, RestInv, AtRest, At, WorkersGone, Alive
  <2>5. WorkerInv'
    BY <1>15, <2>2 DEF StopBegins, PlaceInv, WorkerInv, WorkersGone, Alive
  <2>6. SnapshotInv'
    BY <1>15, <2>2 DEF StopBegins, PlaceInv, SnapshotInv, TypeOK
  <2>. QED BY <2>1, <2>3, <2>4, <2>5, <2>6, OnlyOnePlace DEF ControllerInv
<1>16. ASSUME UpdateBegins(c) PROVE ControllerInv'
  <2>1. /\ ctl[c] = "idle" /\ ctl'[c] = "update"
        /\ \A d \in Callers \ {c} : ctl[d] = "idle" /\ ctl'[d] = "idle"
    BY <1>16, Alone DEF UpdateBegins
  <2>2. PlaceInv("idle") /\ RestInv /\ WorkerInv /\ SnapshotInv
    BY <2>1 DEF ControllerInv
  <2>3. PlaceInv("update")'
    BY <1>16, <2>1, <2>2 DEF UpdateBegins, PlaceInv, RestInv, AtRest, At, WorkersGone, Alive
  <2>4. RestInv'
    BY <1>16, <2>1, <2>2 DEF UpdateBegins, PlaceInv, RestInv, AtRest, At, WorkersGone, Alive
  <2>5. WorkerInv'
    BY <1>16, <2>2 DEF UpdateBegins, PlaceInv, WorkerInv, WorkersGone, Alive
  <2>6. SnapshotInv'
    BY <1>16, <2>2 DEF UpdateBegins, PlaceInv, SnapshotInv, TypeOK
  <2>. QED BY <2>1, <2>3, <2>4, <2>5, <2>6, OnlyOnePlace DEF ControllerInv
<1>. QED BY <1>1, <1>2, <1>3, <1>4, <1>5, <1>6, <1>7, <1>8, <1>9, <1>10, <1>11, <1>12, <1>13,
            <1>14, <1>15, <1>16

(* A start() that is refused shows Stopped only where no mining can be, and *)
(* that is also true while another caller is in a call.                     *)
LEMMA RefusalKeeps ==
    ASSUME TypeOK, ControllerInv, NEW c \in Callers, StartRefused(c)
    PROVE  ControllerInv'
<1>. USE DEF flags, jobVars, wVars
<1>1. /\ UNCHANGED <<ctl, running, stopFlag, useCuda, sessionActive, config, pool,
                     workers, wpc, work, workGen, hasJob, version, generation>>
      /\ miningState' = miningState \/ (~running /\ config \in Unconfigured)
  <2>1. CASE running
    BY <2>1 DEF StartRefused
  <2>2. CASE ~running
    BY <2>2 DEF StartRefused
  <2>. QED BY <2>1, <2>2
<1>2. \A d \in Callers : PlaceInv(ctl[d])'
  BY <1>1 DEF ControllerInv, PlaceInv, WorkersGone, Alive
<1>3. RestInv' /\ WorkerInv' /\ SnapshotInv'
  BY <1>1 DEF ControllerInv, RestInv, AtRest, At, WorkerInv, SnapshotInv, Alive
<1>. QED BY <1>2, <1>3 DEF ControllerInv

(* Nobody collides, and nobody finds that another caller has connected the  *)
(* client or torn it down.                                                  *)
LEMMA NoCollision ==
    ASSUME TypeOK, OneCallAtATime, ControllerInv, NEW c \in Callers
    PROVE  ~StartFails(c) /\ ~StartFindsNone(c) /\ ~Collides(c)
<1>1. PlaceInv(ctl[c])
  BY DEF ControllerInv
<1>2. ~StartFails(c) /\ ~StartFindsNone(c)
  BY <1>1 DEF StartFails, StartFindsNone, Moves, At, PlaceInv
<1>3. ASSUME NEW d \in Callers \ {c} PROVE ~Races(c, d)
  <2>1. ctl[c] = "idle" \/ ctl[d] = "idle"
    BY DEF OneCallAtATime, At
  <2>. QED BY <2>1 DEF Races, At
<1>. QED BY <1>2, <1>3 DEF Collides

(* The pool's callbacks keep the invariant: they change the job only, and   *)
(* never its version without its generation.                                *)
LEMMA CallbackKeeps ==
    ASSUME TypeOK, ControllerInv, OnJob \/ OnDifficulty \/ OnPoolLost
    PROVE  ControllerInv'
<1>. USE DEF flags, stats, wVars
<1>1. /\ UNCHANGED <<ctl, running, stopFlag, useCuda, miningState, sessionActive, config,
                     pool, workers, wpc, work, workGen>>
      /\ pool = "live" /\ generation' = generation + 1
  BY DEF OnJob, OnDifficulty, OnPoolLost
<1>2. \A d \in Callers : PlaceInv(ctl[d])'
  BY <1>1 DEF ControllerInv, PlaceInv, WorkersGone, Alive
<1>3. RestInv' /\ WorkerInv'
  BY <1>1 DEF ControllerInv, RestInv, AtRest, At, WorkerInv, Alive
<1>4. \A t \in Threads : wpc[t] \in {"build", "range", "hash", "submit"} =>
         workGen[t] < generation'
  BY <1>1 DEF ControllerInv, SnapshotInv, TypeOK
<1>5. SnapshotInv'
  <2>1. \A t \in Threads : wpc'[t] \in {"build", "range", "hash", "submit"} =>
           workGen'[t] <= generation' /\ workGen'[t] # generation'
    BY <1>1, <1>4 DEF TypeOK
  <2>. QED BY <1>1, <2>1 DEF SnapshotInv
<1>. QED BY <1>2, <1>3, <1>5 DEF ControllerInv

(* A worker that goes on keeps the invariant.                               *)
LEMMA WorkerKeeps ==
    ASSUME TypeOK, ControllerInv, NEW t \in Threads, Worker(t)
    PROVE  ControllerInv'
<1>. USE DEF flags, stats, jobVars, wVars, Goes
<1>1. t \in Alive /\ t \in workers /\ wpc[t] \notin {"none", "returned"}
  <2>1. wpc[t] \notin {"none", "returned"}
    BY DEF Worker, WorkerExits, WorkerSnapshots, WorkerBuilds, WorkerAbandons,
        WorkerHashes, WorkerFindsNothing, WorkerFinds, WorkerSubmits, WorkerFails,
        WorkerQuits
  <2>. QED BY <2>1 DEF ControllerInv, WorkerInv, Alive
<1>2. /\ UNCHANGED <<ctl, stopFlag, useCuda, sessionActive, config, pool, workers,
                     hasJob, version, generation>>
      /\ \A u \in Threads \ {t} : wpc'[u] = wpc[u] /\ UNCHANGED <<work[u], workGen[u]>>
      /\ wpc'[t] # "none"
      /\ wpc'[t] = "failed" => useCuda
      /\ \/ UNCHANGED <<running, miningState>>
         \/ miningState' = "Error" /\ running' = running
         \/ /\ running' = FALSE /\ miningState' = miningState
            /\ wpc[t] = "failed" /\ wpc'[t] = "returned"
  <2>1. CASE WorkerExits(t) \/ WorkerBuilds(t) \/ WorkerAbandons(t) \/ WorkerHashes(t)
                \/ WorkerFindsNothing(t) \/ WorkerFinds(t) \/ WorkerSubmits(t)
    BY <2>1 DEF WorkerExits, WorkerBuilds, WorkerAbandons, WorkerHashes,
        WorkerFindsNothing, WorkerFinds, WorkerSubmits, TypeOK
  <2>2. CASE WorkerSnapshots(t)
    BY <2>2 DEF WorkerSnapshots, TypeOK
  <2>3. CASE WorkerFails(t) \/ WorkerQuits(t)
    BY <2>3 DEF WorkerFails, WorkerQuits, TypeOK
  <2>. QED BY <2>1, <2>2, <2>3 DEF Worker
<1>3. Alive' \subseteq Alive /\ (wpc'[t] = "returned" => t \notin Alive')
  BY <1>1, <1>2 DEF Alive, TypeOK
<1>4. \A d \in Callers : PlaceInv(ctl[d]) /\ ctl[d] \notin WorkersGone
  BY <1>1 DEF ControllerInv, PlaceInv
<1>5. \A d \in Callers : PlaceInv(ctl[d])'
  BY <1>2, <1>4 DEF PlaceInv, WorkersGone
<1>6. RestInv'
  <2>1. running' = running \/ Alive' = {}
    <3>. SUFFICES ASSUME wpc[t] = "failed", wpc'[t] = "returned" PROVE Alive' = {}
      BY <1>2
    <3>1. \A u \in Alive : u = t
      BY <1>1 DEF ControllerInv, WorkerInv
    <3>. QED BY <1>3, <3>1
  <2>2. ~running' => ~running \/ Alive' = {}
    BY <2>1
  <2>. QED BY <1>1, <1>2, <1>3, <2>1 DEF ControllerInv, RestInv, AtRest, At
<1>7. WorkerInv'
  <2>1. \A u \in Threads : u \in workers' <=> wpc'[u] # "none"
    BY <1>1, <1>2 DEF ControllerInv, WorkerInv
  <2>2. useCuda' => \A u, v \in Alive' : u = v
    BY <1>2, <1>3 DEF ControllerInv, WorkerInv
  <2>3. \A u \in Threads : wpc'[u] = "failed" => useCuda'
    BY <1>2 DEF ControllerInv, WorkerInv
  <2>. QED BY <2>1, <2>2, <2>3 DEF WorkerInv
<1>8. SnapshotInv'
  <2>1. ASSUME wpc'[t] \in {"build", "range", "hash", "submit"}
        PROVE  workGen'[t] <= generation /\ (workGen'[t] = generation => work'[t] = version)
    <3>1. CASE WorkerSnapshots(t)
      BY <3>1 DEF WorkerSnapshots, TypeOK
    <3>2. CASE ~WorkerSnapshots(t)
      <4>1. wpc[t] \in {"build", "range", "hash", "submit"}
        BY <2>1, <3>2 DEF Worker, WorkerExits, WorkerBuilds, WorkerAbandons, WorkerHashes,
            WorkerFindsNothing, WorkerFinds, WorkerSubmits, WorkerFails, WorkerQuits, TypeOK
      <4>2. UNCHANGED <<work, workGen>>
        BY <3>2 DEF Worker, WorkerExits, WorkerBuilds, WorkerAbandons, WorkerHashes,
            WorkerFindsNothing, WorkerFinds, WorkerSubmits, WorkerFails, WorkerQuits
      <4>. QED BY <4>1, <4>2 DEF ControllerInv, SnapshotInv
    <3>. QED BY <3>1, <3>2
  <2>2. \A u \in Threads \ {t} : wpc'[u] \in {"build", "range", "hash", "submit"} =>
           workGen'[u] <= generation /\ (workGen'[u] = generation => work'[u] = version)
    BY <1>2 DEF ControllerInv, SnapshotInv
  <2>. QED BY <1>2, <2>1, <2>2 DEF ControllerInv, SnapshotInv
<1>. QED BY <1>5, <1>6, <1>7, <1>8 DEF ControllerInv

(* The initial states satisfy the invariant.                                *)
LEMMA ControllerInit == Init => ControllerInv
<1>. SUFFICES ASSUME Init PROVE ControllerInv
  OBVIOUS
<1>1. Alive = {} /\ ~running /\ ~sessionActive /\ ~hasJob /\ ~useCuda
  BY DEF Init, Alive
<1>2. \A c \in Callers : PlaceInv(ctl[c])
  BY DEF Init, PlaceInv, WorkersGone
<1>3. RestInv /\ WorkerInv /\ SnapshotInv
  BY <1>1 DEF Init, RestInv, WorkerInv, SnapshotInv
<1>. QED BY <1>2, <1>3 DEF ControllerInv

(* Every step keeps it, as long as calls come one at a time.                *)
LEMMA ControllerStep ==
    /\ TypeOK /\ TypeOK' /\ OneCallAtATime /\ OneCallAtATime' /\ ControllerInv
    /\ [Next]_vars
    => ControllerInv'
<1>. SUFFICES ASSUME TypeOK, TypeOK', OneCallAtATime, OneCallAtATime', ControllerInv,
                     [Next]_vars
              PROVE  ControllerInv'
  OBVIOUS
<1>1. ASSUME NEW c \in Callers, Calls(c) \/ Runs(c) PROVE ControllerInv'
  <2>1. CASE StartRefused(c)
    BY <2>1, RefusalKeeps
  <2>2. CASE UpdateRefused(c)
    BY <2>2 DEF UpdateRefused, vars, flags, stats, jobVars, wVars, ControllerInv, PlaceInv,
                RestInv, AtRest, At, WorkerInv, SnapshotInv, Alive
  <2>. QED BY <1>1, <2>1, <2>2, NoCollision, CallKeeps
           DEF Calls, Runs, Advance, Starting, Stopping
<1>2. CASE Callback
  BY <1>2, CallbackKeeps DEF Callback
<1>3. CASE \E t \in Threads : Worker(t)
  BY <1>3, WorkerKeeps
<1>4. CASE UNCHANGED vars
  BY <1>4 DEF vars, flags, stats, jobVars, wVars, ControllerInv, PlaceInv, RestInv,
              AtRest, At, WorkerInv, SnapshotInv, Alive
<1>. QED BY <1>1, <1>2, <1>3, <1>4 DEF Next

(* While calls come one at a time, the invariant holds.                     *)
LEMMA ControllerCorrect == Spec /\ []OneCallAtATime => []ControllerInv
<1>. QED BY TypeCorrect, ControllerInit, ControllerStep, PTL DEF Spec

(* No worker hashes in a miner that says it is stopped or starting.         *)
LEMMA InvNoHashing == TypeOK /\ ControllerInv => NoHashingAtRest
<1>. SUFFICES ASSUME TypeOK, ControllerInv, Alive # {}
              PROVE  miningState \notin {"Stopped", "Starting"}
  BY DEF NoHashingAtRest
<1>1. CASE AtRest
  BY <1>1 DEF ControllerInv, RestInv
<1>2. CASE ~AtRest
  <2>. PICK c \in Callers : ctl[c] # "idle"
    BY <1>2 DEF AtRest, At
  <2>1. PlaceInv(ctl[c])
    BY DEF ControllerInv
  <2>. QED BY <2>1 DEF PlaceInv, WorkersGone, TypeOK
<1>. QED BY <1>1, <1>2

(* At rest, Stopped means that nothing is left.                             *)
LEMMA InvStopped == TypeOK /\ ControllerInv => StoppedIsClean
BY DEF ControllerInv, RestInv, SnapshotInv, StoppedIsClean

(* The worker that submits has a client to submit to.                       *)
LEMMA InvSubmit ==
    TypeOK /\ ControllerInv => \A t \in Threads : wpc[t] = "submit" => pool = "live"
<1>. SUFFICES ASSUME TypeOK, ControllerInv, NEW t \in Threads, wpc[t] = "submit"
              PROVE  pool = "live"
  OBVIOUS
<1>1. Alive # {}
  BY DEF ControllerInv, WorkerInv, Alive
<1>2. CASE AtRest
  BY <1>1, <1>2 DEF ControllerInv, RestInv
<1>3. CASE ~AtRest
  <2>. PICK c \in Callers : ctl[c] # "idle"
    BY <1>3 DEF AtRest, At
  <2>1. PlaceInv(ctl[c])
    BY DEF ControllerInv
  <2>. QED BY <1>1, <2>1 DEF PlaceInv, WorkersGone, TypeOK
<1>. QED BY <1>2, <1>3

(* While calls come one at a time, no worker hashes in a miner that says it *)
(* is stopped or starting.                                                  *)
THEOREM NoHashingCorrect == Spec /\ []OneCallAtATime => []NoHashingAtRest
<1>. QED BY TypeCorrect, ControllerCorrect, InvNoHashing, PTL

(* While calls come one at a time, a miner at rest in Stopped has no client, *)
(* no job and no session, unless a worker that failed was left behind.      *)
THEOREM StoppedCorrect == Spec /\ []OneCallAtATime => []StoppedIsClean
<1>. QED BY TypeCorrect, ControllerCorrect, InvStopped, PTL

(* While calls come one at a time, no worker begins a chunk on a job or a   *)
(* difficulty that is not the current one, for any number of jobs and runs: *)
(* a generation that start() reuses never meets an old snapshot.            *)
THEOREM ChunksCorrect == Spec /\ []OneCallAtATime => ChunksOnCurrentJob
<1>1. TypeOK /\ ControllerInv /\ [Next]_vars =>
        [\A t \in Threads : wpc[t] # "hash" /\ wpc'[t] = "hash"
                              => hasJob /\ work[t] = version]_vars
  <2>. SUFFICES ASSUME TypeOK, ControllerInv, [Next]_vars, NEW t \in Threads,
                       wpc[t] # "hash", wpc'[t] = "hash"
                PROVE  hasJob /\ work[t] = version
    OBVIOUS
  <2>1. WorkerHashes(t)
    <3>1. CASE UNCHANGED vars
      BY <3>1 DEF vars
    <3>2. CASE \E c \in Callers : Calls(c) \/ Runs(c)
      <4>1. wpc'[t] \in {wpc[t], "top", "none"}
        BY <3>2 DEF Calls, Runs, Advance, Starting, Stopping, StartRefused, StartBegins,
            StopIdle, StopBegins, UpdateBegins, UpdateRefused, StartResets,
            StartCreatesPool, StartConnects, StartFails, StartFindsNone, StartRuns,
            StartSpawns, StopDiscards, StopFlags, StopJoins, StopTearsDown,
            StopDismantles, StopFinishes, UpdateApplies, Collides, vars
      <4>. QED BY <4>1
    <3>3. CASE Callback
      BY <3>3 DEF Callback, OnJob, OnDifficulty, OnPoolLost
    <3>4. CASE \E u \in Threads : Worker(u)
      BY <3>4 DEF Worker, WorkerExits, WorkerSnapshots, WorkerBuilds, WorkerAbandons,
          WorkerHashes, WorkerFindsNothing, WorkerFinds, WorkerSubmits, WorkerFails,
          WorkerQuits, Goes, TypeOK
    <3>. QED BY <3>1, <3>2, <3>3, <3>4 DEF Next
  <2>. QED BY <2>1 DEF WorkerHashes, ControllerInv, SnapshotInv
<1>. QED BY TypeCorrect, ControllerCorrect, <1>1, PTL DEF Spec, ChunksOnCurrentJob

(* While calls come one at a time, the client is never replaced or destroyed *)
(* while a worker is inside its submitShare(), though no lock says so.      *)
THEOREM PoolCorrect == Spec /\ []OneCallAtATime => PoolOutlivesSubmit
<1>1. TypeOK /\ OneCallAtATime /\ OneCallAtATime' /\ ControllerInv /\ [Next]_vars =>
        [pool' # pool => \A t \in Threads : wpc[t] # "submit"]_vars
  <2>. SUFFICES ASSUME TypeOK, OneCallAtATime, OneCallAtATime', ControllerInv, [Next]_vars,
                       pool' # pool
                PROVE  \A t \in Threads : wpc[t] # "submit"
    OBVIOUS
  <2>. USE DEF flags, stats, jobVars, wVars, vars
  <2>1. PICK c \in Callers : Calls(c) \/ Runs(c)
    BY DEF Next, Callback, OnJob, OnDifficulty, OnPoolLost, Worker, WorkerExits,
        WorkerSnapshots, WorkerBuilds, WorkerAbandons, WorkerHashes, WorkerFindsNothing,
        WorkerFinds, WorkerSubmits, WorkerFails, WorkerQuits
  <2>2. ctl[c] \in WorkersGone \/ StopIdle(c)
    BY <2>1 DEF Calls, Runs, Advance, Starting, Stopping, StartRefused, StartBegins,
        StopBegins, UpdateBegins, UpdateRefused, StartResets, StartCreatesPool,
        StartConnects, StartFails, StartFindsNone, StartRuns, StartSpawns, StopDiscards,
        StopFlags, StopJoins, StopTearsDown, StopDismantles, StopFinishes, UpdateApplies,
        Collides, Moves, At, WorkersGone
  <2>3. CASE ctl[c] \in WorkersGone
    BY <2>3 DEF ControllerInv, PlaceInv, WorkerInv, Alive
  <2>4. CASE StopIdle(c)
    <3>1. \A d \in Callers : ctl[d] = "idle"
      BY <2>4, Alone DEF StopIdle
    <3>2. Alive = {}
      BY <2>4, <3>1 DEF StopIdle, ControllerInv, RestInv, AtRest, At
    <3>. QED BY <3>2 DEF ControllerInv, WorkerInv, Alive
  <2>. QED BY <2>2, <2>3, <2>4
<1>. QED BY TypeCorrect, ControllerCorrect, InvSubmit, <1>1, PTL
         DEF Spec, PoolOutlivesSubmit

(* All of it holds without a condition when one thread makes all the calls. *)
THEOREM SingleCallerCorrect ==
    ASSUME NEW c, Callers = {c}
    PROVE  /\ Spec => [](NoHashingAtRest /\ StoppedIsClean)
           /\ Spec => ChunksOnCurrentJob /\ PoolOutlivesSubmit
<1>1. Spec => []OneCallAtATime
  <2>1. Init => OneCallAtATime
    BY DEF OneCallAtATime
  <2>2. OneCallAtATime'
    BY DEF OneCallAtATime
  <2>. QED BY <2>1, <2>2, PTL DEF Spec
<1>. QED BY <1>1, NoHashingCorrect, StoppedCorrect, ChunksCorrect, PoolCorrect, PTL

-----------------------------------------------------------------------------
(* No worker has failed and is about to say so.                             *)
NoFailure == \A t \in Threads : wpc[t] # "failed"

(* As long as no worker fails, none is left behind unjoined.                *)
JoinedInv ==
    /\ AtRest /\ ~running => workers = {}
    /\ \A c \in Callers : ctl[c] \in WorkersGone => workers = {}

(* It holds at first, ...                                                   *)
LEMMA JoinedInit == Init => JoinedInv
BY DEF Init, JoinedInv

(* ... every step of a call keeps it, ...                                   *)
LEMMA CallJoins ==
    ASSUME TypeOK, OneCallAtATime, OneCallAtATime', ControllerInv, JoinedInv,
           NEW c \in Callers,
           StartResets(c) \/ StartCreatesPool(c) \/ StartConnects(c) \/ StartRuns(c) \/
             StartSpawns(c) \/ StopDiscards(c) \/ StopFlags(c) \/ StopJoins(c) \/
             StopTearsDown(c) \/ StopDismantles(c) \/ StopFinishes(c) \/ UpdateApplies(c) \/
             StartBegins(c) \/ StopIdle(c) \/ StopBegins(c) \/ UpdateBegins(c)
    PROVE  JoinedInv'
<1>. USE DEF flags, stats, jobVars, wVars, JoinedInv, AtRest, At, WorkersGone
<1>1. ASSUME StartResets(c) PROVE JoinedInv'
  <2>1. /\ ctl[c] = "reset" /\ ctl'[c] = "create"
        /\ \A d \in Callers \ {c} : ctl[d] = "idle" /\ ctl'[d] = "idle"
    BY <1>1, Alone DEF StartResets
  <2>. QED BY <1>1, <2>1 DEF StartResets
<1>2. ASSUME StartCreatesPool(c) PROVE JoinedInv'
  <2>1. /\ ctl[c] = "create" /\ ctl'[c] = "connect"
        /\ \A d \in Callers \ {c} : ctl[d] = "idle" /\ ctl'[d] = "idle"
    BY <1>2, Alone DEF StartCreatesPool
  <2>. QED BY <1>2, <2>1 DEF StartCreatesPool
<1>3. ASSUME StartConnects(c) PROVE JoinedInv'
  <2>1. /\ ctl[c] = "connect" /\ ctl'[c] = "run"
        /\ \A d \in Callers \ {c} : ctl[d] = "idle" /\ ctl'[d] = "idle"
    BY <1>3, Alone DEF StartConnects
  <2>. QED BY <1>3, <2>1 DEF StartConnects
<1>4. ASSUME StartRuns(c) PROVE JoinedInv'
  <2>1. /\ ctl[c] = "run" /\ ctl'[c] = "spawn"
        /\ \A d \in Callers \ {c} : ctl[d] = "idle" /\ ctl'[d] = "idle"
    BY <1>4, Alone DEF StartRuns
  <2>. QED BY <1>4, <2>1 DEF StartRuns
<1>5. ASSUME StartSpawns(c) PROVE JoinedInv'
  <2>1. /\ ctl[c] = "spawn" /\ ctl'[c] = "idle"
        /\ \A d \in Callers \ {c} : ctl[d] = "idle" /\ ctl'[d] = "idle"
    BY <1>5, Alone DEF StartSpawns
  <2>2. running
    BY <2>1 DEF ControllerInv, PlaceInv
  <2>. QED BY <1>5, <2>1, <2>2 DEF StartSpawns
<1>6. ASSUME StopDiscards(c) PROVE JoinedInv'
  <2>1. /\ ctl[c] = "discard" /\ ctl'[c] = "idle"
        /\ \A d \in Callers \ {c} : ctl[d] = "idle" /\ ctl'[d] = "idle"
    BY <1>6, Alone DEF StopDiscards
  <2>. QED BY <1>6, <2>1 DEF StopDiscards
<1>7. ASSUME StopFlags(c) PROVE JoinedInv'
  <2>1. /\ ctl[c] = "stopping" /\ ctl'[c] = "join"
        /\ \A d \in Callers \ {c} : ctl[d] = "idle" /\ ctl'[d] = "idle"
    BY <1>7, Alone DEF StopFlags
  <2>. QED BY <1>7, <2>1 DEF StopFlags
<1>8. ASSUME StopJoins(c) PROVE JoinedInv'
  <2>1. /\ ctl[c] = "join" /\ ctl'[c] = "teardown"
        /\ \A d \in Callers \ {c} : ctl[d] = "idle" /\ ctl'[d] = "idle"
    BY <1>8, Alone DEF StopJoins
  <2>. QED BY <1>8, <2>1 DEF StopJoins
<1>9. ASSUME StopTearsDown(c) PROVE JoinedInv'
  <2>1. /\ ctl[c] = "teardown" /\ ctl'[c] = "dismantle"
        /\ \A d \in Callers \ {c} : ctl[d] = "idle" /\ ctl'[d] = "idle"
    BY <1>9, Alone DEF StopTearsDown
  <2>. QED BY <1>9, <2>1 DEF StopTearsDown
<1>10. ASSUME StopDismantles(c) PROVE JoinedInv'
  <2>1. /\ ctl[c] = "dismantle" /\ ctl'[c] = "finish"
        /\ \A d \in Callers \ {c} : ctl[d] = "idle" /\ ctl'[d] = "idle"
    BY <1>10, Alone DEF StopDismantles
  <2>. QED BY <1>10, <2>1 DEF StopDismantles
<1>11. ASSUME StopFinishes(c) PROVE JoinedInv'
  <2>1. /\ ctl[c] = "finish" /\ ctl'[c] = "idle"
        /\ \A d \in Callers \ {c} : ctl[d] = "idle" /\ ctl'[d] = "idle"
    BY <1>11, Alone DEF StopFinishes
  <2>. QED BY <1>11, <2>1 DEF StopFinishes
<1>12. ASSUME UpdateApplies(c) PROVE JoinedInv'
  <2>1. /\ ctl[c] = "update" /\ ctl'[c] = "idle"
        /\ \A d \in Callers \ {c} : ctl[d] = "idle" /\ ctl'[d] = "idle"
    BY <1>12, Alone DEF UpdateApplies
  <2>. QED BY <1>12, <2>1 DEF UpdateApplies
<1>13. ASSUME StartBegins(c) PROVE JoinedInv'
  <2>1. /\ ctl[c] = "idle" /\ ctl'[c] = "reset"
        /\ \A d \in Callers \ {c} : ctl[d] = "idle" /\ ctl'[d] = "idle"
    BY <1>13, Alone DEF StartBegins
  <2>. QED BY <1>13, <2>1 DEF StartBegins
<1>14. ASSUME StopIdle(c) PROVE JoinedInv'
  <2>1. /\ ctl[c] = "idle" /\ ctl'[c] = "discard"
        /\ \A d \in Callers \ {c} : ctl[d] = "idle" /\ ctl'[d] = "idle"
    BY <1>14, Alone DEF StopIdle
  <2>. QED BY <1>14, <2>1 DEF StopIdle
<1>15. ASSUME StopBegins(c) PROVE JoinedInv'
  <2>1. /\ ctl[c] = "idle" /\ ctl'[c] = "stopping"
        /\ \A d \in Callers \ {c} : ctl[d] = "idle" /\ ctl'[d] = "idle"
    BY <1>15, Alone DEF StopBegins
  <2>. QED BY <1>15, <2>1 DEF StopBegins
<1>16. ASSUME UpdateBegins(c) PROVE JoinedInv'
  <2>1. /\ ctl[c] = "idle" /\ ctl'[c] = "update"
        /\ \A d \in Callers \ {c} : ctl[d] = "idle" /\ ctl'[d] = "idle"
    BY <1>16, Alone DEF UpdateBegins
  <2>. QED BY <1>16, <2>1 DEF UpdateBegins
<1>. QED BY <1>1, <1>2, <1>3, <1>4, <1>5, <1>6, <1>7, <1>8, <1>9, <1>10, <1>11, <1>12, <1>13,
            <1>14, <1>15, <1>16

(* ... and so does every other step, except a failed worker's last one.     *)
LEMMA JoinedStep ==
    ASSUME NoFailure, TypeOK, OneCallAtATime, OneCallAtATime', ControllerInv, JoinedInv,
           [Next]_vars
    PROVE  JoinedInv'
<1>. USE DEF flags, stats, jobVars, wVars
<1>1. CASE UNCHANGED vars
  BY <1>1 DEF vars, JoinedInv, AtRest, At
<1>2. CASE Callback
  BY <1>2 DEF Callback, OnJob, OnDifficulty, OnPoolLost, JoinedInv, AtRest, At
<1>3. CASE \E t \in Threads : Worker(t)
  <2>1. ~\E t \in Threads : WorkerQuits(t)
    BY DEF WorkerQuits, NoFailure
  <2>2. UNCHANGED <<ctl, running, workers>>
    BY <1>3, <2>1 DEF Worker, WorkerExits, WorkerSnapshots, WorkerBuilds, WorkerAbandons,
        WorkerHashes, WorkerFindsNothing, WorkerFinds, WorkerSubmits, WorkerFails
  <2>. QED BY <2>2 DEF JoinedInv, AtRest, At
<1>4. ASSUME NEW c \in Callers, Calls(c) \/ Runs(c) PROVE JoinedInv'
  <2>1. CASE StartRefused(c) \/ UpdateRefused(c)
    BY <2>1 DEF StartRefused, UpdateRefused, vars, JoinedInv, AtRest, At
  <2>. QED BY <1>4, <2>1, NoCollision, CallJoins
           DEF Calls, Runs, Advance, Starting, Stopping
<1>. QED BY <1>1, <1>2, <1>3, <1>4 DEF Next

(* Only updateConfig() changes the configuration.                           *)
LEMMA ConfigMoves ==
    ASSUME [Next]_vars, config' # config
    PROVE  \E c \in Callers : Up /\ UpdateApplies(c)
BY DEF Next, Callback, OnJob, OnDifficulty, OnPoolLost, Worker, WorkerExits,
    WorkerSnapshots, WorkerBuilds, WorkerAbandons, WorkerHashes, WorkerFindsNothing,
    WorkerFinds, WorkerSubmits, WorkerFails, WorkerQuits, Calls, Runs, Advance,
    Starting, Stopping, StartRefused, StartBegins, StopIdle, StopBegins, UpdateBegins,
    UpdateRefused, StartResets, StartCreatesPool, StartConnects, StartFails,
    StartFindsNone, StartRuns, StartSpawns, StopDiscards, StopFlags, StopJoins,
    StopTearsDown, StopDismantles, StopFinishes, Collides, vars

(* While calls come one at a time and no worker fails, the configuration    *)
(* never changes under a live connection.                                   *)
THEOREM ConfigFrozenCorrect ==
    Spec /\ []OneCallAtATime /\ []NoFailure => ConfigFrozenWhileConnected
<1>1. Spec /\ []OneCallAtATime /\ []NoFailure => []JoinedInv
  BY JoinedInit, JoinedStep, TypeCorrect, ControllerCorrect, PTL DEF Spec
<1>2. TypeOK /\ ControllerInv /\ JoinedInv /\ [Next]_vars
        => [config' # config => pool # "live"]_vars
  <2>. SUFFICES ASSUME TypeOK, ControllerInv, JoinedInv, [Next]_vars, config' # config
                PROVE  pool # "live"
    OBVIOUS
  <2>1. PICK c \in Callers : UpdateApplies(c)
    BY ConfigMoves
  <2>. QED BY <2>1 DEF UpdateApplies, Moves, At, ControllerInv, PlaceInv, JoinedInv, WorkersGone
<1>. QED BY TypeCorrect, ControllerCorrect, <1>1, <1>2, PTL
         DEF Spec, ConfigFrozenWhileConnected

(* Only the CUDA backend can fail.                                          *)
CpuInv == ~useCuda /\ NoFailure

(* A step of a build without CUDA takes no GPU and fails no worker, however *)
(* calls overlap.                                                           *)
LEMMA CpuStep ==
    ASSUME ~CudaCompiled, TypeOK, CpuInv, [Next]_vars
    PROVE  CpuInv'
<1>. USE DEF CpuInv, NoFailure, flags, stats
<1>1. CASE UNCHANGED vars
  BY <1>1 DEF vars
<1>2. CASE Callback
  BY <1>2 DEF Callback, OnJob, OnDifficulty, OnPoolLost
<1>3. CASE \E t \in Threads : Worker(t)
  BY <1>3 DEF Worker, WorkerExits, WorkerSnapshots, WorkerBuilds, WorkerAbandons,
      WorkerHashes, WorkerFindsNothing, WorkerFinds, WorkerSubmits, WorkerFails,
      WorkerQuits, Goes, TypeOK
<1>4. ASSUME NEW c \in Callers, Calls(c) \/ Runs(c) PROVE CpuInv'
  <2>1. CASE StartResets(c)
    <3>1. useCuda' \in {FALSE, CudaCompiled} /\ wpc' = wpc
      BY <2>1 DEF StartResets
    <3>2. useCuda' = FALSE
      BY <3>1, CudaAssumption
    <3>. QED BY <3>1, <3>2
  <2>2. CASE ~StartResets(c)
    <3>1. useCuda' = useCuda
      BY <1>4, <2>2 DEF Calls, Runs, Advance, Starting, Stopping, StartRefused, StartBegins,
          StopIdle, StopBegins, UpdateBegins, UpdateRefused, StartCreatesPool,
          StartConnects, StartFails, StartFindsNone, StartRuns, StartSpawns, StopDiscards,
          StopFlags, StopJoins, StopTearsDown, StopDismantles, StopFinishes,
          UpdateApplies, Collides, vars
    <3>2. \A t \in Threads : wpc'[t] # "failed"
      BY <1>4, <2>2 DEF Calls, Runs, Advance, Starting, Stopping, StartRefused, StartBegins,
          StopIdle, StopBegins, UpdateBegins, UpdateRefused, StartCreatesPool,
          StartConnects, StartFails, StartFindsNone, StartRuns, StartSpawns, StopDiscards,
          StopFlags, StopJoins, StopTearsDown, StopDismantles, StopFinishes,
          UpdateApplies, Collides, vars
    <3>. QED BY <3>1, <3>2
  <2>. QED BY <2>1, <2>2
<1>. QED BY <1>1, <1>2, <1>3, <1>4 DEF Next

(* At first there is neither.                                               *)
LEMMA CpuInit == Init => CpuInv
BY DEF Init, CpuInv, NoFailure

(* In a build without CUDA no worker ever fails, so the configuration is    *)
(* frozen under a live connection as long as calls come one at a time.      *)
THEOREM ConfigFrozenOnCpu ==
    ASSUME ~CudaCompiled
    PROVE  Spec /\ []OneCallAtATime => ConfigFrozenWhileConnected
<1>1. CpuInv => NoFailure
  BY DEF CpuInv
<1>. QED BY <1>1, CpuInit, CpuStep, TypeCorrect, ConfigFrozenCorrect, PTL DEF Spec

=============================================================================
