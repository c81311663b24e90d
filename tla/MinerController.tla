-------------------------- MODULE MinerController --------------------------
(***************************************************************************)
(* The MinerController of src/src/mining/miner.cpp: start(), stop() and     *)
(* updateConfig() as the threads in Callers call them, the worker threads   *)
(* in workerLoop(), and the callbacks that the pool client's thread makes.  *)
(*                                                                          *)
(* Abstractions.  A job is its version: onJob() and an effective            *)
(* onDifficulty() make a new one, so two snapshots of the job are equal     *)
(* exactly when job and difficulty are.  Hashing a chunk is one step with   *)
(* any of the results that the backend can return.  The pool client is      *)
(* there, and connected or not, as StratumClient tells.                     *)
(***************************************************************************)
EXTENDS Integers, FiniteSets

CONSTANTS Callers,        \* the threads that call start(), stop(), updateConfig()
          Threads,        \* handles that workers_ can hold at a time (bound)
          CpuThreads,     \* config.miner.cpuThreads
          CudaCompiled,   \* compiledWithCuda()
          Configs,        \* pool configurations that updateConfig() may set
          Unconfigured,   \* those of them without host, port or user name
          Unworkable,     \* versions of which buildWork() makes no valid work
          MaxGeneration,  \* bound: changes of the job in one run
          MaxVersion      \* bound: jobs and difficulties ever received

ASSUME ThreadsAssumption == IsFiniteSet(Threads)
ASSUME CountsAssumption ==
    CpuThreads \in Int /\ MaxGeneration \in Nat /\ MaxVersion \in Nat
ASSUME CudaAssumption == CudaCompiled \in BOOLEAN
ASSUME ConfigsAssumption == Configs # {} /\ Unconfigured \subseteq Configs

VARIABLES
    ctl,            \* where each calling thread is
    running, stopFlag, miningState, sessionActive, useCuda,
    config,         \* config_
    pool,           \* pool_: none, constructed, or with its thread running
    workers,        \* workers_: the handles not yet joined
    wpc,            \* where each worker thread is
    work, workGen,  \* the job version and generation a worker snapshot
    hasJob, version, generation

flags   == <<running, stopFlag, useCuda>>
stats   == <<miningState, sessionActive>>
jobVars == <<hasJob, version, generation>>
wVars   == <<work, workGen>>
vars    == <<ctl, flags, stats, config, pool, workers, wpc, wVars, jobVars>>

MiningStates == {"Stopped", "Starting", "Running", "Stopping", "Error"}

Init ==
    /\ ctl = [c \in Callers |-> "idle"]
    /\ running = FALSE /\ stopFlag = TRUE /\ useCuda = FALSE
    /\ miningState = "Stopped" /\ sessionActive = FALSE
    /\ config \in Configs
    /\ pool = "none" /\ workers = {}
    /\ wpc = [t \in Threads |-> "none"]
    /\ work = [t \in Threads |-> 0] /\ workGen = [t \in Threads |-> 0]
    /\ hasJob = FALSE /\ version = 0 /\ generation = 0

At(c, place)        == ctl[c] = place
Moves(c, from, to)  == At(c, from) /\ ctl' = [ctl EXCEPT ![c] = to]

(* The process lives until one of its threads meets undefined behaviour or   *)
(* a fatal signal.                                                          *)
Up == \A c \in Callers : ctl[c] \notin {"crashed", "killed"}

(* When the client's thread ends, its last callback says Disconnected, which *)
(* drops the job.                                                           *)
DropsJobOfLive ==
    IF pool = "live"
      THEN hasJob' = FALSE /\ generation' = generation + 1
      ELSE UNCHANGED <<hasJob, generation>>

StopsClient == DropsJobOfLive /\ pool' = IF pool = "none" THEN "none" ELSE "created"

(* Wrong form: the client is stopped and kept.                              *)
ResetPoolKeeps == DropsJobOfLive /\ UNCHANGED pool

ResetPool == DropsJobOfLive /\ pool' = "none"

(* One worker drives the GPU; cpuThreads workers, possibly none, the CPU.   *)
WorkerCount(cuda) == IF cuda THEN 1 ELSE IF CpuThreads <= 0 THEN 0 ELSE CpuThreads

-----------------------------------------------------------------------------
(* start()                                                                  *)

StartRefused(c) ==
    /\ At(c, "idle") /\ (running \/ config \in Unconfigured)
    /\ miningState' = IF running THEN miningState ELSE "Stopped"
    /\ UNCHANGED <<ctl, flags, sessionActive, config, pool, workers, wpc, wVars, jobVars>>

StartBegins(c) ==
    /\ Moves(c, "idle", "reset") /\ ~running /\ config \notin Unconfigured
    /\ \A cuda \in {FALSE, CudaCompiled} :  \* bound
         Cardinality(Threads \ workers) >= WorkerCount(cuda)
    /\ miningState' = "Starting" /\ sessionActive' = TRUE
    /\ UNCHANGED <<flags, config, pool, workers, wpc, wVars, jobVars>>

(* CUDA is used if a device answers this time.                              *)
StartResets(c) ==
    /\ Moves(c, "reset", "create")
    /\ useCuda' \in {FALSE, CudaCompiled}
    /\ hasJob' = FALSE /\ generation' = 0
    /\ UNCHANGED <<running, stopFlag, stats, config, pool, workers, wpc, wVars, version>>

(* Assigning pool_ destroys, and so stops, a client that is still there.    *)
StartCreatesPool(c) ==
    /\ Moves(c, "create", "connect")
    /\ DropsJobOfLive /\ pool' = "created"
    /\ UNCHANGED <<flags, stats, config, workers, wpc, wVars, version>>

StartConnects(c) ==
    /\ Moves(c, "connect", "run") /\ pool = "created"
    /\ pool' = "live"
    /\ UNCHANGED <<flags, stats, config, workers, wpc, wVars, jobVars>>

(* Another caller's start() has connected the client: pool_->start() fails. *)
StartFails(c) ==
    /\ Moves(c, "connect", "idle") /\ pool = "live"
    /\ ResetPool
    /\ miningState' = "Error" /\ sessionActive' = FALSE
    /\ UNCHANGED <<flags, config, workers, wpc, wVars, version>>

(* Another caller has torn the client down: pool_ is null.                  *)
StartFindsNone(c) ==
    /\ Moves(c, "connect", "crashed") /\ pool = "none"
    /\ UNCHANGED <<flags, stats, config, pool, workers, wpc, wVars, jobVars>>

StartRuns(c) ==
    /\ Moves(c, "run", "spawn")
    /\ stopFlag' = FALSE /\ running' = TRUE /\ miningState' = "Running"
    /\ UNCHANGED <<useCuda, sessionActive, config, pool, workers, wpc, wVars, jobVars>>

(* Handles left over from an earlier run stay in workers_.  The threads are *)
(* started in one step: what the first ones can see of the loop is the size *)
(* of workers_, which gives them their first nonce.                         *)
StartSpawns(c) ==
    /\ Moves(c, "spawn", "idle")
    /\ \E n \in SUBSET (Threads \ workers) :
         /\ Cardinality(n) = WorkerCount(useCuda)
         /\ workers' = workers \cup n
         /\ wpc' = [t \in Threads |-> IF t \in n THEN "top" ELSE wpc[t]]
    /\ UNCHANGED <<flags, stats, config, pool, wVars, jobVars>>

-----------------------------------------------------------------------------
(* stop() and updateConfig()                                                *)

(* Not running: a client that is there all the same is stopped ...          *)
StopIdle(c) ==
    /\ Moves(c, "idle", "discard") /\ ~running
    /\ StopsClient
    /\ UNCHANGED <<flags, stats, config, workers, wpc, wVars, version>>

(* ... and destroyed.                                                       *)
StopDiscards(c) ==
    /\ Moves(c, "discard", "idle")
    /\ ResetPool
    /\ miningState' = "Stopped"
    /\ UNCHANGED <<flags, sessionActive, config, workers, wpc, wVars, version>>

StopBegins(c) ==
    /\ Moves(c, "idle", "stopping") /\ running
    /\ running' = FALSE
    /\ UNCHANGED <<stopFlag, useCuda, stats, config, pool, workers, wpc, wVars, jobVars>>

StopFlags(c) ==
    /\ Moves(c, "stopping", "join")
    /\ miningState' = "Stopping" /\ stopFlag' = TRUE
    /\ UNCHANGED <<running, useCuda, sessionActive, config, pool, workers, wpc, wVars, jobVars>>

(* Wrong form: the workers are not waited for.                              *)
StopJoinsNone(c) ==
    /\ Moves(c, "join", "teardown")
    /\ UNCHANGED <<flags, stats, config, pool, workers, wpc, wVars, jobVars>>

StopJoins(c) ==
    /\ Moves(c, "join", "teardown") /\ \A t \in workers : wpc[t] = "returned"
    /\ workers' = {}
    /\ wpc' = [t \in Threads |-> IF t \in workers THEN "none" ELSE wpc[t]]
    /\ UNCHANGED <<flags, stats, config, pool, wVars, jobVars>>

StopTearsDown(c) ==
    /\ Moves(c, "teardown", "dismantle")
    /\ StopsClient
    /\ UNCHANGED <<flags, stats, config, workers, wpc, wVars, version>>

StopDismantles(c) ==
    /\ Moves(c, "dismantle", "finish")
    /\ ResetPool
    /\ UNCHANGED <<flags, stats, config, workers, wpc, wVars, version>>

StopFinishes(c) ==
    /\ Moves(c, "finish", "idle")
    /\ hasJob' = FALSE /\ sessionActive' = FALSE /\ miningState' = "Stopped"
    /\ UNCHANGED <<flags, config, pool, workers, wpc, wVars, version, generation>>

(* updateConfig() tests running_ before it takes the lock.                  *)
UpdateBegins(c) ==
    /\ Moves(c, "idle", "update") /\ ~running
    /\ UNCHANGED <<flags, stats, config, pool, workers, wpc, wVars, jobVars>>

UpdateApplies(c) ==
    /\ Moves(c, "update", "idle")
    /\ config' \in Configs
    /\ UNCHANGED <<flags, stats, pool, workers, wpc, wVars, jobVars>>

UpdateRefused(c) == At(c, "idle") /\ running /\ UNCHANGED vars

-----------------------------------------------------------------------------
(* Undefined behaviour, when one caller destroys the client while another is *)
(* inside its stop(), or both touch the vector of workers.  Whatever else    *)
(* these steps do is a possible outcome; so is the end of the process.       *)
Races(c, d) ==
    \/ /\ pool # "none"
       /\ ctl[c] \in {"create", "discard", "dismantle"}
       /\ ctl[d] \in {"discard", "dismantle"}
    \/ At(c, "join") /\ ctl[d] \in {"spawn", "join"}

Collides(c) ==
    /\ \E d \in Callers \ {c} : Races(c, d)
    /\ ctl' = [ctl EXCEPT ![c] = "crashed"]
    /\ UNCHANGED <<flags, stats, config, pool, workers, wpc, wVars, jobVars>>

-----------------------------------------------------------------------------
(* The callbacks, made by the pool client's thread while it runs.           *)

OnJob ==
    /\ pool = "live" /\ generation < MaxGeneration /\ version < MaxVersion
    /\ hasJob' = TRUE /\ version' = version + 1 /\ generation' = generation + 1
    /\ UNCHANGED <<ctl, flags, stats, config, pool, workers, wpc, wVars>>

(* Wrong form: the generation stays.                                        *)
OnDifficultyQuiet ==
    /\ pool = "live" /\ generation < MaxGeneration /\ version < MaxVersion
    /\ hasJob /\ version' = version + 1
    /\ UNCHANGED <<ctl, flags, stats, config, pool, workers, wpc, wVars, hasJob,
                   generation>>

OnDifficulty ==
    /\ pool = "live" /\ generation < MaxGeneration /\ version < MaxVersion
    /\ hasJob /\ version' = version + 1 /\ generation' = generation + 1
    /\ (version' \in Unworkable) = (version \in Unworkable)
    /\ UNCHANGED <<ctl, flags, stats, config, pool, workers, wpc, wVars, hasJob>>

(* onPoolState() with Disconnected or Error.                                *)
OnPoolLost ==
    /\ pool = "live" /\ generation < MaxGeneration
    /\ hasJob' = FALSE /\ generation' = generation + 1
    /\ UNCHANGED <<ctl, flags, stats, config, pool, workers, wpc, wVars, version>>

-----------------------------------------------------------------------------
(* workerLoop()                                                             *)

Goes(t, to)  == wpc' = [wpc EXCEPT ![t] = to]

(* Wrong form: the worker looks at the state that is shown.                 *)
MayRunByState == miningState # "Stopped"

MayRun       == running /\ ~stopFlag

WorkerExits(t) ==
    /\ wpc[t] = "top" /\ ~MayRun
    /\ Goes(t, "returned")
    /\ UNCHANGED <<ctl, flags, stats, config, pool, workers, wVars, jobVars>>

(* Wrong form: the snapshot leaves the generation out.                      *)
WorkerSnapshotsJob(t) ==
    /\ wpc[t] = "top" /\ MayRun /\ hasJob
    /\ work' = [work EXCEPT ![t] = version]
    /\ Goes(t, "build")
    /\ UNCHANGED <<ctl, flags, stats, config, pool, workers, workGen, jobVars>>

WorkerSnapshots(t) ==
    /\ wpc[t] = "top" /\ MayRun /\ hasJob
    /\ work' = [work EXCEPT ![t] = version]
    /\ workGen' = [workGen EXCEPT ![t] = generation]
    /\ Goes(t, "build")
    /\ UNCHANGED <<ctl, flags, stats, config, pool, workers, jobVars>>

(* A job with no valid work is tried again, later.                          *)
WorkerBuilds(t) ==
    /\ wpc[t] = "build"
    /\ Goes(t, IF work[t] \in Unworkable THEN "top" ELSE "range")
    /\ UNCHANGED <<ctl, flags, stats, config, pool, workers, wVars, jobVars>>

(* Before each chunk: still running, and still the same generation?         *)
WorkerAbandons(t) ==
    /\ wpc[t] = "range"
    /\ ~MayRun \/ ~hasJob \/ generation # workGen[t]
    /\ Goes(t, "top")
    /\ UNCHANGED <<ctl, flags, stats, config, pool, workers, wVars, jobVars>>

(* The tests and the chunk they let begin are one step, at the moment of    *)
(* the second one; what happens next happens while the chunk is hashed.     *)
WorkerHashes(t) ==
    /\ wpc[t] = "range" /\ MayRun /\ hasJob /\ generation = workGen[t]
    /\ Goes(t, "hash")
    /\ UNCHANGED <<ctl, flags, stats, config, pool, workers, wVars, jobVars>>

(* Nothing found, or nothing that the CPU confirms: on to the next chunk,   *)
(* or to new work when the range is used up.                                *)
WorkerFindsNothing(t) ==
    /\ wpc[t] = "hash"
    /\ \E to \in {"range", "top"} : Goes(t, to)
    /\ UNCHANGED <<ctl, flags, stats, config, pool, workers, wVars, jobVars>>

WorkerFinds(t) ==
    /\ wpc[t] = "hash"
    /\ Goes(t, "submit")
    /\ UNCHANGED <<ctl, flags, stats, config, pool, workers, wVars, jobVars>>

(* submitShare() on pool_, which counts the share stale or queues it.       *)
WorkerSubmits(t) ==
    /\ wpc[t] = "submit"
    /\ \E to \in {"range", "top"} : Goes(t, to)
    /\ UNCHANGED <<ctl, flags, stats, config, pool, workers, wVars, jobVars>>

(* Only the CUDA backend fails: first the state says so, ...                *)
WorkerFails(t) ==
    /\ wpc[t] = "hash" /\ useCuda
    /\ Goes(t, "failed")
    /\ miningState' = "Error"
    /\ UNCHANGED <<ctl, flags, sessionActive, config, pool, workers, wVars, jobVars>>

(* ... then mining no longer runs, with the client and the session left up. *)
WorkerQuits(t) ==
    /\ wpc[t] = "failed"
    /\ Goes(t, "returned")
    /\ running' = FALSE
    /\ UNCHANGED <<ctl, stopFlag, useCuda, stats, config, pool, workers, wVars, jobVars>>

-----------------------------------------------------------------------------
Starting(c) == \/ StartResets(c) \/ StartCreatesPool(c) \/ StartConnects(c)
               \/ StartFails(c) \/ StartFindsNone(c) \/ StartRuns(c) \/ StartSpawns(c)
Stopping(c) == \/ StopDiscards(c) \/ StopFlags(c) \/ StopJoins(c) \/ StopTearsDown(c)
               \/ StopDismantles(c) \/ StopFinishes(c)
Advance(c)  == Starting(c) \/ Stopping(c) \/ UpdateApplies(c)
Runs(c)     == Up /\ (Advance(c) \/ Collides(c))
Calls(c)    == Up /\ \/ StartRefused(c) \/ StartBegins(c) \/ StopIdle(c)
                     \/ StopBegins(c) \/ UpdateBegins(c) \/ UpdateRefused(c)
Callback    == Up /\ (OnJob \/ OnDifficulty \/ OnPoolLost)
Worker(t)   == Up /\ \/ WorkerExits(t) \/ WorkerSnapshots(t) \/ WorkerBuilds(t)
                     \/ WorkerAbandons(t) \/ WorkerHashes(t) \/ WorkerFindsNothing(t)
                     \/ WorkerFinds(t) \/ WorkerSubmits(t) \/ WorkerFails(t)
                     \/ WorkerQuits(t)

Next ==
    \/ \E c \in Callers : Calls(c) \/ Runs(c)
    \/ Callback
    \/ \E t \in Threads : Worker(t)

Spec == Init /\ [][Next]_vars

(* A call that has begun runs on, and so does every worker: a chunk ends,   *)
(* a sleep ends.  Nobody has to call, and the pool need not say anything.   *)
Fairness ==
    /\ \A c \in Callers : WF_vars(Up /\ Advance(c))
    /\ \A t \in Threads : WF_vars(Worker(t))
FairSpec == Spec /\ Fairness

-----------------------------------------------------------------------------
(* Every variable has its type.                                             *)
TypeOK ==
    /\ ctl \in [Callers -> {"idle", "reset", "create", "connect", "run", "spawn",
                            "update", "discard", "stopping", "join", "teardown", "dismantle",
                            "finish", "crashed", "killed"}]
    /\ running \in BOOLEAN /\ stopFlag \in BOOLEAN /\ useCuda \in BOOLEAN
    /\ miningState \in MiningStates /\ sessionActive \in BOOLEAN
    /\ config \in Configs
    /\ pool \in {"none", "created", "live"}
    /\ workers \in SUBSET Threads
    /\ wpc \in [Threads -> {"none", "top", "build", "range", "hash", "submit",
                            "failed", "returned"}]
    /\ work \in [Threads -> Nat] /\ workGen \in [Threads -> Nat]
    /\ hasJob \in BOOLEAN /\ version \in Nat /\ generation \in Nat

(* "Abandon the range as soon as the pool sends new work": no chunk is      *)
(* begun on a job or difficulty other than the current one, although the    *)
(* worker compares generations, which start() sets back to zero.            *)
ChunksOnCurrentJob ==
    [][\A t \in Threads : wpc[t] # "hash" /\ wpc'[t] = "hash"
                            => hasJob /\ work[t] = version]_vars

(* pool_ is replaced and destroyed without a lock: no worker is ever inside *)
(* submitShare() of it when that happens, or finds no client there.         *)
PoolOutlivesSubmit ==
    /\ [][pool' # pool => \A t \in Threads : wpc[t] # "submit"]_vars
    /\ [](\A t \in Threads : wpc[t] = "submit" => pool = "live")

AtRest == \A c \in Callers : At(c, "idle")
Alive  == {t \in workers : wpc[t] # "returned"}

(* When the miner is at rest in Stopped, all of it is: no client, no job, no *)
(* session.  The exception is a CUDA worker that failed: its handle stays   *)
(* with its session, and a refused start() then shows Stopped over a client *)
(* that is still connected.                                                 *)
StoppedIsClean ==
    AtRest /\ miningState = "Stopped" /\ workers = {} =>
        ~running /\ pool = "none" /\ ~hasJob /\ ~sessionActive

(* No worker is hashing in a miner that says it is stopped or starting.     *)
NoHashingAtRest ==
    miningState \in {"Stopped", "Starting"} => Alive = {}

(* stop() returns: every worker notices.                                    *)
StopReturns == \A c \in Callers : At(c, "stopping") ~> At(c, "idle")

(* A job that stays current is worked on, unless mining stops.              *)
JobIsWorked ==
    (running /\ hasJob /\ version \notin Unworkable /\ AtRest /\ workers # {})
      ~> (\/ ~running \/ ~hasJob \/ version \in Unworkable
          \/ \E t \in Threads : wpc[t] = "hash")

(* The configuration does not change under a live connection                *)
(* (miner.hpp:69-70).                                                       *)
ConfigFrozenWhileConnected == [][config' # config => pool # "live"]_vars
=============================================================================
