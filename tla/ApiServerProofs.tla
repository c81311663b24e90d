-------------------------- MODULE ApiServerProofs --------------------------
(***************************************************************************)
(* Theorems about the process: main(), the server's accept thread and the   *)
(* controller that both call, for every number of workers and clients and   *)
(* whatever the clients ask.                                                *)
(***************************************************************************)
EXTENDS ApiServer, MinerControllerProofs

(* workers_ holds the threads that were started and not yet joined.         *)
HandleInv == \A t \in Threads : t \in workers <=> wpc[t] # "none"

(* The server is up until main() stops it; then its thread ends and no      *)
(* connection is left waiting.                                              *)
ListenInv ==
    /\ mpc \in {"boot", "begin", "starting", "wait", "stop", "stopping", "close"} =>
         \/ serving /\ listener = "open" /\ mpc # "boot"
         \/ ~serving /\ listener = "none" /\ apc = "none"
    /\ mpc \in {"unlisten", "await", "destroy", "destroying", "exited"} => ~serving
    /\ mpc = "await" => listener = "closed"
    /\ mpc \in {"destroy", "destroying", "exited"} =>
         listener # "open" /\ apc \in {"none", "ended"}
    /\ listener # "open" => backlog = <<>>
    /\ apc \in {"none", "top", "accept", "ended"} => conn = NoClient

(* A thread is in a call of the controller only where its own code waits    *)
(* for it.                                                                  *)
CallerInv ==
    /\ apc # "calling" => At("api", "idle")
    /\ mpc \notin {"starting", "stopping", "destroying"} => At("main", "idle")

(* After the last stop() nothing runs and there is no client.               *)
EndInv ==
    /\ mpc = "destroying" =>
         /\ ~running
         /\ ctl["main"] \in {"idle", "discard", "stopping", "join", "teardown",
                             "dismantle", "finish"}
         /\ ctl["main"] \in {"idle", "finish"} => pool = "none"
    /\ mpc = "exited" => ~running /\ pool = "none" /\ workers = {}

(* The inductive invariant of the process, whether calls overlap or not.    *)
ProcessInv == HandleInv /\ ListenInv /\ (Up => CallerInv /\ EndInv)

-----------------------------------------------------------------------------
(* Every step of the process is one of the controller's, or the end of a    *)
(* thread.                                                                  *)
LEMMA StepKinds ==
    ASSUME [NextAll]_allVars
    PROVE  [Next]_vars \/ (Up /\ AnswerKills) \/ (Up /\ MainExits)
<1>. USE CallersAssumption DEF Next, Calls, Runs
<1>1. CASE MainThread
  <2>. SUFFICES ASSUME Up, MainStep, ~MainExits PROVE [Next]_vars
    BY <1>1 DEF MainThread, Within
  <2>1. CASE MainStarts
    BY <2>1 DEF MainStarts
  <2>2. CASE MainStops \/ MainDestroys
    BY <2>2 DEF MainStops, MainDestroys, CallsStop
  <2>3. CASE \/ MainServes \/ MainServesNot \/ MainStartsNot \/ MainStarted \/ MainStopped
             \/ ServerStops \/ ServerCloses \/ ServerJoins
    BY <2>3 DEF MainServes, MainServesNot, MainStartsNot, MainStarted, MainStopped,
        ServerStops, ServerCloses, ServerJoins
  <2>. QED BY <2>1, <2>2, <2>3 DEF MainStep
<1>2. CASE AcceptThread
  <2>. SUFFICES ASSUME Up, AcceptStep, ~AnswerKills PROVE [Next]_vars
    BY <1>2 DEF AcceptThread, Within
  <2>1. CASE HandlesStart \/ HandlesStop \/ HandlesConfig
    BY <2>1 DEF HandlesStart, HandlesStop, HandlesConfig, CallsStop
  <2>2. CASE \/ AcceptTop \/ Accepts \/ AcceptAborted \/ AcceptClosed \/ Receives
             \/ ReceivesEnd \/ HandlesItself \/ CallReturns \/ Answers \/ AnswerFails
    BY <2>2 DEF AcceptTop, Accepts, AcceptAborted, AcceptClosed, Receives, ReceivesEnd,
        HandlesItself, CallReturns, Answers, AnswerFails
  <2>. QED BY <2>1, <2>2 DEF AcceptStep
<1>3. CASE (Up /\ Signal) \/ Over \/ UNCHANGED allVars
  BY <1>3 DEF Signal, Over, allVars
<1>4. CASE \E t \in Threads : WorkerThread(t)
  BY <1>4 DEF WorkerThread, Within
<1>5. CASE \E c \in Clients : Client(c)
  BY <1>5 DEF Client, ClientConnects, ClientSends, ClientHangsUp
<1>6. CASE \E c \in Callers : Up /\ Within(Collides(c))
  BY <1>6 DEF Within
<1>7. CASE Within(Callback)
  BY <1>7 DEF Within
<1>. QED BY <1>1, <1>2, <1>3, <1>4, <1>5, <1>6, <1>7 DEF NextAll

(* The controller's variables keep their types in the process.              *)
THEOREM ControllerTypes == SpecAll => []TypeOK
<1>1. InitAll => TypeOK
  BY TypeInit DEF InitAll
<1>2. TypeOK /\ [NextAll]_allVars => TypeOK'
  <2>. SUFFICES ASSUME TypeOK, [NextAll]_allVars PROVE TypeOK'
    OBVIOUS
  <2>1. CASE (Up /\ AnswerKills) \/ (Up /\ MainExits)
    BY <2>1 DEF AnswerKills, MainExits, TypeOK, MiningStates, flags, stats, jobVars, wVars
  <2>. QED BY <2>1, StepKinds, TypeStep
<1>. QED BY <1>1, <1>2, PTL DEF SpecAll

(* Handles and threads go together, whoever calls.                          *)
LEMMA HandleStep ==
    ASSUME TypeOK, HandleInv, [NextAll]_allVars
    PROVE  HandleInv'
<1>. USE DEF HandleInv, TypeOK, flags, stats, jobVars, wVars
<1>1. CASE (Up /\ AnswerKills) \/ (Up /\ MainExits)
  BY <1>1 DEF AnswerKills, MainExits
<1>2. CASE UNCHANGED vars
  BY <1>2 DEF vars
<1>3. CASE Callback
  BY <1>3 DEF Callback, OnJob, OnDifficulty, OnPoolLost
<1>4. CASE \E t \in Threads : Worker(t)
  BY <1>4 DEF Worker, WorkerExits, WorkerSnapshots, WorkerBuilds, WorkerAbandons,
      WorkerHashes, WorkerFindsNothing, WorkerFinds, WorkerSubmits, WorkerFails,
      WorkerQuits, Goes
<1>5. ASSUME NEW c \in Callers, Calls(c) \/ Runs(c) PROVE HandleInv'
  <2>1. CASE StartSpawns(c) \/ StopJoins(c)
    BY <2>1 DEF StartSpawns, StopJoins
  <2>2. CASE ~(StartSpawns(c) \/ StopJoins(c))
    <3>1. UNCHANGED <<workers, wpc>>
      BY <1>5, <2>2 DEF Calls, Runs, Advance, Starting, Stopping, StartRefused, StartBegins,
          StopIdle, StopBegins, UpdateBegins, UpdateRefused, StartResets,
          StartCreatesPool, StartConnects, StartFails, StartFindsNone, StartRuns,
          StopDiscards, StopFlags, StopTearsDown, StopDismantles, StopFinishes,
          UpdateApplies, Collides, vars
    <3>. QED BY <3>1
  <2>. QED BY <2>1, <2>2
<1>. QED BY <1>1, <1>2, <1>3, <1>4, <1>5, StepKinds DEF Next

(* A step of a call leaves the server and the connections alone.            *)
LEMMA WithinStep ==
    ASSUME [NextAll]_allVars
    PROVE  \/ (Up /\ MainStep) \/ (Up /\ AcceptStep) \/ (Up /\ Signal)
           \/ \E c \in Clients : Client(c)
           \/ UNCHANGED <<netVars, procVars>>
BY DEF NextAll, allVars, MainThread, AcceptThread, WorkerThread, Within, Over

(* The server listens until it is stopped, whatever its clients do.         *)
LEMMA ListenStep ==
    ASSUME ListenInv, [NextAll]_allVars
    PROVE  ListenInv'
<1>. USE DEF ListenInv, netVars, conVars, cliVars, procVars
<1>1. CASE Up /\ MainStep
  <2>. USE DEF MainGoes
  <2>1. CASE MainServes \/ MainServesNot
    BY <2>1 DEF MainServes, MainServesNot
  <2>2. CASE MainStarts \/ MainStartsNot \/ MainStarted
    BY <2>2 DEF MainStarts, MainStartsNot, MainStarted
  <2>3. CASE MainStops \/ MainStopped \/ MainDestroys \/ MainExits
    BY <2>3 DEF MainStops, MainStopped, MainDestroys, MainExits
  <2>4. CASE ServerStops
    BY <2>4 DEF ServerStops
  <2>5. CASE ServerCloses
    BY <2>5 DEF ServerCloses
  <2>6. CASE ServerJoins
    BY <2>6 DEF ServerJoins
  <2>. QED BY <1>1, <2>1, <2>2, <2>3, <2>4, <2>5, <2>6 DEF MainStep
<1>2. CASE Up /\ AcceptStep
  <2>. USE DEF AcceptGoes
  <2>1. CASE AcceptTop \/ AcceptClosed
    BY <2>1 DEF AcceptTop, AcceptClosed
  <2>2. CASE Accepts \/ AcceptAborted
    BY <2>2 DEF Accepts, AcceptAborted
  <2>3. CASE Receives
    BY <2>3 DEF Receives
  <2>4. CASE ReceivesEnd \/ HandlesItself \/ CallReturns
    BY <2>4 DEF ReceivesEnd, HandlesItself, CallReturns
  <2>5. CASE HandlesStart \/ HandlesStop \/ HandlesConfig
    BY <2>5 DEF HandlesStart, HandlesStop, HandlesConfig, Asks
  <2>6. CASE Answers \/ AnswerFails
    BY <2>6 DEF Answers, AnswerFails
  <2>7. CASE AnswerKills
    BY <2>7 DEF AnswerKills
  <2>. QED BY <1>2, <2>1, <2>2, <2>3, <2>4, <2>5, <2>6, <2>7 DEF AcceptStep
<1>3. CASE Up /\ Signal
  BY <1>3 DEF Signal, MainGoes
<1>4. CASE \E c \in Clients : Client(c)
  BY <1>4 DEF Client, ClientConnects, ClientSends, ClientHangsUp
<1>5. CASE UNCHANGED <<netVars, procVars>>
  BY <1>5
<1>. QED BY <1>1, <1>2, <1>3, <1>4, <1>5, WithinStep

(* A call moves on only where one has begun, and only its own thread moves. *)
LEMMA AdvanceMoves ==
    ASSUME TypeOK, NEW c \in Callers, Advance(c)
    PROVE  ctl[c] # "idle" /\ \A d \in Callers \ {c} : ctl'[d] = ctl[d]
BY DEF Advance, Starting, Stopping, StartResets, StartCreatesPool, StartConnects,
    StartFails, StartFindsNone, StartRuns, StartSpawns, StopDiscards, StopFlags, StopJoins,
    StopTearsDown, StopDismantles, StopFinishes, UpdateApplies, Moves, At, TypeOK

(* So does one that begins.                                                 *)
LEMMA BeginMoves ==
    ASSUME TypeOK, NEW c \in Callers,
           StartBegins(c) \/ StopIdle(c) \/ StopBegins(c) \/ UpdateBegins(c)
    PROVE  ctl[c] = "idle" /\ \A d \in Callers \ {c} : ctl'[d] = ctl[d]
BY DEF StartBegins, StopIdle, StopBegins, UpdateBegins, Moves, At, TypeOK

(* A step of a worker leaves the callers and what they hold alone.          *)
LEMMA WorkerMoves ==
    ASSUME NEW t \in Threads, Worker(t)
    PROVE  /\ UNCHANGED <<ctl, config, pool, workers>> /\ running' \in {running, FALSE}
           /\ wpc[t] # "none"
BY DEF Worker, WorkerExits, WorkerSnapshots, WorkerBuilds, WorkerAbandons, WorkerHashes,
    WorkerFindsNothing, WorkerFinds, WorkerSubmits, WorkerFails, WorkerQuits, flags, stats,
    jobVars, wVars

(* The pool's callbacks change the job only.                                *)
LEMMA CallbackMoves ==
    ASSUME Within(Callback)
    PROVE  UNCHANGED <<ctl, config, pool, workers, wpc, running, netVars, procVars>>
BY DEF Within, Callback, OnJob, OnDifficulty, OnPoolLost, flags, stats, wVars

(* The kinds of steps of a process that is up afterwards.                   *)
LEMMA LiveStep ==
    ASSUME TypeOK, [NextAll]_allVars, Up'
    PROVE  /\ Up
           /\ \/ MainStep
              \/ AcceptStep /\ ~AnswerKills
              \/ Within(Advance("main")) \/ Within(Advance("api"))
              \/ \E t \in Threads : WorkerThread(t)
              \/ Within(Callback)
              \/ UNCHANGED <<vars, conVars, serving, listener, overlap>>
                   /\ (mpc' = mpc \/ (mpc = "wait" /\ mpc' = "stop"))
<1>1. Up
  BY DEF NextAll, MainThread, AcceptThread, WorkerThread, Worker, Callback, Within, Client,
      Over, allVars, vars, Up
<1>2. ~AnswerKills
  BY CallersAssumption DEF AnswerKills, Up, TypeOK
<1>3. ~\E c \in Callers : Within(Collides(c))
  BY DEF Within, Collides, Up, TypeOK
<1>4. CASE \E c \in Clients : Client(c)
  BY <1>1, <1>4 DEF Client, ClientConnects, ClientSends, ClientHangsUp, procVars
<1>5. CASE Signal \/ Over \/ UNCHANGED allVars
  BY <1>1, <1>5 DEF Signal, MainGoes, Over, allVars, netVars, procVars
<1>. QED BY <1>1, <1>2, <1>3, <1>4, <1>5 DEF NextAll, MainThread, AcceptThread

(* A thread is in a call only where it waits for one.                       *)
LEMMA CallerStep ==
    ASSUME TypeOK, ListenInv, CallerInv, [NextAll]_allVars, Up'
    PROVE  CallerInv'
<1>. USE CallersAssumption DEF CallerInv, At
<1>1. CASE MainStep
  <2>. USE DEF MainGoes
  <2>1. CASE MainStarts
    BY <2>1, BeginMoves DEF MainStarts, StartRefused, netVars, conVars
  <2>2. CASE MainStops \/ MainDestroys
    BY <2>2, BeginMoves DEF MainStops, MainDestroys, CallsStop, netVars, conVars
  <2>3. CASE MainStarted \/ MainStopped \/ MainStartsNot \/ MainServesNot
    BY <2>3 DEF MainStarted, MainStopped, MainStartsNot, MainServesNot, vars, netVars,
        conVars
  <2>4. CASE MainServes
    BY <2>4 DEF MainServes, ListenInv, vars, conVars
  <2>6. CASE ServerStops \/ ServerCloses \/ ServerJoins
    BY <2>6 DEF ServerStops, ServerCloses, ServerJoins, vars, netVars, conVars
  <2>5. CASE MainExits
    <3>1. ctl'["main"] = "idle" /\ ctl'["api"] = ctl["api"]
      BY <2>5 DEF MainExits, Up, TypeOK
    <3>. QED BY <2>5, <3>1 DEF MainExits, netVars, conVars
  <2>. QED BY <1>1, <2>1, <2>2, <2>3, <2>4, <2>5, <2>6 DEF MainStep
<1>2. CASE AcceptStep /\ ~AnswerKills
  <2>. USE DEF AcceptGoes
  <2>1. CASE HandlesStart
    BY <2>1, BeginMoves DEF HandlesStart, StartRefused
  <2>2. CASE HandlesStop
    BY <2>2, BeginMoves DEF HandlesStop, CallsStop
  <2>3. CASE HandlesConfig
    BY <2>3, BeginMoves DEF HandlesConfig, UpdateRefused, vars
  <2>4. CASE CallReturns \/ HandlesItself \/ ReceivesEnd
    BY <2>4 DEF CallReturns, HandlesItself, ReceivesEnd, vars, procVars
  <2>5. CASE AcceptTop \/ Accepts \/ AcceptAborted \/ AcceptClosed
    BY <2>5 DEF AcceptTop, Accepts, AcceptAborted, AcceptClosed, vars, procVars
  <2>6. CASE Receives \/ Answers \/ AnswerFails
    BY <2>6 DEF Receives, Answers, AnswerFails, vars, procVars
  <2>. QED BY <1>2, <2>1, <2>2, <2>3, <2>4, <2>5, <2>6 DEF AcceptStep
<1>3. CASE Within(Advance("main")) \/ Within(Advance("api"))
  BY <1>3, AdvanceMoves DEF Within, netVars, conVars, procVars
<1>4. CASE \E t \in Threads : WorkerThread(t)
  BY <1>4, WorkerMoves DEF WorkerThread, Within, netVars, conVars, procVars
<1>5. CASE UNCHANGED <<vars, conVars, serving, listener, overlap>>
             /\ (mpc' = mpc \/ (mpc = "wait" /\ mpc' = "stop"))
  BY <1>5 DEF vars, conVars
<1>6. CASE Within(Callback)
  BY <1>6, CallbackMoves DEF netVars, conVars, procVars
<1>. QED BY <1>1, <1>2, <1>3, <1>4, <1>5, <1>6, LiveStep

(* After main()'s last stop() nothing moves but that stop() itself.         *)
LEMMA EndStep ==
    ASSUME TypeOK, HandleInv, ListenInv, CallerInv, EndInv, [NextAll]_allVars, Up'
    PROVE  EndInv'
<1>. USE CallersAssumption
<1>1. CASE MainStep
  <2>. USE DEF MainGoes, EndInv, At
  <2>1. CASE MainStarts
    BY <2>1 DEF MainStarts
  <2>2. CASE MainStops
    BY <2>2 DEF MainStops
  <2>3. CASE MainDestroys
    BY <2>3 DEF MainDestroys, CallsStop, StopIdle, StopBegins, Moves, flags, TypeOK
  <2>4. CASE MainStarted \/ MainStopped \/ MainStartsNot \/ MainServesNot
    BY <2>4 DEF MainStarted, MainStopped, MainStartsNot, MainServesNot
  <2>5. CASE MainServes \/ ServerStops \/ ServerCloses \/ ServerJoins
    BY <2>5 DEF MainServes, ServerStops, ServerCloses, ServerJoins
  <2>6. CASE MainExits
    <3>1. workers = {}
      BY <2>6 DEF MainExits, Up, TypeOK
    <3>. QED BY <2>6, <3>1 DEF MainExits, flags
  <2>. QED BY <1>1, <2>1, <2>2, <2>3, <2>4, <2>5, <2>6 DEF MainStep
<1>2. CASE mpc \notin {"destroying", "exited"} /\ ~MainStep
  BY <1>2, LiveStep, CallbackMoves DEF EndInv, Within, WorkerThread, procVars, AcceptStep,
     AcceptTop,
      Accepts, AcceptAborted, AcceptClosed, Receives, ReceivesEnd, HandlesItself,
      HandlesStart, HandlesStop, HandlesConfig, CallReturns, Answers, AnswerFails
<1>3. CASE mpc \in {"destroying", "exited"} /\ ~MainStep
  <2>1. ~AcceptStep /\ ~Advance("api")
    <3>1. apc \in {"none", "ended"} /\ ctl["api"] = "idle"
      BY <1>3 DEF ListenInv, CallerInv, At
    <3>. QED BY <3>1, AdvanceMoves DEF AcceptStep, AcceptTop, Accepts, AcceptAborted, AcceptClosed,
             Receives, ReceivesEnd, HandlesItself, HandlesStart, HandlesStop,
             HandlesConfig, CallReturns, Answers, AnswerFails, AnswerKills, AcceptGoes, Asks
  <2>2. CASE Within(Advance("main"))
    <3>1. mpc = "destroying" /\ mpc' = mpc
      BY <1>3, <2>2, AdvanceMoves DEF CallerInv, At, Within, procVars
    <3>2. ctl["main"] \in {"discard", "stopping", "join", "teardown", "dismantle", "finish"}
      BY <2>2, <3>1, AdvanceMoves DEF EndInv, Within
    <3>. USE <3>1, <3>2 DEF EndInv, Moves, At, flags, TypeOK
    <3>3. ASSUME StopDiscards("main") PROVE EndInv'
      BY <3>3 DEF StopDiscards, ResetPool
    <3>4. ASSUME StopFlags("main") \/ StopJoins("main") \/ StopTearsDown("main")
          PROVE  EndInv'
      BY <3>4 DEF StopFlags, StopJoins, StopTearsDown
    <3>5. ASSUME StopDismantles("main") PROVE EndInv'
      BY <3>5 DEF StopDismantles, ResetPool
    <3>6. ASSUME StopFinishes("main") PROVE EndInv'
      BY <3>6 DEF StopFinishes
    <3>7. ~Starting("main") /\ ~UpdateApplies("main")
      BY DEF Starting, StartResets, StartCreatesPool, StartConnects, StartFails,
          StartFindsNone, StartRuns, StartSpawns, UpdateApplies
    <3>. QED BY <2>2, <3>3, <3>4, <3>5, <3>6, <3>7 DEF Within, Advance, Stopping
  <2>3. ASSUME NEW t \in Threads, WorkerThread(t) PROVE EndInv'
    <3>1. workers # {}
      BY <2>3, WorkerMoves DEF WorkerThread, Within, HandleInv
    <3>. QED BY <1>3, <2>3, <3>1, WorkerMoves DEF EndInv, WorkerThread, Within, procVars
  <2>4. CASE UNCHANGED <<vars, conVars, serving, listener, overlap>> /\ mpc' = mpc
    BY <2>4 DEF EndInv, vars, flags
  <2>5. CASE Within(Callback)
    BY <1>3, <2>5, CallbackMoves DEF EndInv, procVars
  <2>. QED BY <1>3, <2>1, <2>2, <2>3, <2>4, <2>5, LiveStep DEF Within
<1>. QED BY <1>1, <1>2, <1>3

(* The invariant of the process holds, however the calls overlap.           *)
LEMMA ProcessCorrect == SpecAll => []ProcessInv
<1>1. InitAll => ProcessInv
  BY CallersAssumption
     DEF InitAll, Init, ProcessInv, HandleInv, ListenInv, CallerInv, EndInv, At
<1>2. TypeOK /\ ProcessInv /\ [NextAll]_allVars => ProcessInv'
  <2>. SUFFICES ASSUME TypeOK, ProcessInv, [NextAll]_allVars PROVE ProcessInv'
    OBVIOUS
  <2>1. HandleInv' /\ ListenInv'
    BY HandleStep, ListenStep DEF ProcessInv
  <2>2. Up' => CallerInv' /\ EndInv'
    BY LiveStep, CallerStep, EndStep DEF ProcessInv
  <2>. QED BY <2>1, <2>2 DEF ProcessInv
<1>. QED BY <1>1, <1>2, ControllerTypes, PTL DEF SpecAll

(* A process that main() has left keeps nothing at work: no worker, no pool  *)
(* client, no accept thread and no connection, even if a request started    *)
(* the miner after main() had stopped it.                                   *)
THEOREM ExitCorrect == SpecAll => []ExitIsClean
<1>1. TypeOK /\ ProcessInv => ExitIsClean
  <2>. SUFFICES ASSUME TypeOK, ProcessInv, mpc = "exited", Up
                PROVE  /\ ~running /\ pool = "none"
                       /\ \A t \in Threads : wpc[t] = "none"
                       /\ ~serving /\ listener # "open" /\ apc \in {"none", "ended"}
                       /\ \A c \in Clients : Out(c)
    BY DEF ExitIsClean
  <2>1. ~running /\ pool = "none" /\ workers = {}
    BY DEF ProcessInv, EndInv
  <2>2. \A t \in Threads : wpc[t] = "none"
    BY <2>1 DEF ProcessInv, HandleInv
  <2>3. ~serving /\ listener # "open" /\ apc \in {"none", "ended"}
    BY DEF ProcessInv, ListenInv
  <2>4. conn = NoClient /\ backlog = <<>>
    BY <2>3 DEF ProcessInv, ListenInv
  <2>5. \A c \in Clients : Out(c)
    BY <2>4, ClientsAssumption DEF Out, ToSet
  <2>. QED BY <2>1, <2>2, <2>3, <2>5
<1>. QED BY <1>1, ControllerTypes, ProcessCorrect, PTL

-----------------------------------------------------------------------------
(* A connection that is being served is a client's, and requests are of     *)
(* clients only.                                                            *)
ServedInv ==
    /\ apc \in {"recv", "handle", "calling", "send", "large"} => conn \in Clients
    /\ req = [c \in Clients |-> req[c]]

(* What a connection that ends leaves of its client.                        *)
LEMMA LeaveTypes ==
    ASSUME ServerTypeOK, ServedInv, NEW gone, Leave(gone)
    PROVE  /\ \A c \in Clients : req'[c] \in Requests[c] \cup {NoRequest}
           /\ req' = [c \in Clients |-> req'[c]]
           /\ sent' \in [Clients -> Nat] /\ end' \in [Clients -> {"open", "shut", "reset"}]
BY DEF ServerTypeOK, ServedInv, Leave

(* The clients and the kernel keep them.                                    *)
LEMMA ClientTypes ==
    ASSUME ServerTypeOK, ServedInv, NEW c \in Clients, Client(c)
    PROVE  ServerTypeOK' /\ ServedInv'
<1>. USE DEF ServerTypeOK, ServedInv, procVars, conVars
<1>1. CASE ClientConnects(c)
  <2>1. backlog' \in Seq(Clients)
    BY <1>1 DEF ClientConnects
  <2>2. /\ \A d \in Clients : req'[d] \in Requests[d] \cup {NoRequest}
        /\ req' = [d \in Clients |-> req'[d]]
    <3>1. PICK r \in Requests[c] : req' = [req EXCEPT ![c] = r]
      BY <1>1 DEF ClientConnects
    <3>2. req' = [d \in Clients |-> IF d = c THEN r ELSE req[d]]
      BY <3>1
    <3>. QED BY <3>2
  <2>3. UNCHANGED <<procVars, serving, listener, conVars, sent, end>>
    BY <1>1 DEF ClientConnects
  <2>. QED BY <2>1, <2>2, <2>3
<1>2. CASE ClientSends(c)
  <2>1. sent' \in [Clients -> Nat]
    BY <1>2 DEF ClientSends
  <2>. QED BY <1>2, <2>1 DEF ClientSends
<1>3. CASE ClientHangsUp(c)
  <2>1. end' \in [Clients -> {"open", "shut", "reset"}]
    BY <1>3 DEF ClientHangsUp
  <2>. QED BY <1>3, <2>1 DEF ClientHangsUp
<1>. QED BY <1>1, <1>2, <1>3 DEF Client

(* So does the accept thread, ...                                           *)
LEMMA AcceptTypes ==
    ASSUME ServerTypeOK, ServedInv, AcceptStep
    PROVE  ServerTypeOK' /\ ServedInv'
<1>. USE DEF ServerTypeOK, ServedInv, procVars, netVars, conVars, cliVars, AcceptGoes
<1>1. CASE AcceptTop \/ AcceptClosed
  BY <1>1 DEF AcceptTop, AcceptClosed
<1>2. CASE Accepts
  <2>1. backlog' \in Seq(Clients) /\ conn' \in Clients
    BY <1>2 DEF Accepts
  <2>. QED BY <1>2, <2>1 DEF Accepts
<1>3. CASE AcceptAborted
  <2>1. backlog' \in Seq(Clients) /\ Leave({Head(backlog)})
    BY <1>3 DEF AcceptAborted
  <2>. QED BY <1>3, <2>1, LeaveTypes DEF AcceptAborted
<1>4. CASE Receives
  <2>1. PICK n \in 1 .. sent[conn] - raw :
          /\ raw' = raw + n
          /\ apc' = IF raw' > MaxRequest THEN "large" ELSE IF Whole(raw') THEN "handle" ELSE "recv"
    BY <1>4 DEF Receives
  <2>2. conn \in Clients
    BY <1>4 DEF Receives
  <2>3. raw' \in Nat
    BY <2>1, <2>2
  <2>4. apc' \in {"large", "handle", "recv"}
    BY <2>1
  <2>. QED BY <1>4, <2>2, <2>3, <2>4 DEF Receives
<1>5. CASE ReceivesEnd \/ HandlesItself \/ HandlesStart \/ HandlesStop \/ HandlesConfig \/ CallReturns
  <2>1. /\ apc \in {"recv", "handle", "calling"} /\ apc' \in {"handle", "send", "calling"}
        /\ overlap' \in BOOLEAN
        /\ UNCHANGED <<mpc, serving, listener, conn, raw, cliVars>>
    BY <1>5 DEF ReceivesEnd, HandlesItself, HandlesStart, HandlesStop, HandlesConfig,
        CallReturns, Asks, CallsStop, Enters
  <2>. QED BY <2>1
<1>6. CASE Answers \/ AnswerFails
  <2>1. /\ apc' = "top" /\ conn' = NoClient /\ raw' = 0 /\ backlog' = backlog
        /\ UNCHANGED <<procVars, serving, listener>> /\ Leave({conn})
    BY <1>6 DEF Answers, AnswerFails
  <2>. QED BY <2>1, LeaveTypes
<1>7. CASE AnswerKills
  BY <1>7 DEF AnswerKills
<1>. QED BY <1>1, <1>2, <1>3, <1>4, <1>5, <1>6, <1>7 DEF AcceptStep

(* ... and the main thread.                                                 *)
LEMMA MainTypes ==
    ASSUME ServerTypeOK, ServedInv, MainStep
    PROVE  ServerTypeOK' /\ ServedInv'
<1>. USE DEF ServerTypeOK, ServedInv, procVars, netVars, conVars, cliVars, MainGoes
<1>1. CASE MainServes \/ MainServesNot \/ ServerStops
  BY <1>1 DEF MainServes, MainServesNot, ServerStops
<1>2. CASE ServerCloses
  <2>1. Leave(ToSet(backlog)) /\ backlog' = <<>>
    BY <1>2 DEF ServerCloses
  <2>. QED BY <1>2, <2>1, LeaveTypes DEF ServerCloses
<1>3. CASE MainStarts \/ MainStartsNot \/ MainStarted \/ MainStops \/ MainStopped
           \/ ServerJoins \/ MainDestroys \/ MainExits
  <2>1. /\ mpc' \in {"starting", "wait", "destroy", "stopping", "close", "destroying", "exited"}
        /\ overlap' \in BOOLEAN /\ UNCHANGED netVars
    BY <1>3 DEF MainStarts, MainStartsNot, MainStarted, MainStops, MainStopped, ServerJoins,
        MainDestroys, MainExits, CallsStop, Enters
  <2>. QED BY <2>1
<1>. QED BY <1>1, <1>2, <1>3 DEF MainStep

(* The variables of the server, of main() and of the clients keep their      *)
(* types, whatever clients do: a request that is being served is a client's. *)
THEOREM ServerTypes == SpecAll => []ServerTypeOK
<1>1. InitAll => ServerTypeOK /\ ServedInv
  <2>. SUFFICES ASSUME InitAll PROVE ServerTypeOK /\ ServedInv
    OBVIOUS
  <2>1. mpc = "boot" /\ listener = "none" /\ apc = "none" /\ conn = NoClient /\ raw = 0
    BY DEF InitAll
  <2>2. overlap \in BOOLEAN /\ serving \in BOOLEAN
    BY DEF InitAll
  <2>3. backlog \in Seq(Clients)
    BY DEF InitAll
  <2>4. /\ sent \in [Clients -> Nat] /\ end \in [Clients -> {"open", "shut", "reset"}]
        /\ req = [c \in Clients |-> req[c]] /\ \A c \in Clients : req[c] = NoRequest
    BY DEF InitAll
  <2>. QED BY <2>1, <2>2, <2>3, <2>4 DEF ServerTypeOK, ServedInv
<1>2. ServerTypeOK /\ ServedInv /\ [NextAll]_allVars => (ServerTypeOK /\ ServedInv)'
  <2>. SUFFICES ASSUME ServerTypeOK, ServedInv, [NextAll]_allVars
                PROVE  ServerTypeOK' /\ ServedInv'
    OBVIOUS
  <2>1. CASE UNCHANGED <<netVars, procVars>>
    BY <2>1 DEF ServerTypeOK, ServedInv, netVars, procVars, conVars, cliVars
  <2>2. CASE Signal
    BY <2>2 DEF Signal, MainGoes, ServerTypeOK, ServedInv, netVars, conVars, cliVars
  <2>. QED BY <2>1, <2>2, ClientTypes, AcceptTypes, MainTypes
           DEF NextAll, MainThread, AcceptThread, WorkerThread, Within, Over, allVars
<1>. QED BY <1>1, <1>2, PTL DEF SpecAll

-----------------------------------------------------------------------------
(* As long as no call began during another one, and no worker failed, the   *)
(* controller's own invariants hold in the process.                         *)
SerialInv ==
    /\ ~overlap /\ Up => OneCallAtATime /\ ControllerInv /\ JoinedInv
    /\ Crashed => overlap

(* At first no call is made.                                                *)
LEMMA SerialInit == InitAll => SerialInv
<1>1. Init => OneCallAtATime /\ ~Crashed
  BY DEF Init, OneCallAtATime, Crashed, At
<1>. QED BY <1>1, ControllerInit, JoinedInit DEF InitAll, SerialInv

(* A step that begins no call during another one leaves one call at most.   *)
LEMMA StaysSerial ==
    ASSUME TypeOK, ProcessInv, OneCallAtATime, [NextAll]_allVars, Up', ~overlap'
    PROVE  OneCallAtATime'
<1>. USE CallersAssumption DEF OneCallAtATime, At
<1>1. ASSUME NEW c \in Callers,
             StartBegins(c) \/ StopIdle(c) \/ StopBegins(c) \/ UpdateBegins(c), Enters(c)
      PROVE  OneCallAtATime'
  <2>1. \A d \in Callers \ {c} : ctl[d] = "idle"
    BY <1>1 DEF Enters
  <2>2. \A d \in Callers \ {c} : ctl'[d] = "idle"
    BY <1>1, <2>1, BeginMoves
  <2>. QED BY <2>1, <2>2
<1>2. CASE UNCHANGED ctl
  BY <1>2
<1>3. CASE MainStep
  <2>1. CASE MainStarts \/ MainStops \/ MainDestroys
    BY <1>1, <1>2, <2>1 DEF MainStarts, MainStops, MainDestroys, CallsStop, StartRefused
  <2>2. CASE MainExits
    <3>1. ctl'["main"] = "idle" /\ ctl'["api"] = ctl["api"]
      BY <2>2 DEF MainExits, Up, TypeOK
    <3>. QED BY <3>1
  <2>3. CASE MainServes \/ MainServesNot \/ MainStartsNot \/ MainStarted \/ MainStopped
             \/ ServerStops \/ ServerCloses \/ ServerJoins
    BY <1>2, <2>3 DEF MainServes, MainServesNot, MainStartsNot, MainStarted, MainStopped,
        ServerStops, ServerCloses, ServerJoins, vars
  <2>. QED BY <1>3, <2>1, <2>2, <2>3 DEF MainStep
<1>4. CASE AcceptStep /\ ~AnswerKills
  <2>1. CASE HandlesStart \/ HandlesStop \/ HandlesConfig
    BY <1>1, <1>2, <2>1 DEF HandlesStart, HandlesStop, HandlesConfig, CallsStop,
        StartRefused, UpdateRefused, vars
  <2>2. CASE ~(HandlesStart \/ HandlesStop \/ HandlesConfig)
    BY <1>2, <1>4, <2>2 DEF AcceptStep, AcceptTop, Accepts, AcceptAborted, AcceptClosed,
        Receives, ReceivesEnd, HandlesItself, CallReturns, Answers, AnswerFails, vars
  <2>. QED BY <2>1, <2>2
<1>5. CASE Within(Advance("main")) \/ Within(Advance("api"))
  BY <1>5, AdvanceMoves DEF Within
<1>6. CASE \E t \in Threads : WorkerThread(t)
  BY <1>2, <1>6, WorkerMoves DEF WorkerThread, Within
<1>7. CASE UNCHANGED vars
  BY <1>2, <1>7 DEF vars
<1>8. CASE Within(Callback)
  BY <1>2, <1>8, CallbackMoves
<1>. QED BY <1>3, <1>4, <1>5, <1>6, <1>7, <1>8, LiveStep

(* Once calls have overlapped it is remembered.                             *)
LEMMA OverlapStays == overlap /\ [NextAll]_allVars => overlap'
BY DEF NextAll, allVars, netVars, procVars, MainThread, AcceptThread, WorkerThread, Within,
    Client, ClientConnects, ClientSends, ClientHangsUp, Signal, Over, MainStep, MainServes,
    MainServesNot, MainStarts, MainStartsNot, MainStarted, MainStops, MainStopped,
    ServerStops, ServerCloses, ServerJoins, MainDestroys, MainExits, CallsStop, Enters,
    AcceptStep, AcceptTop, Accepts, AcceptAborted, AcceptClosed, Receives, ReceivesEnd,
    HandlesItself, HandlesStart, HandlesStop, HandlesConfig, CallReturns, Answers,
    AnswerFails, AnswerKills

(* A process whose calls are serial and whose workers do not fail does not   *)
(* crash: no client is destroyed in use, no pointer to one is null, and no  *)
(* thread is left for the destructor.                                       *)
LEMMA NoCrash ==
    ASSUME TypeOK, ProcessInv, OneCallAtATime, ControllerInv, JoinedInv, Up,
           [NextAll]_allVars
    PROVE  ~Crashed'
<1>. USE CallersAssumption DEF Crashed, At
<1>1. \A c \in Callers : ctl[c] # "crashed" /\ ~Collides(c) /\ ~StartFails(c) /\ ~StartFindsNone(c)
  BY NoCollision DEF Up
<1>2. CASE Up /\ MainExits
  <2>1. AtRest /\ ~running
    BY <1>2 DEF MainExits, MainGoes, AtRest, ProcessInv, ListenInv, CallerInv, EndInv
  <2>2. workers = {}
    BY <2>1 DEF JoinedInv
  <2>. QED BY <1>1, <1>2, <2>2 DEF MainExits, TypeOK
<1>3. CASE Up /\ AnswerKills
  BY <1>1, <1>3 DEF AnswerKills, TypeOK
<1>4. CASE [Next]_vars
  <2>1. CASE UNCHANGED ctl
    BY <1>1, <2>1
  <2>2. ASSUME NEW c \in Callers, Calls(c) \/ Runs(c) PROVE ~Crashed'
    BY <1>1, <2>2 DEF Calls, Runs, Advance, Starting, Stopping, StartRefused, StartBegins,
        StopIdle, StopBegins, UpdateBegins, UpdateRefused, StartResets, StartCreatesPool,
        StartConnects, StartRuns, StartSpawns, StopDiscards, StopFlags, StopJoins,
        StopTearsDown, StopDismantles, StopFinishes, UpdateApplies, Moves, vars, TypeOK
  <2>3. Callback \/ UNCHANGED vars => UNCHANGED ctl
    BY DEF Callback, OnJob, OnDifficulty, OnPoolLost, vars
  <2>. QED BY <1>4, <2>1, <2>2, <2>3, WorkerMoves DEF Next
<1>. QED BY <1>2, <1>3, <1>4, StepKinds

(* Every step keeps the invariant of serial calls.                          *)
LEMMA SerialStep ==
    ASSUME NoFailure, TypeOK, TypeOK', ProcessInv, SerialInv, [NextAll]_allVars
    PROVE  SerialInv'
<1>1. CASE overlap'
  BY <1>1 DEF SerialInv
<1>2. CASE ~Up
  <2>1. UNCHANGED allVars
    BY <1>2 DEF NextAll, MainThread, AcceptThread, WorkerThread, Worker, Callback, Within,
        Client, Over
  <2>2. ~Up' /\ (Crashed' <=> Crashed) /\ overlap' = overlap
    BY <1>2, <2>1 DEF allVars, procVars, vars, Up, Crashed, At
  <2>. QED BY <2>2 DEF SerialInv
<1>3. CASE Up /\ ~overlap'
  <2>1. ~overlap
    BY <1>3, OverlapStays
  <2>2. OneCallAtATime /\ ControllerInv /\ JoinedInv
    BY <1>3, <2>1 DEF SerialInv
  <2>3. ~Crashed'
    BY <1>3, <2>2, NoCrash
  <2>4. ASSUME Up' PROVE OneCallAtATime' /\ ControllerInv' /\ JoinedInv'
    <3>1. OneCallAtATime'
      BY <1>3, <2>2, <2>4, StaysSerial
    <3>2. [Next]_vars
      <4>1. ~AnswerKills
        BY <2>4, LiveStep, CallersAssumption DEF AnswerKills, Up, TypeOK
      <4>2. CASE MainExits
        BY <4>2, <2>4, CallersAssumption
           DEF MainExits, At, Up, TypeOK, vars
      <4>. QED BY <4>1, <4>2, StepKinds
    <3>. QED BY <2>2, <3>1, <3>2, ControllerStep, JoinedStep
  <2>. QED BY <2>3, <2>4 DEF SerialInv
<1>. QED BY <1>1, <1>2, <1>3

(* While no worker fails, main() and the dashboard call the controller in   *)
(* any order without harm, as long as no call begins during another one:    *)
(* the process does not crash, and the configuration does not change under  *)
(* a live connection.                                                       *)
THEOREM SerialCorrect == SpecAll /\ []NoFailure => SerialCallsAreSafe
<1>1. SpecAll /\ []NoFailure => []SerialInv
  BY SerialInit, SerialStep, ControllerTypes, ProcessCorrect, PTL DEF SpecAll
<1>2. TypeOK /\ SerialInv /\ [NextAll]_allVars
        => [config' # config => overlap \/ pool # "live"]_allVars
  <2>. SUFFICES ASSUME TypeOK, SerialInv, [NextAll]_allVars, config' # config, ~overlap
                PROVE  pool # "live"
    OBVIOUS
  <2>1. PICK c \in Callers : Up /\ UpdateApplies(c)
    BY StepKinds, ConfigMoves DEF AnswerKills, MainExits
  <2>. QED BY <2>1 DEF UpdateApplies, Moves, At, SerialInv, ControllerInv, PlaceInv, JoinedInv,
           WorkersGone
<1>3. SerialInv => (Crashed => overlap)
  BY DEF SerialInv
<1>. QED BY <1>1, <1>2, <1>3, ControllerTypes, PTL DEF SpecAll, SerialCallsAreSafe

(* In a build without CUDA no worker fails, so nothing else is asked of the *)
(* process for its serial calls to be safe.                                 *)
THEOREM SerialCorrectOnCpu ==
    ASSUME ~CudaCompiled
    PROVE  SpecAll => SerialCallsAreSafe
<1>1. TypeOK /\ CpuInv /\ [NextAll]_allVars => CpuInv'
  <2>. SUFFICES ASSUME TypeOK, CpuInv, [NextAll]_allVars PROVE CpuInv'
    OBVIOUS
  <2>1. CASE (Up /\ AnswerKills) \/ (Up /\ MainExits)
    BY <2>1 DEF AnswerKills, MainExits, CpuInv, NoFailure, flags
  <2>. QED BY <2>1, StepKinds, CpuStep
<1>2. InitAll => CpuInv
  BY CpuInit DEF InitAll
<1>3. CpuInv => NoFailure
  BY DEF CpuInv
<1>. QED BY <1>1, <1>2, <1>3, ControllerTypes, SerialCorrect, PTL DEF SpecAll

=============================================================================
