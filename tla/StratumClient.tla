--------------------------- MODULE StratumClient ---------------------------
(***************************************************************************)
(* The Stratum V1 client of src/src/stratum/client.cpp: one background      *)
(* thread that connects, subscribes, authorizes, receives jobs and reports  *)
(* verdicts; worker threads that hand it shares with submitShare(); and the *)
(* controlling thread that calls start() and stop().  The pool, the TCP     *)
(* connection and the caller's callbacks (MinerController::onJob, ...) are  *)
(* the environment.                                                         *)
(*                                                                          *)
(* Abstractions.  A session is one call of runConnection(), and its number  *)
(* also names the descriptor the session opened and the extranonce its pool *)
(* assigned.  A message is a record with its kind and the fields that the   *)
(* client branches on.  outbound_ is the set of the shares it holds, the    *)
(* order in which they leave is not told apart.                             *)
(***************************************************************************)
EXTENDS Integers, Sequences

CONSTANTS Shares,         \* the shares the workers find
          Pushes,         \* the kinds of messages the pool sends unasked
          MaxSession,     \* bound: connection attempts
          MaxInbox,       \* bound: unread messages on the wire
          MaxDifficulty,  \* bound: difficulties the pool announces
          InitialDelay,   \* config_.reconnectInitialDelay
          MaxDelay        \* config_.reconnectMaxDelay

PushKinds == {"notify", "difficulty", "extranonce", "reconnect", "oversized"}

ASSUME BoundsAssumption ==
    MaxSession \in Nat \ {0} /\ MaxInbox \in Nat /\ MaxDifficulty \in Nat
ASSUME PushesAssumption == Pushes \subseteq PushKinds
ASSUME DelayAssumption ==
    InitialDelay \in Nat \ {0} /\ MaxDelay \in Nat /\ InitialDelay <= MaxDelay

VARIABLES
    \* fields of StratumClient shared by its threads
    running, stopRequested, state, sock, outbound, pending, nextId,
    \* fields and locals of the connection thread
    pc, session, reachedAuthorized, delay, overflowed, lines, extranonce,
    difficulty, authorized, subscribeId, authorizeId, flushing,
    \* the thread in start() and stop()
    stopPc,
    \* the connection and the pool
    link, opened, closes, toPool, fromPool, credited,
    \* the caller: its current job, its workers' shares, its counters
    job, submit, minedIn, verdicts

sharedVars  == <<running, stopRequested, state, sock, outbound, pending, nextId>>
sessionVars == <<session, reachedAuthorized, delay, overflowed, lines, extranonce,
                 difficulty, authorized, subscribeId, authorizeId, flushing>>
poolVars    == <<link, opened, closes, toPool, fromPool, credited>>
callerVars  == <<job, submit, minedIn, verdicts>>
vars == <<sharedVars, pc, sessionVars, stopPc, poolVars, callerVars>>

-----------------------------------------------------------------------------
Sessions   == 1 .. MaxSession
NoSession  == 0          \* socket_ = -1, no extranonce, no job
PoolStates == {"Disconnected", "Connecting", "Connected", "Subscribed",
               "Authorized", "Error"}

Request    == [kind : {"subscribe", "authorize"}, id : Nat]
                \cup [kind : {"submit"}, id : Nat, share : Shares]
Message    == [kind : {"reply"}, id : Nat, ok : BOOLEAN]
                \cup [kind : {"difficulty"}, value : 0 .. MaxDifficulty]
                \cup [kind : PushKinds \ {"difficulty"}]
Job        == [session : Sessions \cup {NoSession},
               extranonce : Sessions \cup {NoSession},
               difficulty : 0 .. MaxDifficulty]
NoJob      == [session |-> NoSession, extranonce |-> NoSession, difficulty |-> 0]
Verdicts   == {"accepted", "rejected", "stale"}

Init ==
    /\ running = FALSE /\ stopRequested = FALSE
    /\ state = "Disconnected" /\ sock = NoSession
    /\ outbound = {} /\ pending = {} /\ nextId = 1
    /\ pc = "idle" /\ session = NoSession
    /\ reachedAuthorized = FALSE /\ delay = InitialDelay
    /\ overflowed = FALSE /\ lines = <<>>
    /\ extranonce = NoSession /\ difficulty = 0 /\ authorized = FALSE
    /\ subscribeId = 0 /\ authorizeId = 0 /\ flushing = {}
    /\ stopPc = "idle"
    /\ link = "none" /\ opened = {} /\ closes = [c \in Sessions |-> 0]
    /\ toPool = {} /\ fromPool = <<>> /\ credited = {}
    /\ job = NoJob
    /\ submit = [s \in Shares |-> "mining"]
    /\ minedIn = [s \in Shares |-> NoSession]
    /\ verdicts = [s \in Shares |-> <<>>]

(* setState(): the atomic store, then the caller's onStateChange callback,  *)
(* which throws the job away when the connection is gone.                   *)
SetState(new) ==
    /\ state' = new
    /\ job' = IF new \in {"Disconnected", "Error"} THEN NoJob ELSE job

(* ::send() on the stored descriptor.  Bytes handed to a connection that is *)
(* already gone may be accepted by the kernel and never arrive.             *)
SendSucceeds(request) ==
    /\ sock # NoSession
    /\ toPool' = IF link = "up" THEN toPool \cup {request} ELSE toPool
SendFails == (sock = NoSession \/ link # "up") /\ UNCHANGED toPool

(* Nothing sent before a connection goes down is answered any more; what    *)
(* has arrived can still be read until the descriptor is closed.            *)
LinkDown == link' = "down" /\ toPool' = {}

(* ::close(), after ::shutdown() or not.                                    *)
CloseDescriptor(c) ==
    /\ closes' = [closes EXCEPT ![c] = @ + 1]
    /\ LinkDown /\ fromPool' = <<>>

-----------------------------------------------------------------------------
(* start() and stop(), called by one controlling thread.  Its refusal of a  *)
(* client without a host or user name is left out: the controller, which    *)
(* makes the client, refuses such a configuration before.                   *)

Start ==
    /\ stopPc \in {"idle", "stopped"} /\ ~running /\ pc = "idle"
    /\ session < MaxSession
    /\ stopPc' = "idle"
    /\ stopRequested' = FALSE /\ running' = TRUE
    /\ pc' = "top" /\ delay' = InitialDelay
    /\ UNCHANGED <<state, sock, outbound, pending, nextId, session,
                   reachedAuthorized, overflowed, lines, extranonce, difficulty,
                   authorized, subscribeId, authorizeId, flushing,
                   poolVars, callerVars>>

StopRequest ==
    /\ stopPc = "idle" /\ (running \/ pc # "idle")
    /\ stopRequested' = TRUE /\ stopPc' = "notify"
    /\ UNCHANGED <<running, state, sock, outbound, pending, nextId, pc,
                   sessionVars, poolVars, callerVars>>

(* wakeup_.notify_all() reaches only a thread that already waits, and       *)
(* stop() does not hold mutex_.                                             *)
StopNotify ==
    /\ stopPc = "notify" /\ stopPc' = "close"
    /\ pc' = IF pc = "blocked" THEN "resume" ELSE pc
    /\ UNCHANGED <<sharedVars, sessionVars, poolVars, callerVars>>

(* Wrong form: the descriptor is read and not taken.                        *)
StopCloseLoads ==
    /\ stopPc = "close" /\ stopPc' = "join"
    /\ IF sock # NoSession THEN CloseDescriptor(sock)
       ELSE UNCHANGED <<closes, link, toPool, fromPool>>
    /\ UNCHANGED <<sharedVars, pc, sessionVars, opened, credited, callerVars>>

StopClose ==
    /\ stopPc = "close" /\ stopPc' = "join"
    /\ sock' = NoSession
    /\ IF sock # NoSession THEN CloseDescriptor(sock)
       ELSE UNCHANGED <<closes, link, toPool, fromPool>>
    /\ UNCHANGED <<running, stopRequested, state, outbound, pending, nextId, pc,
                   sessionVars, opened, credited, callerVars>>

(* Wrong form: the thread is left behind.                                   *)
StopJoinDetaches ==
    /\ stopPc = "join" /\ stopPc' = "stopped"
    /\ running' = FALSE /\ SetState("Disconnected")
    /\ UNCHANGED <<stopRequested, sock, outbound, pending, nextId, pc, sessionVars,
                   poolVars, submit, minedIn, verdicts>>

StopJoin ==
    /\ stopPc = "join" /\ pc = "done"
    /\ pc' = "idle" /\ stopPc' = "stopped"
    /\ running' = FALSE /\ SetState("Disconnected")
    /\ UNCHANGED <<stopRequested, sock, outbound, pending, nextId, sessionVars,
                   poolVars, submit, minedIn, verdicts>>

(* stop() on a client that is not running returns at once.                  *)
StopAgain ==
    /\ stopPc = "stopped" /\ ~running /\ pc = "idle"
    /\ UNCHANGED vars

-----------------------------------------------------------------------------
(* threadMain(): connect, serve the connection, back off, again.            *)

ExitThread ==
    /\ pc = "top" /\ stopRequested
    /\ pc' = "done" /\ running' = FALSE
    /\ UNCHANGED <<stopRequested, state, sock, outbound, pending, nextId,
                   sessionVars, stopPc, poolVars, callerVars>>

(* Wrong form: the next session begins at the difficulty of the last.       *)
BeginSessionKeepsDifficulty ==
    /\ pc = "top" /\ ~stopRequested /\ session < MaxSession
    /\ session' = session + 1 /\ reachedAuthorized' = FALSE
    /\ pending' = {} /\ outbound' = {}
    /\ lines' = <<>> /\ extranonce' = NoSession
    /\ authorized' = FALSE
    /\ SetState("Connecting")
    /\ pc' = "connect"
    /\ UNCHANGED <<running, stopRequested, sock, nextId, delay, overflowed,
                   difficulty, subscribeId, authorizeId, flushing, stopPc, poolVars,
                   submit, minedIn, verdicts>>

(* runConnection() first forgets the previous session; LineBuffer::clear()  *)
(* empties the buffer and leaves the overflow mark.                         *)
BeginSession ==
    /\ pc = "top" /\ ~stopRequested /\ session < MaxSession
    /\ session' = session + 1 /\ reachedAuthorized' = FALSE
    /\ pending' = {} /\ outbound' = {}
    /\ lines' = <<>> /\ extranonce' = NoSession /\ difficulty' = 0
    /\ authorized' = FALSE
    /\ SetState("Connecting")
    /\ pc' = "connect"
    /\ UNCHANGED <<running, stopRequested, sock, nextId, delay, overflowed,
                   subscribeId, authorizeId, flushing, stopPc, poolVars,
                   submit, minedIn, verdicts>>

ConnectSucceeds ==
    /\ pc = "connect" /\ pc' = "subscribe"
    /\ sock' = session /\ opened' = opened \cup {session} /\ link' = "up"
    /\ toPool' = {} /\ fromPool' = <<>>
    /\ SetState("Connected")
    /\ UNCHANGED <<running, stopRequested, outbound, pending, nextId, sessionVars,
                   stopPc, closes, credited, submit, minedIn, verdicts>>

ConnectFails ==
    /\ pc = "connect" /\ pc' = "backoff"
    /\ SetState("Error")
    /\ UNCHANGED <<running, stopRequested, sock, outbound, pending, nextId,
                   sessionVars, stopPc, poolVars, submit, minedIn, verdicts>>

(* mining.subscribe and, without waiting for its answer, mining.authorize.  *)
SendSubscribe ==
    /\ pc = "subscribe"
    /\ subscribeId' = nextId /\ nextId' = nextId + 1
    /\ \/ /\ SendSucceeds([kind |-> "subscribe", id |-> nextId])
          /\ pc' = "authorize" /\ UNCHANGED <<state, job>>
       \/ SendFails /\ pc' = "close" /\ SetState("Error")
    /\ UNCHANGED <<running, stopRequested, sock, outbound, pending, session,
                   reachedAuthorized, delay, overflowed, lines, extranonce,
                   difficulty, authorized, authorizeId, flushing, stopPc, link,
                   opened, closes, fromPool, credited, submit, minedIn, verdicts>>

SendAuthorize ==
    /\ pc = "authorize"
    /\ authorizeId' = nextId /\ nextId' = nextId + 1
    /\ \/ /\ SendSucceeds([kind |-> "authorize", id |-> nextId])
          /\ pc' = "loop" /\ UNCHANGED <<state, job>>
       \/ SendFails /\ pc' = "close" /\ SetState("Error")
    /\ UNCHANGED <<running, stopRequested, sock, outbound, pending, session,
                   reachedAuthorized, delay, overflowed, lines, extranonce,
                   difficulty, authorized, subscribeId, flushing, stopPc, link,
                   opened, closes, fromPool, credited, submit, minedIn, verdicts>>

(* The head of the service loop: the stop test, then flushOutboundQueue()   *)
(* takes the whole queue under the lock ...                                 *)
LoopStops ==
    /\ pc = "loop" /\ stopRequested /\ pc' = "close"
    /\ UNCHANGED <<sharedVars, sessionVars, stopPc, poolVars, callerVars>>

(* Wrong forms: the queue is copied and not swapped; shares wait for the    *)
(* authorization of whatever session is up.                                 *)
TakeOutboundAuthorized ==
    /\ pc = "loop" /\ ~stopRequested /\ pc' = "flush"
    /\ flushing' = IF authorized THEN outbound ELSE {}
    /\ outbound' = outbound \ flushing'
    /\ UNCHANGED <<running, stopRequested, state, sock, pending, nextId, session,
                   reachedAuthorized, delay, overflowed, lines, extranonce,
                   difficulty, authorized, subscribeId, authorizeId, stopPc,
                   poolVars, callerVars>>
TakeOutboundCopies ==
    /\ pc = "loop" /\ ~stopRequested /\ pc' = "flush"
    /\ flushing' = outbound
    /\ UNCHANGED <<sharedVars, session, reachedAuthorized, delay, overflowed, lines,
                   extranonce, difficulty, authorized, subscribeId, authorizeId,
                   stopPc, poolVars, callerVars>>

TakeOutbound ==
    /\ pc = "loop" /\ ~stopRequested /\ pc' = "flush"
    /\ flushing' = outbound /\ outbound' = {}
    /\ UNCHANGED <<running, stopRequested, state, sock, pending, nextId, session,
                   reachedAuthorized, delay, overflowed, lines, extranonce,
                   difficulty, authorized, subscribeId, authorizeId, stopPc,
                   poolVars, callerVars>>

(* Wrong form: one id for all the shares of a flush.                        *)
FlushShareSameId ==
    /\ pc = "flush"
    /\ \E s \in flushing :
         /\ flushing' = flushing \ {s}
         /\ \/ /\ SendSucceeds([kind |-> "submit", id |-> nextId, share |-> s])
               /\ pending' = {p \in pending : p.id # nextId}
                               \cup {[id |-> nextId, share |-> s]}
            \/ SendFails /\ pending' = {p \in pending : p.id # nextId}
    /\ UNCHANGED <<running, stopRequested, state, sock, outbound, nextId, pc, session,
                   reachedAuthorized, delay, overflowed, lines, extranonce,
                   difficulty, authorized, subscribeId, authorizeId, stopPc, link,
                   opened, closes, fromPool, credited, callerVars>>

(* ... and registers and sends one share at a time; a share that cannot be  *)
(* sent is taken out of pendingSubmits_ again and only logged.              *)
FlushShare ==
    /\ pc = "flush"
    /\ \E s \in flushing :
         /\ flushing' = flushing \ {s}
         /\ nextId' = nextId + 1
         /\ \/ /\ SendSucceeds([kind |-> "submit", id |-> nextId, share |-> s])
               /\ pending' = {p \in pending : p.id # nextId}
                               \cup {[id |-> nextId, share |-> s]}
            \/ SendFails /\ pending' = {p \in pending : p.id # nextId}
    /\ UNCHANGED <<running, stopRequested, state, sock, outbound, pc, session,
                   reachedAuthorized, delay, overflowed, lines, extranonce,
                   difficulty, authorized, subscribeId, authorizeId, stopPc, link,
                   opened, closes, fromPool, credited, callerVars>>

FlushDone ==
    /\ pc = "flush" /\ flushing = {} /\ pc' = "select"
    /\ UNCHANGED <<sharedVars, sessionVars, stopPc, poolVars, callerVars>>

(* select() and recv().  stop() may have closed the descriptor meanwhile.   *)
DescriptorClosed == closes[session] > 0

SelectTimesOut ==
    /\ pc = "select" /\ ~DescriptorClosed /\ link = "up" /\ fromPool = <<>>
    /\ pc' \in {"loop", "close"}      \* "close" once idle for readTimeoutSeconds
    /\ UNCHANGED <<sharedVars, sessionVars, stopPc, poolVars, callerVars>>

ReceiveFails ==
    /\ pc = "select" /\ (DescriptorClosed \/ link # "up")
    /\ pc' = "close"
    /\ UNCHANGED <<sharedVars, sessionVars, stopPc, poolVars, callerVars>>

(* One recv() delivers any number of the messages that have arrived.  After *)
(* an oversized one the buffer takes nothing more, in any session.          *)
Receive ==
    /\ pc = "select" /\ ~DescriptorClosed /\ fromPool # <<>>
    /\ \E n \in 1 .. Len(fromPool) :
         LET chunk == SubSeq(fromPool, 1, n)
             tooLong == \E i \in 1 .. n : chunk[i].kind = "oversized"
         IN  /\ tooLong => n = 1
             /\ fromPool' = SubSeq(fromPool, n + 1, Len(fromPool))
             /\ overflowed' = (overflowed \/ tooLong)
             /\ IF overflowed'
                  THEN pc' = "close" /\ UNCHANGED lines
                  ELSE pc' = "drain" /\ lines' = chunk
    /\ UNCHANGED <<sharedVars, session, reachedAuthorized, delay, extranonce,
                   difficulty, authorized, subscribeId, authorizeId, flushing,
                   stopPc, link, opened, closes, toPool, credited, callerVars>>

DrainDone ==
    /\ pc = "drain" /\ lines = <<>> /\ pc' = "loop"
    /\ UNCHANGED <<sharedVars, sessionVars, stopPc, poolVars, callerVars>>

-----------------------------------------------------------------------------
(* handleMessage(), one complete line at a time.                            *)

(* The complete line handleMessage() looks at.                             *)
message == Head(lines)

Handles(kind, nowAuthorized) ==
    /\ pc = "drain" /\ lines # <<>> /\ message.kind = kind
    /\ lines' = Tail(lines)
    /\ reachedAuthorized' = (reachedAuthorized \/ nowAuthorized)

HandleSubscribeReply ==
    /\ Handles("reply", authorized) /\ message.id = subscribeId
    /\ IF message.ok THEN extranonce' = session /\ SetState("Subscribed")
                     ELSE UNCHANGED extranonce /\ SetState("Error")
    /\ UNCHANGED <<running, stopRequested, sock, outbound, pending, nextId, pc,
                   session, delay, overflowed, difficulty, authorized, subscribeId,
                   authorizeId, flushing, stopPc, poolVars, submit, minedIn, verdicts>>

HandleAuthorizeReply ==
    /\ Handles("reply", authorized \/ message.ok)
    /\ message.id = authorizeId /\ message.id # subscribeId
    /\ IF message.ok THEN authorized' = TRUE /\ SetState("Authorized")
                     ELSE UNCHANGED authorized /\ SetState("Error")
    /\ UNCHANGED <<running, stopRequested, sock, outbound, pending, nextId, pc,
                   session, delay, overflowed, extranonce, difficulty, subscribeId,
                   authorizeId, flushing, stopPc, poolVars, submit, minedIn, verdicts>>

(* Wrong form: the answered submission stays in pendingSubmits_.            *)
HandleSubmitReplyKeeps ==
    /\ Handles("reply", authorized) /\ message.id \notin {subscribeId, authorizeId}
    /\ verdicts' = [s \in Shares |->
                      IF [id |-> message.id, share |-> s] \in pending
                        THEN Append(verdicts[s], IF message.ok THEN "accepted" ELSE "rejected")
                        ELSE verdicts[s]]
    /\ UNCHANGED <<sharedVars, pc, session, delay, overflowed, extranonce, difficulty,
                   authorized, subscribeId, authorizeId, flushing, stopPc, poolVars,
                   job, submit, minedIn>>

(* The verdict on a share goes to the caller's counters; an answer to no    *)
(* known request is dropped.                                                *)
HandleSubmitReply ==
    /\ Handles("reply", authorized) /\ message.id \notin {subscribeId, authorizeId}
    /\ pending' = {p \in pending : p.id # message.id}
    /\ verdicts' = [s \in Shares |->
                      IF [id |-> message.id, share |-> s] \in pending
                        THEN Append(verdicts[s], IF message.ok THEN "accepted" ELSE "rejected")
                        ELSE verdicts[s]]
    /\ UNCHANGED <<running, stopRequested, state, sock, outbound, nextId, pc,
                   session, delay, overflowed, extranonce, difficulty, authorized,
                   subscribeId, authorizeId, flushing, stopPc, poolVars,
                   job, submit, minedIn>>

(* mining.notify: the job is stamped with the extranonce and difficulty of  *)
(* the moment, and refused before an extranonce is known.                   *)
HandleNotify ==
    /\ Handles("notify", authorized)
    /\ job' = IF extranonce = NoSession
                THEN job
                ELSE [session |-> session, extranonce |-> extranonce,
                      difficulty |-> difficulty]
    /\ UNCHANGED <<sharedVars, pc, session, delay, overflowed, extranonce,
                   difficulty, authorized, subscribeId, authorizeId, flushing,
                   stopPc, poolVars, submit, minedIn, verdicts>>

(* mining.set_difficulty: a difficulty that is not positive is ignored; the *)
(* caller applies the new one to the job it has.                            *)
HandleSetDifficulty ==
    /\ Handles("difficulty", authorized)
    /\ difficulty' = IF message.value > 0 THEN message.value ELSE difficulty
    /\ job' = IF message.value > 0 /\ job # NoJob
                THEN [job EXCEPT !.difficulty = message.value] ELSE job
    /\ UNCHANGED <<sharedVars, pc, session, delay, overflowed, extranonce,
                   authorized, subscribeId, authorizeId, flushing, stopPc,
                   poolVars, submit, minedIn, verdicts>>

(* mining.set_extranonce counts for the jobs that follow.                   *)
HandleSetExtranonce ==
    /\ Handles("extranonce", authorized)
    /\ extranonce' = session
    /\ UNCHANGED <<sharedVars, pc, session, delay, overflowed, difficulty,
                   authorized, subscribeId, authorizeId, flushing, stopPc,
                   poolVars, callerVars>>

(* client.reconnect shuts the socket down, if stop() has not taken it.      *)
HandleReconnect ==
    /\ Handles("reconnect", authorized)
    /\ IF sock # NoSession THEN LinkDown ELSE UNCHANGED <<link, toPool>>
    /\ UNCHANGED <<sharedVars, pc, session, delay, overflowed, extranonce,
                   difficulty, authorized, subscribeId, authorizeId, flushing,
                   stopPc, opened, closes, fromPool, credited, callerVars>>

-----------------------------------------------------------------------------
(* The end of runConnection() and the back-off of threadMain().             *)

(* Wrong form: nobody is told that the connection is closed.                *)
CloseConnectionSilent ==
    /\ pc = "close" /\ pc' = "backoff"
    /\ sock' = NoSession
    /\ IF sock # NoSession THEN CloseDescriptor(sock)
       ELSE UNCHANGED <<closes, link, toPool, fromPool>>
    /\ authorized' = FALSE
    /\ UNCHANGED <<running, stopRequested, state, outbound, pending, nextId, session,
                   reachedAuthorized, delay, overflowed, lines, extranonce,
                   difficulty, subscribeId, authorizeId, flushing, stopPc, opened,
                   credited, callerVars>>

CloseConnection ==
    /\ pc = "close" /\ pc' = "backoff"
    /\ sock' = NoSession
    /\ IF sock # NoSession THEN CloseDescriptor(sock)
       ELSE UNCHANGED <<closes, link, toPool, fromPool>>
    /\ authorized' = FALSE
    /\ SetState("Disconnected")
    /\ UNCHANGED <<running, stopRequested, outbound, pending, nextId, session,
                   reachedAuthorized, delay, overflowed, lines, extranonce,
                   difficulty, subscribeId, authorizeId, flushing, stopPc, opened,
                   credited, submit, minedIn, verdicts>>

(* Wrong form: authorized_ is asked, which the close has cleared.           *)
BackOffByAuthorized ==
    /\ pc = "backoff" /\ ~stopRequested /\ pc' = "wait"
    /\ delay' = IF authorized THEN InitialDelay ELSE delay
    /\ SetState("Disconnected")
    /\ UNCHANGED <<running, stopRequested, sock, outbound, pending, nextId, session,
                   reachedAuthorized, overflowed, lines, extranonce, difficulty,
                   authorized, subscribeId, authorizeId, flushing, stopPc, poolVars,
                   submit, minedIn, verdicts>>

BackOff ==
    /\ pc = "backoff" /\ ~stopRequested /\ pc' = "wait"
    /\ delay' = IF reachedAuthorized THEN InitialDelay ELSE delay
    /\ SetState("Disconnected")
    /\ UNCHANGED <<running, stopRequested, sock, outbound, pending, nextId, session,
                   reachedAuthorized, overflowed, lines, extranonce, difficulty,
                   authorized, subscribeId, authorizeId, flushing, stopPc, poolVars,
                   submit, minedIn, verdicts>>

BackOffStops ==
    /\ pc = "backoff" /\ stopRequested
    /\ pc' = "done" /\ running' = FALSE
    /\ UNCHANGED <<stopRequested, state, sock, outbound, pending, nextId,
                   sessionVars, stopPc, poolVars, callerVars>>

(* wait_for() tests its predicate and blocks in two steps: a notification   *)
(* between them is lost, and the delay is then waited out.                  *)
WaitTests ==
    /\ pc = "wait" /\ pc' = IF stopRequested THEN "resume" ELSE "blocking"
    /\ UNCHANGED <<sharedVars, sessionVars, stopPc, poolVars, callerVars>>

WaitBlocks ==
    /\ pc = "blocking" /\ pc' = "blocked"
    /\ UNCHANGED <<sharedVars, sessionVars, stopPc, poolVars, callerVars>>

(* Wrong form: wait() instead of wait_for().                                *)
WaitForever == pc = "blocked" /\ FALSE /\ UNCHANGED vars

WaitTimesOut ==
    /\ pc = "blocked" /\ pc' = "resume"
    /\ UNCHANGED <<sharedVars, sessionVars, stopPc, poolVars, callerVars>>

(* Wrong form: the delay is never capped.                                   *)
DoubleDelayUncapped ==
    /\ pc = "resume" /\ pc' = "top"
    /\ delay' = 2 * delay
    /\ UNCHANGED <<sharedVars, session, reachedAuthorized, overflowed, lines,
                   extranonce, difficulty, authorized, subscribeId, authorizeId,
                   flushing, stopPc, poolVars, callerVars>>

DoubleDelay ==
    /\ pc = "resume" /\ pc' = "top"
    /\ delay' = IF 2 * delay > MaxDelay THEN MaxDelay ELSE 2 * delay
    /\ UNCHANGED <<sharedVars, session, reachedAuthorized, overflowed, lines,
                   extranonce, difficulty, authorized, subscribeId, authorizeId,
                   flushing, stopPc, poolVars, callerVars>>

-----------------------------------------------------------------------------
(* The workers.  FindShare is the snapshot of the job a worker hashes; the  *)
(* share turns up, and submitShare() is called, any time later.             *)

FindShare(s) ==
    /\ submit[s] = "mining" /\ job # NoJob
    /\ submit' = [submit EXCEPT ![s] = "found"]
    /\ minedIn' = [minedIn EXCEPT ![s] = job.session]
    /\ UNCHANGED <<sharedVars, pc, sessionVars, stopPc, poolVars, job, verdicts>>

(* submitShare() tests the state without the lock ...                       *)
SubmitTests(s) ==
    /\ submit[s] = "found"
    /\ IF state = "Authorized"
         THEN submit' = [submit EXCEPT ![s] = "checked"] /\ UNCHANGED verdicts
         ELSE /\ submit' = [submit EXCEPT ![s] = "returned"]
              /\ verdicts' = [verdicts EXCEPT ![s] = Append(@, "stale")]
    /\ UNCHANGED <<sharedVars, pc, sessionVars, stopPc, poolVars, job, minedIn>>

(* ... and queues the share, whatever has happened since, and notifies.     *)
SubmitQueues(s) ==
    /\ submit[s] = "checked"
    /\ submit' = [submit EXCEPT ![s] = "returned"]
    /\ outbound' = outbound \cup {s}
    /\ pc' = IF pc = "blocked" /\ stopRequested THEN "resume" ELSE pc
    /\ UNCHANGED <<running, stopRequested, state, sock, pending, nextId,
                   sessionVars, stopPc, poolVars, job, minedIn, verdicts>>

-----------------------------------------------------------------------------
(* The pool and the network.                                                *)

(* The pool answers requests in any order, with either verdict, and may     *)
(* answer one twice.  It credits the share whose submission it accepts.     *)
PoolReplies ==
    /\ link = "up" /\ Len(fromPool) < MaxInbox
    /\ \E r \in toPool, ok \in BOOLEAN :
         /\ fromPool' = Append(fromPool, [kind |-> "reply", id |-> r.id, ok |-> ok])
         /\ toPool' \in {toPool, toPool \ {r}}
         /\ credited' = IF ok /\ r.kind = "submit" THEN credited \cup {r.share}
                                                   ELSE credited
    /\ UNCHANGED <<sharedVars, pc, sessionVars, stopPc, link, opened, closes, callerVars>>

PoolPushes ==
    /\ link = "up" /\ Len(fromPool) < MaxInbox
    /\ \/ \E kind \in Pushes \ {"difficulty"} :
            fromPool' = Append(fromPool, [kind |-> kind])
       \/ /\ "difficulty" \in Pushes
          /\ \E value \in 0 .. MaxDifficulty :
               fromPool' = Append(fromPool, [kind |-> "difficulty", value |-> value])
    /\ UNCHANGED <<sharedVars, pc, sessionVars, stopPc, link, opened, closes, toPool,
                   credited, callerVars>>

LinkDrops ==
    /\ link = "up" /\ LinkDown
    /\ UNCHANGED <<sharedVars, pc, sessionVars, stopPc, opened, closes, fromPool,
                   credited, callerVars>>

-----------------------------------------------------------------------------
Connection ==
    \/ ConnectSucceeds \/ ConnectFails \/ SendSubscribe \/ SendAuthorize
    \/ LoopStops \/ TakeOutbound \/ FlushShare \/ FlushDone
    \/ SelectTimesOut \/ ReceiveFails \/ Receive \/ DrainDone \/ CloseConnection

HandleMessage ==
    \/ HandleSubscribeReply \/ HandleAuthorizeReply \/ HandleSubmitReply
    \/ HandleNotify \/ HandleSetDifficulty \/ HandleSetExtranonce \/ HandleReconnect

ClientThread ==
    \/ ExitThread \/ BeginSession \/ Connection \/ HandleMessage
    \/ BackOff \/ BackOffStops \/ WaitTests \/ WaitBlocks \/ WaitTimesOut \/ DoubleDelay

Stopping    == StopNotify \/ StopClose \/ StopJoin
Control     == Start \/ StopRequest \/ Stopping \/ StopAgain
Workers     == \E s \in Shares : FindShare(s) \/ SubmitTests(s) \/ SubmitQueues(s)
Environment == PoolReplies \/ PoolPushes \/ LinkDrops

Next == ClientThread \/ Control \/ Workers \/ Environment

Spec == Init /\ [][Next]_vars

(* The operating system keeps running the connection thread, whose blocking *)
(* calls all return in the end: connect() and select() by their time-outs,  *)
(* wait_for() by the delay.  A stop() once begun runs on.  Nothing is       *)
(* assumed of the pool, the network, or the workers.                        *)
Fairness == WF_vars(ClientThread) /\ WF_vars(Stopping)
FairSpec == Spec /\ Fairness

-----------------------------------------------------------------------------
(* What the client promises.                                                *)

Connected == {"subscribe", "authorize", "loop", "flush", "select", "drain", "close"}
Serving   == {"loop", "flush", "select", "drain", "close"}

SharedTypes ==
    /\ running \in BOOLEAN /\ stopRequested \in BOOLEAN
    /\ state \in PoolStates
    /\ sock \in Sessions \cup {NoSession}
    /\ outbound \in SUBSET Shares
    /\ pending \in SUBSET [id : Nat, share : Shares]
    /\ nextId \in Nat

ThreadTypes ==
    /\ pc \in Connected \cup {"idle", "top", "connect", "backoff", "wait",
                              "blocking", "blocked", "resume", "done"}
    /\ stopPc \in {"idle", "notify", "close", "join", "stopped"}
    /\ pc = "connect" => session # NoSession

SessionTypes ==
    /\ session \in Sessions \cup {NoSession}
    /\ reachedAuthorized \in BOOLEAN
    /\ delay \in InitialDelay .. MaxDelay
    /\ overflowed \in BOOLEAN
    /\ extranonce \in Sessions \cup {NoSession}
    /\ difficulty \in 0 .. MaxDifficulty
    /\ authorized \in BOOLEAN
    /\ subscribeId \in Nat /\ authorizeId \in Nat
    /\ flushing \in SUBSET Shares

LineTypes == lines \in Seq(Message) /\ fromPool \in Seq(Message)

PoolTypes ==
    /\ link \in {"none", "up", "down"}
    /\ opened \in SUBSET Sessions /\ closes \in [Sessions -> Nat]
    /\ toPool \in SUBSET Request
    /\ credited \in SUBSET Shares

CallerTypes ==
    /\ job \in Job
    /\ submit \in [Shares -> {"mining", "found", "checked", "returned"}]
    /\ minedIn \in [Shares -> Sessions \cup {NoSession}]
    /\ verdicts \in [Shares -> Seq(Verdicts)]

(* Every variable has its type.                                             *)
TypeOK ==
    /\ SharedTypes /\ ThreadTypes /\ SessionTypes /\ LineTypes
    /\ PoolTypes /\ CallerTypes

(* A share is counted at most once -- accepted, rejected or stale -- though *)
(* the pool may answer twice, late or out of order, and though a share can  *)
(* be caught by a reconnect anywhere between the worker and the wire.       *)
CountedAtMostOnce == \A s \in Shares : Len(verdicts[s]) <= 1

(* The messages that have reached the client and await handleMessage().     *)
Arrived == {fromPool[i] : i \in 1 .. Len(fromPool)} \cup {lines[i] : i \in 1 .. Len(lines)}

(* A share not yet offered to the client is nowhere in it.                  *)
OfferedOnce ==
    \A s \in Shares : submit[s] # "returned" =>
        /\ s \notin outbound \cup flushing
        /\ verdicts[s] = <<>>
        /\ \A p \in pending : p.share # s

(* A queued share is queued once, was not sent and was not judged.          *)
QueuedOnce ==
    /\ outbound \cap flushing = {}
    /\ \A s \in outbound \cup flushing :
         verdicts[s] = <<>> /\ \A p \in pending : p.share # s

(* An unanswered submission is the only one with its id and of its share.   *)
PendingOnce ==
    /\ \A p \in pending : verdicts[p.share] = <<>>
    /\ \A p, q \in pending : p.id = q.id \/ p.share = q.share => p = q

(* No id is in use that nextId() has not handed out.                        *)
IdsHandedOut ==
    /\ \A p \in pending : p.id < nextId
    /\ \A r \in toPool : r.id < nextId
    /\ \A m \in Arrived : m.kind = "reply" => m.id < nextId

(* What the pool sees under an id is what pendingSubmits_ holds under it,   *)
(* and a favourable answer to it is a share the pool credited.              *)
IdsAgree ==
    \A p \in pending :
        /\ \A r \in toPool : r.id = p.id => r.kind = "submit" /\ r.share = p.share
        /\ \A m \in Arrived : m.kind = "reply" /\ m.id = p.id /\ m.ok
                                => p.share \in credited

(* Every share is in one place, and every id stands for one request: in the *)
(* queue, on the wire, in pendingSubmits_ and in the pool's answers.        *)
SharesInCustody ==
    OfferedOnce /\ QueuedOnce /\ PendingOnce /\ IdsHandedOut /\ IdsAgree

(* A share is counted as accepted only if the pool accepted this very       *)
(* share: request ids never confuse two shares or two sessions.             *)
AcceptedOnlyByThePool ==
    \A s \in Shares : \A i \in DOMAIN verdicts[s] :
        verdicts[s][i] = "accepted" => s \in credited

(* The caller has a job only while the connection that delivered it is      *)
(* being served, with the extranonce that this very connection assigned.    *)
JobOfThisSession ==
    job # NoJob => /\ pc \in Serving
                   /\ job.session = session
                   /\ job.extranonce = session

(* stop() and the connection thread both close the socket: every descriptor *)
(* is closed exactly once by the time stop() returns, whoever gets to it.   *)
DescriptorsClosedOnce ==
    /\ \A c \in Sessions : closes[c] <= (IF c \in opened THEN 1 ELSE 0)
    /\ stopPc = "stopped" => \A c \in opened : closes[c] = 1

(* After stop() the thread is gone, no socket is open, no byte is under way *)
(* in either direction, and the caller has no job.  The queue and the       *)
(* unanswered submissions stay, for the next session to forget.             *)
StoppedIsQuiet ==
    stopPc = "stopped" => /\ pc = "idle" /\ ~running
                          /\ sock = NoSession /\ link # "up"
                          /\ toPool = {} /\ fromPool = <<>>
                          /\ state = "Disconnected" /\ job = NoJob

(* Where a share is, of the places ShareLedger tells apart: a share that    *)
(* submitShare() took and that is neither queued, on its way, awaiting its  *)
(* answer nor judged has been lost.                                         *)
ShareStatus(s) ==
    CASE submit[s] = "mining"                       -> "unfound"
      [] submit[s] \in {"found", "checked"}         -> "found"
      [] verdicts[s] # <<>>                         -> verdicts[s][1]
      [] s \in outbound \cup flushing               -> "queued"
      [] \E p \in pending : p.share = s             -> "sent"
      [] OTHER                                      -> "lost"

Ledger == INSTANCE ShareLedger WITH status <- [s \in Shares |-> ShareStatus(s)]

(* The client keeps the ledger: every share goes its one way, through all   *)
(* reconnects, and is never sent or counted twice.                          *)
KeepsLedger == Ledger!Spec

(* Nothing survives a reconnect (client.cpp:210): a submission goes out on  *)
(* the connection that delivered its job.                                   *)
SubmitsOnlyCurrentWork ==
    \A r \in toPool : r.kind = "submit" => minedIn[r.share] = session

(* Nothing survives a reconnect (client.cpp:210): the handshake starts with *)
(* a line buffer that takes data.                                           *)
FreshLineBuffer == pc = "subscribe" => ~overflowed

(* stop() returns, also when its wake-up is lost.                           *)
StopReturns == stopRequested ~> (stopPc = "stopped")

AtTheBound == pc = "top" /\ session = MaxSession

(* A session that ends is followed by another attempt, unless stopped.      *)
Reconnects ==
    (pc = "backoff") ~> (pc = "connect" \/ stopRequested \/ AtTheBound)

(* A queued share does not stay queued: it is sent or dropped.              *)
QueuedShareLeaves ==
    \A s \in Shares : (s \in outbound) ~> (s \notin outbound \/ stopRequested
                                             \/ AtTheBound)
=============================================================================
