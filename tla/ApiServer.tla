----------------------------- MODULE ApiServer -----------------------------
(***************************************************************************)
(* main() of src/src/main.cpp and the ApiServer of src/src/api/server.cpp,  *)
(* over the MinerController that both of them call: the main thread from    *)
(* start-up to the end of the process, the accept thread with the one       *)
(* connection it serves at a time, and the clients.                         *)
(*                                                                          *)
(* Abstractions.  A request is what it calls and the size of its body; it   *)
(* comes in units, of which the first is the head.  Every call that only    *)
(* reads, static files and refused paths included, is a "file".  The bytes  *)
(* of a body cut short are never valid JSON.                                *)
(***************************************************************************)
EXTENDS MinerController, SequencesExt

CONSTANTS Clients,
          Hasty,       \* those that may hang up before they are answered
          Requests,    \* what each client may ask: [call, body, reads], with the
                       \* units of its declared body and whether the client
                       \* reads a large answer
          MaxRequest,  \* kMaxRequestBytes, in units
          NoClient, NoRequest

ASSUME CallersAssumption  == Callers = {"main", "api"}
ASSUME ClientsAssumption  ==
    Hasty \subseteq Clients /\ NoClient \notin Clients /\ MaxRequest \in Nat \ {0}
ASSUME RequestsAssumption ==
    /\ Requests \in [Clients -> SUBSET [call : {"start", "stop", "config", "file",
                                                "bad"},
                                        body : Nat, reads : BOOLEAN]]
    /\ \A c \in Clients : NoRequest \notin Requests[c]

VARIABLES
    mpc,       \* where main() is
    overlap,   \* did a call of the controller ever begin during another one?
    serving,   \* ApiServer::running_
    listener,  \* the listening socket
    apc, conn, \* where the accept thread is, and with which client
    raw,       \* units of the request it has read
    backlog,   \* connections waiting for accept(), first come first
    req, sent, \* a connected client's request and the units of it that were sent
    end        \* its side of the connection: open, shut down, or reset

conVars  == <<apc, conn, raw>>
cliVars  == <<backlog, req, sent, end>>
netVars  == <<serving, listener, conVars, cliVars>>
procVars == <<mpc, overlap>>
allVars  == <<vars, netVars, procVars>>

InitAll ==
    /\ Init
    /\ mpc = "boot" /\ overlap = FALSE
    /\ serving = FALSE /\ listener = "none"
    /\ apc = "none" /\ conn = NoClient /\ raw = 0
    /\ backlog = <<>>
    /\ req = [c \in Clients |-> NoRequest] /\ sent = [c \in Clients |-> 0]
    /\ end = [c \in Clients |-> "open"]

(* A thread's call of the controller begins, perhaps during another's.      *)
Enters(c) ==
    overlap' = (overlap \/ \E d \in Callers \ {c} : ~At(d, "idle"))

CallsStop(c) == (StopIdle(c) \/ StopBegins(c)) /\ Enters(c)

-----------------------------------------------------------------------------
(* The clients.  The kernel takes connections while the server listens.     *)

Out(c) == c # conn /\ c \notin ToSet(backlog)

ClientConnects(c) ==
    /\ Out(c) /\ listener = "open"
    /\ backlog' = Append(backlog, c)
    /\ \E r \in Requests[c] : req' = [req EXCEPT ![c] = r]
    /\ UNCHANGED <<vars, procVars, serving, listener, conVars, sent, end>>

ClientSends(c) ==
    /\ ~Out(c) /\ end[c] = "open" /\ sent[c] < 1 + req[c].body
    /\ sent' = [sent EXCEPT ![c] = @ + 1]
    /\ UNCHANGED <<vars, procVars, serving, listener, conVars, backlog, req, end>>

ClientHangsUp(c) ==
    /\ c \in Hasty /\ ~Out(c)
    /\ \/ end[c] = "open" /\ end' = [end EXCEPT ![c] = "shut"]
       \/ end[c] # "reset" /\ end' = [end EXCEPT ![c] = "reset"]
    /\ UNCHANGED <<vars, procVars, serving, listener, conVars, backlog, req, sent>>

(* The connections of the clients in gone end.                              *)
Leave(gone) ==
    /\ req' = [c \in Clients |-> IF c \in gone THEN NoRequest ELSE req[c]]
    /\ sent' = [c \in Clients |-> IF c \in gone THEN 0 ELSE sent[c]]
    /\ end' = [c \in Clients |-> IF c \in gone THEN "open" ELSE end[c]]

-----------------------------------------------------------------------------
(* The accept thread: acceptLoop() and serveConnection()                    *)

AcceptGoes(from, to) == apc = from /\ apc' = to

AcceptTop ==
    /\ AcceptGoes("top", IF serving /\ listener = "open" THEN "accept" ELSE "ended")
    /\ UNCHANGED <<vars, procVars, serving, listener, conn, raw, cliVars>>

Accepts ==
    /\ AcceptGoes("accept", "recv") /\ listener = "open" /\ backlog # <<>>
    /\ conn' = Head(backlog) /\ backlog' = Tail(backlog) /\ raw' = 0
    /\ UNCHANGED <<vars, procVars, serving, listener, req, sent, end>>

(* Wrong form: any failure of accept() ends the loop.                       *)
AcceptAbortedEnds ==
    /\ AcceptGoes("accept", "ended") /\ listener = "open"
    /\ backlog # <<>> /\ end[Head(backlog)] = "reset"
    /\ Leave({Head(backlog)}) /\ backlog' = Tail(backlog)
    /\ UNCHANGED <<vars, procVars, serving, listener, conn, raw>>

(* A connection that was reset in the backlog: accept() fails, once.        *)
AcceptAborted ==
    /\ AcceptGoes("accept", "top") /\ listener = "open"
    /\ backlog # <<>> /\ end[Head(backlog)] = "reset"
    /\ Leave({Head(backlog)}) /\ backlog' = Tail(backlog)
    /\ UNCHANGED <<vars, procVars, serving, listener, conn, raw>>

AcceptClosed ==
    /\ AcceptGoes("accept", IF serving THEN "top" ELSE "ended") /\ listener = "closed"
    /\ UNCHANGED <<vars, procVars, serving, listener, conn, raw, cliVars>>

Whole(n) == n >= 1 + req[conn].body

(* One recv(), with the tests that follow it.                               *)
Receives ==
    /\ apc = "recv" /\ end[conn] # "reset"
    /\ \E n \in 1 .. sent[conn] - raw :
         /\ raw' = raw + n
         /\ apc' = IF raw' > MaxRequest THEN "large"
                   ELSE IF Whole(raw') THEN "handle" ELSE "recv"
    /\ UNCHANGED <<vars, procVars, serving, listener, conn, cliVars>>

(* recv() says that the client hung up: what has come so far is handled.    *)
ReceivesEnd ==
    /\ AcceptGoes("recv", "handle")
    /\ end[conn] = "reset" \/ (end[conn] = "shut" /\ raw = sent[conn])
    /\ UNCHANGED <<vars, procVars, serving, listener, conn, raw, cliVars>>

(* Without its head, the request cannot be parsed; a body must be JSON.     *)
Malformed == raw = 0 \/ req[conn].call = "bad"
                \/ (req[conn].call = "config" /\ ~Whole(raw))

Asks(call) == apc = "handle" /\ ~Malformed /\ req[conn].call = call

HandlesItself ==
    /\ AcceptGoes("handle", "send")
    /\ Malformed \/ Asks("file")
    /\ UNCHANGED <<vars, procVars, serving, listener, conn, raw, cliVars>>

HandlesStart ==
    /\ Asks("start")
    /\ \/ StartRefused("api") /\ apc' = "send" /\ UNCHANGED overlap
       \/ StartBegins("api") /\ apc' = "calling" /\ Enters("api")
    /\ UNCHANGED <<mpc, serving, listener, conn, raw, cliVars>>

HandlesStop ==
    /\ Asks("stop")
    /\ CallsStop("api") /\ apc' = "calling"
    /\ UNCHANGED <<mpc, serving, listener, conn, raw, cliVars>>

HandlesConfig ==
    /\ Asks("config")
    /\ \/ UpdateRefused("api") /\ apc' = "send" /\ UNCHANGED overlap
       \/ UpdateBegins("api") /\ apc' = "calling" /\ Enters("api")
    /\ UNCHANGED <<mpc, serving, listener, conn, raw, cliVars>>

CallReturns ==
    /\ AcceptGoes("calling", "send") /\ At("api", "idle")
    /\ UNCHANGED <<vars, procVars, serving, listener, conn, raw, cliVars>>

(* The answer is written and the connection closed.  A client that does not *)
(* read lets the thread wait, if the answer is large.                       *)
Answers ==
    /\ apc \in {"send", "large"} /\ end[conn] # "reset" /\ req[conn].reads
    /\ Leave({conn}) /\ UNCHANGED backlog
    /\ apc' = "top" /\ conn' = NoClient /\ raw' = 0
    /\ UNCHANGED <<vars, procVars, serving, listener>>

AnswerFails ==
    /\ apc \in {"send", "large"} /\ end[conn] = "reset"
    /\ Leave({conn}) /\ UNCHANGED backlog
    /\ apc' = "top" /\ conn' = NoClient /\ raw' = 0
    /\ UNCHANGED <<vars, procVars, serving, listener>>

(* send() has no MSG_NOSIGNAL, and nothing handles SIGPIPE.                 *)
AnswerKills ==
    /\ apc \in {"send", "large"} /\ end[conn] = "reset"
    /\ ctl' = [ctl EXCEPT !["api"] = "killed"]
    /\ UNCHANGED <<flags, stats, config, pool, workers, wpc, wVars, jobVars>>
    /\ UNCHANGED <<procVars, netVars>>

-----------------------------------------------------------------------------
(* The main thread                                                          *)

MainGoes(from, to) == mpc = from /\ mpc' = to

(* ApiServer::start()                                                       *)
MainServes ==
    /\ MainGoes("boot", "begin")
    /\ serving' = TRUE /\ listener' = "open" /\ apc' = "top"
    /\ UNCHANGED <<vars, overlap, conn, raw, cliVars>>

(* The port is taken; or --no-dashboard.                                    *)
MainServesNot ==
    /\ mpc = "boot" /\ mpc' \in {"destroy", "begin"}
    /\ UNCHANGED <<vars, overlap, netVars>>

(* --start                                                                  *)
MainStarts ==
    \/ /\ MainGoes("begin", "starting")
       /\ StartBegins("main") /\ Enters("main")
       /\ UNCHANGED netVars
    \/ /\ MainGoes("begin", IF listener = "open" THEN "wait" ELSE "destroy")
       /\ StartRefused("main")
       /\ UNCHANGED <<netVars, overlap>>

MainStartsNot ==
    /\ MainGoes("begin", "wait")
    /\ UNCHANGED <<vars, overlap, netVars>>

MainStarted ==
    /\ MainGoes("starting", "wait") /\ At("main", "idle")
    /\ UNCHANGED <<vars, overlap, netVars>>

(* SIGINT or SIGTERM                                                        *)
Signal ==
    /\ MainGoes("wait", "stop")
    /\ UNCHANGED <<vars, overlap, netVars>>

MainStops ==
    /\ MainGoes("stop", "stopping") /\ CallsStop("main")
    /\ UNCHANGED netVars

MainStopped ==
    /\ MainGoes("stopping", "close") /\ At("main", "idle")
    /\ UNCHANGED <<vars, overlap, netVars>>

(* ApiServer::stop()                                                        *)
ServerStops ==
    /\ MainGoes("close", IF serving THEN "unlisten" ELSE "destroy")
    /\ serving' = FALSE
    /\ UNCHANGED <<vars, overlap, listener, conVars, cliVars>>

(* Wrong form: the socket is left for the destructor.                       *)
ServerClosesNot ==
    /\ MainGoes("unlisten", "await")
    /\ UNCHANGED <<vars, overlap, serving, listener, conVars, cliVars>>

(* Shutting the listening socket down wakes accept() and resets the backlog. *)
ServerCloses ==
    /\ MainGoes("unlisten", "await")
    /\ listener' = "closed"
    /\ Leave(ToSet(backlog)) /\ backlog' = <<>>
    /\ UNCHANGED <<vars, overlap, serving, conVars>>

(* Wrong form: the accept thread is detached.                               *)
ServerDetaches ==
    /\ MainGoes("await", "destroy")
    /\ UNCHANGED <<vars, overlap, netVars>>

ServerJoins ==
    /\ MainGoes("await", "destroy") /\ apc = "ended"
    /\ UNCHANGED <<vars, overlap, netVars>>

(* ~MinerController() stops once more, ...                                  *)
MainDestroys ==
    /\ MainGoes("destroy", "destroying") /\ CallsStop("main")
    /\ UNCHANGED netVars

(* ... and a thread left in workers_ that nobody joined ends the process    *)
(* with std::terminate().                                                   *)
MainExits ==
    /\ MainGoes("destroying", "exited") /\ At("main", "idle")
    /\ ctl' = [ctl EXCEPT !["main"] = IF workers = {} THEN "idle" ELSE "crashed"]
    /\ UNCHANGED <<flags, stats, config, pool, workers, wpc, wVars, jobVars>>
    /\ UNCHANGED <<overlap, netVars>>

-----------------------------------------------------------------------------
MainStep == \/ MainServes \/ MainServesNot \/ MainStarts \/ MainStartsNot
            \/ MainStarted \/ MainStops \/ MainStopped \/ ServerStops
            \/ ServerCloses \/ ServerJoins \/ MainDestroys \/ MainExits
AcceptStep == \/ AcceptTop \/ Accepts \/ AcceptAborted \/ AcceptClosed \/ Receives \/ ReceivesEnd
              \/ HandlesItself \/ HandlesStart \/ HandlesStop \/ HandlesConfig
              \/ CallReturns \/ Answers \/ AnswerFails \/ AnswerKills

Within(A) == A /\ UNCHANGED <<netVars, procVars>>

MainThread   == Up /\ (MainStep \/ Within(Advance("main")))
AcceptThread == Up /\ (AcceptStep \/ Within(Advance("api")))
WorkerThread(t) == Within(Worker(t))
Client(c)    == Up /\ (ClientConnects(c) \/ ClientSends(c) \/ ClientHangsUp(c))

Over == (mpc = "exited" \/ ~Up) /\ UNCHANGED allVars

(* The pool's callbacks come from the client's own thread, at any time.     *)
NextAll ==
    \/ MainThread \/ AcceptThread \/ (Up /\ Signal) \/ Over
    \/ Within(Callback)
    \/ \E t \in Threads : WorkerThread(t)
    \/ \E c \in Clients : Client(c)
    \/ \E c \in Callers : Up /\ Within(Collides(c))

SpecAll == InitAll /\ [][NextAll]_allVars

(* The threads of the process run on.  No client is waited for, and nobody  *)
(* has to send the signal.                                                  *)
FairnessAll ==
    /\ WF_allVars(MainThread) /\ WF_allVars(AcceptThread)
    /\ \A t \in Threads : WF_allVars(WorkerThread(t))
FairSpecAll == SpecAll /\ FairnessAll

-----------------------------------------------------------------------------
(* Every variable has its type.                                             *)
ServerTypeOK ==
    /\ mpc \in {"boot", "begin", "starting", "wait", "stop", "stopping", "close",
                "unlisten", "await", "destroy", "destroying", "exited"}
    /\ overlap \in BOOLEAN /\ serving \in BOOLEAN
    /\ listener \in {"none", "open", "closed"}
    /\ apc \in {"none", "top", "accept", "recv", "handle", "calling", "send",
                "large", "ended"}
    /\ conn \in Clients \cup {NoClient} /\ raw \in Nat
    /\ backlog \in Seq(Clients)
    /\ \A c \in Clients : req[c] \in Requests[c] \cup {NoRequest}
    /\ sent \in [Clients -> Nat]
    /\ end \in [Clients -> {"open", "shut", "reset"}]

Crashed == \E c \in Callers : At(c, "crashed")

(* When main() has returned, nothing of the process is left at work, though *)
(* a request may have started the miner after main() stopped it: no worker,  *)
(* no pool client, no accept thread, no connection.                         *)
ExitIsClean ==
    mpc = "exited" /\ Up =>
        /\ ~running /\ pool = "none"
        /\ \A t \in Threads : wpc[t] = "none"
        /\ ~serving /\ listener # "open" /\ apc \in {"none", "ended"}
        /\ \A c \in Clients : Out(c)

(* main() and the dashboard may call start(), stop() and updateConfig() in   *)
(* any order: as long as no call begins during another one, no thread is    *)
(* left unjoined, no client is destroyed in use, and the configuration does *)
(* not change under a live connection.                                      *)
SerialCallsAreSafe ==
    /\ [](Crashed => overlap)
    /\ [][config' # config => overlap \/ pool # "live"]_allVars

(* The connection that is being served holds the thread up: the client      *)
(* neither sends nor hangs up, or does not read what it asked for.          *)
Stalled ==
    /\ conn # NoClient /\ end[conn] # "reset"
    /\ \/ apc = "recv" /\ end[conn] = "open" /\ raw = sent[conn]
       \/ apc \in {"send", "large"} /\ ~req[conn].reads

(* After the signal the process ends, unless a client holds the accept      *)
(* thread for ever, or calls overlap.                                       *)
ShutdownEnds ==
    <>[]Stalled \/ (mpc = "stop" ~> mpc = "exited" \/ ~Up \/ overlap)

(* A request that is complete is answered, unless another client holds the  *)
(* thread for ever or the server is stopped first.                          *)
RequestsAnswered ==
    \A c \in Clients :
        <>[]Stalled
        \/ (~Out(c) /\ sent[c] = 1 + req[c].body /\ end[c] # "reset"
              ~> Out(c) \/ end[c] = "reset" \/ ~serving \/ ~Up \/ overlap)
=============================================================================
