---------------------------- MODULE MCApiServer ----------------------------
(* ApiServer with one client that asks for everything there is, again and   *)
(* again, and one that asks for a file.                                     *)
EXTENDS ApiServer

CONSTANTS busy, plain

Ask(call, body) == [call |-> call, body |-> body, reads |-> TRUE]

MCClients  == {busy, plain}
MCRequests ==
    [c \in MCClients |->
        IF c = busy
          THEN {Ask("start", 0), Ask("stop", 0), Ask("config", 1), Ask("bad", 2),
                [call |-> "file", body |-> 0, reads |-> FALSE]}
          ELSE {Ask("file", 0)}]

(* After two calls have overlapped, only the busy client goes on, and only   *)
(* if the pool has not said anything: the liveness properties ask for no    *)
(* more then.                                                               *)
FewOverlaps == overlap => generation = 0 /\ version = 0 /\ Out(plain)
=============================================================================
