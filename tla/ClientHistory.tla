--------------------------- MODULE ClientHistory ---------------------------
(***************************************************************************)
(* StratumClient with a record of what it has read from its pools, kept     *)
(* beside the client and never read by it: the difficulties announced to it *)
(* and the connections it has attempted.  With them the module states which *)
(* difficulty a job may be worked at, and how long the client waits before  *)
(* it connects again.                                                       *)
(*                                                                          *)
(* The record is taken from the messages themselves, whichever handler gets *)
(* them and whatever it makes of them.                                      *)
(***************************************************************************)
EXTENDS StratumClient, Powers

VARIABLES announced,   \* the difficulty last announced in this session, 0 for none
          received,    \* the one in force when the job at hand was received
          since,       \* those announced since then, while it is at hand
          attempts     \* connections attempted, the last authorized one being the first

history == <<announced, received, since, attempts>>
hvars   == <<vars, history>>

NoDifficulty == 0

(* The step hands the first complete line, one of this kind, to             *)
(* handleMessage().                                                         *)
Reads(kind) ==
    pc = "drain" /\ lines # <<>> /\ message.kind = kind /\ lines' = Tail(lines)

(* A difficulty that is not positive announces nothing (client.cpp:445).    *)
ReadsDifficulty == Reads("difficulty") /\ message.value > 0

(* The pool's consent to the request that mining.authorize was sent under.  *)
ReadsAuthorization == Reads("reply") /\ message.id = authorizeId /\ message.ok

Attempts == session' # session
Starts   == running' /\ ~running

RecordAnnounced ==
    announced' = IF Attempts THEN NoDifficulty
                 ELSE IF ReadsDifficulty THEN message.value ELSE announced

(* What is remembered of a job is forgotten with it.                        *)
RecordReceived ==
    /\ received' = IF job' = NoJob THEN NoDifficulty
                   ELSE IF Reads("notify") THEN announced ELSE received
    /\ since' = IF job' = NoJob \/ Reads("notify") THEN {}
                ELSE IF ReadsDifficulty THEN since \cup {message.value} ELSE since

RecordAttempts ==
    attempts' = IF Starts THEN 0
                ELSE IF Attempts THEN attempts + 1
                ELSE IF ReadsAuthorization THEN 1 ELSE attempts

HInit ==
    /\ Init
    /\ announced = NoDifficulty /\ received = NoDifficulty /\ since = {}
    /\ attempts = 0

HNext == Next /\ RecordAnnounced /\ RecordReceived /\ RecordAttempts

HSpec == HInit /\ [][HNext]_hvars

-----------------------------------------------------------------------------
(* Whatever the order of mining.notify, mining.set_difficulty and lost      *)
(* connections, a job is worked at the difficulty in force when it was      *)
(* received or at one announced since on its own connection: never at one   *)
(* that was superseded before the job came, nor at another session's.       *)
(* work.hpp:44 has the first of the two only, "in force when this job was   *)
(* received"; onDifficulty() (miner.cpp:289-295) gives the job at hand any  *)
(* later one as well, and the property allows it.                           *)
JobAtAnnouncedDifficulty == job # NoJob => job.difficulty \in {received} \cup since

(* The wait that follows k attempts, none of them but perhaps the first     *)
(* authorized: it doubles from the initial one up to the longest.           *)
WaitAfter(k) ==
    IF InitialDelay * Pow2[k - 1] > MaxDelay THEN MaxDelay
                                             ELSE InitialDelay * Pow2[k - 1]

(* The client waits as long as the attempts since its last healthy session  *)
(* call for, however these ended: pools that refuse are asked ever less     *)
(* often, and a healthy session that drops is followed by the shortest      *)
(* wait, whatever the attempts before it had built up.                      *)
BackOffFollowsAttempts ==
    pc \in {"wait", "blocking", "blocked"} => delay = WaitAfter(attempts)
=============================================================================
