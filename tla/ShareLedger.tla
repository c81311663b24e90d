---------------------------- MODULE ShareLedger ----------------------------
(***************************************************************************)
(* What the miner promises about a share, whatever the connection does: a   *)
(* share that a worker finds is either refused at once and counted stale,   *)
(* or queued for the pool.  A queued share is sent or lost, a sent one is   *)
(* judged or lost.  A share ends in one way only, it is never offered again *)
(* and it counts as accepted only if the pool credited it.                  *)
(***************************************************************************)
CONSTANT Shares

VARIABLES status,    \* where each share is
          credited   \* the shares the pool accepted

ledger == <<status, credited>>

Final    == {"accepted", "rejected", "stale", "lost"}
Statuses == {"unfound", "found", "queued", "sent"} \cup Final

Init ==
    /\ status = [s \in Shares |-> "unfound"]
    /\ credited = {}

Move(S, to) == status' = [s \in Shares |-> IF s \in S THEN to ELSE status[s]]

Find(s)   == status[s] = "unfound" /\ Move({s}, "found") /\ UNCHANGED credited
Refuse(s) == status[s] = "found" /\ Move({s}, "stale") /\ UNCHANGED credited
Queue(s)  == status[s] = "found" /\ Move({s}, "queued") /\ UNCHANGED credited
Send(s)   == status[s] = "queued" /\ Move({s}, "sent") /\ UNCHANGED credited
Credit(s) ==
    /\ status[s] \in {"sent", "accepted", "rejected"}
    /\ credited' = credited \cup {s} /\ UNCHANGED status
Accept(s) ==
    /\ status[s] = "sent" /\ s \in credited
    /\ Move({s}, "accepted") /\ UNCHANGED credited
Reject(s) == status[s] = "sent" /\ Move({s}, "rejected") /\ UNCHANGED credited

(* A connection takes everything it carries down with it.                   *)
Lose(S) ==
    /\ \A s \in S : status[s] \in {"queued", "sent"}
    /\ Move(S, "lost") /\ UNCHANGED credited

Next ==
    \/ \E s \in Shares : \/ Find(s) \/ Refuse(s) \/ Queue(s) \/ Send(s)
                         \/ Credit(s) \/ Accept(s) \/ Reject(s)
    \/ \E S \in SUBSET Shares : Lose(S)

Spec == Init /\ [][Next]_ledger
=============================================================================
