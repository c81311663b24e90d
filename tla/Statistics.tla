----------------------------- MODULE Statistics -----------------------------
(***************************************************************************)
(* The counters of src/src/mining/stats.cpp.  Workers record hashes, the    *)
(* connection thread records shares, the controller begins and ends         *)
(* sessions, and the API reads.  Every recording and every reading holds    *)
(* the mutex, so that a run of the program is a sequence of recordings; but *)
(* a thread reads the clock before it takes the mutex, so that the times in *)
(* the sequence are in no order.                                            *)
(*                                                                          *)
(* Abstractions.  Times are in steps of the coarsest clock the windows can  *)
(* be told apart by; a rate is its two parts, hashes and elapsed time.      *)
(* Counters that are only counted up, states and descriptions are left out. *)
(***************************************************************************)
EXTENDS Integers, Sequences, SequencesExt

CONSTANTS Kept,       \* 70 s: how long a sample is kept
          Windows     \* 10 s and 60 s: the windows that are reported

ASSUME WindowsAssumption == Kept \in Nat /\ \A w \in Windows : w \in 1 .. Kept

(* A recording; "at" is the clock as the thread read it.                    *)
Recording(kinds, times, amounts) == [kind : kinds, at : times, amount : amounts]

InitialStatistics ==
    [samples |-> <<>>, hashes |-> 0, sessionHashes |-> 0, best |-> 0]

(* Wrong form: the samples kept are those of the longest window.            *)
PrunedShort(samples, now) ==
    LET kept == {i \in 1 .. Len(samples) : samples[i].at >= now - Max(Windows)}
    IN  IF kept = {} THEN <<>> ELSE SubSeq(samples, Min(kept), Len(samples))

(* pruneSamplesLocked(): from the front, up to the first sample to keep.    *)
Pruned(samples, now) ==
    LET kept == {i \in 1 .. Len(samples) : samples[i].at >= now - Kept}
    IN  IF kept = {} THEN <<>> ELSE SubSeq(samples, Min(kept), Len(samples))

(* addHashes(), recordAcceptedShare(), beginSession() and endSession().     *)
AddHashes(s, r) ==
    IF r.amount = 0 THEN s
    ELSE [s EXCEPT !.hashes = @ + r.amount, !.sessionHashes = @ + r.amount,
                   !.samples = Pruned(Append(@, [at |-> r.at, hashes |-> r.amount]), r.at)]

RecordAcceptedShare(s, r) == [s EXCEPT !.best = IF r.amount > @ THEN r.amount ELSE @]

BeginSession(s) == [s EXCEPT !.sessionHashes = 0, !.samples = <<>>, !.best = 0]

EndSession(s) == [s EXCEPT !.samples = <<>>]

Recorded(s, r) ==
    CASE r.kind = "hashes" -> AddHashes(s, r)
      [] r.kind = "share"  -> RecordAcceptedShare(s, r)
      [] r.kind = "begin"  -> BeginSession(s)
      [] r.kind = "end"    -> EndSession(s)

Statistics(recordings) ==
    LET after[n \in 0 .. Len(recordings)] ==
          IF n = 0 THEN InitialStatistics ELSE Recorded(after[n - 1], recordings[n])
    IN  after[Len(recordings)]

(* hashrateOverWindow(): hashes by the time since the oldest sample of the  *)
(* window, or nothing where no time has passed.                             *)
Nothing == [hashes |-> 0, elapsed |-> 1]
HashrateOverWindow(s, now, window) ==
    LET counted == {i \in DOMAIN s.samples : s.samples[i].at >= now - window}
        amounts == [i \in DOMAIN s.samples |-> s.samples[i].hashes]
        hashes  == SumFunctionOnSet(amounts, counted)
        oldest  == Min({now} \cup {s.samples[i].at : i \in counted})
    IN  IF hashes = 0 \/ now - oldest <= 0 THEN Nothing
        ELSE [hashes |-> hashes, elapsed |-> now - oldest]

-----------------------------------------------------------------------------
(* What the numbers stand for, from the recordings alone.                   *)

LastOf(recordings, kinds) ==
    Max({0} \cup {i \in DOMAIN recordings : recordings[i].kind \in kinds})

OfKind(recordings, kind, from) ==
    {i \in DOMAIN recordings : i > from /\ recordings[i].kind = kind}

SumOf(recordings, chosen) ==
    SumFunctionOnSet([i \in DOMAIN recordings |-> recordings[i].amount], chosen)

(* A reader whose clock is not behind a worker's by more than what is kept  *)
(* beyond the window.                                                       *)
InTime(recordings, now, window) ==
    \A i \in DOMAIN recordings : now >= recordings[i].at - (Kept - window)

(* Whichever order the clocks and the mutex come in, nothing that pruning   *)
(* threw away is missed: a window holds all the hashes recorded in it since *)
(* the session changed.  The session's counters hold everything since it    *)
(* began, also when it has ended.                                           *)
CountsWhatHappened(recordings, times) ==
    LET s       == Statistics(recordings)
        session == LastOf(recordings, {"begin"})
        cleared == LastOf(recordings, {"begin", "end"})
    IN  /\ \A window \in Windows, now \in times :
             LET due    == {i \in OfKind(recordings, "hashes", cleared) :
                              recordings[i].amount > 0 /\ recordings[i].at >= now - window}
                 oldest == Min({now} \cup {recordings[i].at : i \in due})
             IN  InTime(recordings, now, window) =>
                   HashrateOverWindow(s, now, window) =
                     IF oldest = now THEN Nothing
                     ELSE [hashes |-> SumOf(recordings, due), elapsed |-> now - oldest]
        /\ s.hashes = SumOf(recordings, OfKind(recordings, "hashes", 0))
        /\ s.sessionHashes = SumOf(recordings, OfKind(recordings, "hashes", session))
        /\ s.best = Max({0} \cup {recordings[i].amount :
                                    i \in OfKind(recordings, "share", session)})
=============================================================================
