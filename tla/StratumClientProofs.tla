------------------------ MODULE StratumClientProofs -------------------------
(***************************************************************************)
(* Theorems about StratumClient, for every set of shares and every bound,   *)
(* in four parts: the shares; the sessions, that is the job the caller has, *)
(* the descriptors and what is left of both when stop() has returned; the   *)
(* difficulties and the waits, over the record of ClientHistory; and the    *)
(* refinement of ShareLedger.                                               *)
(***************************************************************************)
EXTENDS ClientHistory, SequenceTheorems, NaturalsInduction, WellFoundedInduction,
        TLAPS

(* The types of the bounds.                                                 *)
LEMMA Bounds ==
    /\ MaxSession \in Nat \ {0} /\ MaxInbox \in Nat /\ MaxDifficulty \in Nat
    /\ InitialDelay \in Nat \ {0} /\ MaxDelay \in Nat /\ InitialDelay <= MaxDelay
    /\ Pushes \subseteq PushKinds
BY BoundsAssumption, DelayAssumption, PushesAssumption

(* Nothing read is a sequence of messages.                                  *)
LEMMA EmptyIsLine == <<>> \in Seq(Message)
OBVIOUS

(* What handleMessage() looks at is a message, what it leaves is messages.  *)
LEMMA HeadIsMessage ==
    ASSUME lines \in Seq(Message), lines # <<>>
    PROVE  message \in Message /\ Tail(lines) \in Seq(Message)
BY HeadTailProperties DEF message

(* recv() takes a first part of what has arrived and leaves the rest.       *)
LEMMA PartsOfLine ==
    ASSUME NEW line \in Seq(Message), NEW n \in 1 .. Len(line)
    PROVE  /\ SubSeq(line, 1, n) \in Seq(Message)
           /\ SubSeq(line, n + 1, Len(line)) \in Seq(Message)
<1>1. Len(line) \in Nat
  OBVIOUS
<1>2. \A i \in 1 .. Len(line) : line[i] \in Message
  OBVIOUS
<1>3. SubSeq(line, 1, n) \in Seq(Message)
  BY <1>1, <1>2, SubSeqProperties
<1>4. SubSeq(line, n + 1, Len(line)) \in Seq(Message)
  BY <1>1, <1>2, SubSeqProperties
<1>. QED BY <1>3, <1>4

(* The fields of a message are there for the kinds that have them.          *)
LEMMA MessageFields ==
    ASSUME NEW m \in Message
    PROVE  /\ m.kind = "reply" => m.id \in Nat /\ m.ok \in BOOLEAN
           /\ m.kind = "difficulty" => m.value \in 0 .. MaxDifficulty
<1>1. CASE m \in [kind : {"reply"}, id : Nat, ok : BOOLEAN]
  BY <1>1
<1>2. CASE m \in [kind : {"difficulty"}, value : 0 .. MaxDifficulty]
  BY <1>2
<1>3. CASE m \in [kind : PushKinds \ {"difficulty"}]
  BY <1>3 DEF PushKinds
<1>. QED BY <1>1, <1>2, <1>3 DEF Message

(* A message more is still a sequence of messages.                          *)
LEMMA AppendKeepsLine ==
    ASSUME NEW line \in Seq(Message), NEW m \in Message
    PROVE  Append(line, m) \in Seq(Message)
BY AppendProperties

(* A descriptor closed once more has been closed a number of times.         *)
LEMMA OneMoreClose ==
    ASSUME NEW S, NEW f \in [S -> Nat], NEW c
    PROVE  [f EXCEPT ![c] = @ + 1] \in [S -> Nat]
<1>. DEFINE g == [f EXCEPT ![c] = @ + 1]
<1>1. \A x \in S : f[x] \in Nat
  OBVIOUS
<1>2. g = [x \in S |-> IF x = c THEN f[c] + 1 ELSE f[x]]
  BY Zenon
<1>3. \A x \in S : (IF x = c THEN f[c] + 1 ELSE f[x]) \in Nat
  BY <1>1
<1>. QED BY <1>2, <1>3

(* A verdict more is still a sequence of verdicts.                          *)
LEMMA AppendKeepsVerdicts ==
    ASSUME NEW past \in Seq(Verdicts), NEW v \in Verdicts
    PROVE  Append(past, v) \in Seq(Verdicts)
BY AppendProperties

(* The initial states are well typed.                                       *)
LEMMA TypeInit == Init => TypeOK
<1>. SUFFICES ASSUME Init PROVE TypeOK
  OBVIOUS
<1>. USE Bounds DEF Init, Sessions, NoSession
<1>1. SharedTypes
  BY DEF SharedTypes, PoolStates
<1>2. ThreadTypes
  BY DEF ThreadTypes
<1>3. SessionTypes
  <2>1. delay \in InitialDelay .. MaxDelay /\ difficulty \in 0 .. MaxDifficulty
    OBVIOUS
  <2>2. /\ session \in Sessions \cup {NoSession}
        /\ extranonce \in Sessions \cup {NoSession}
        /\ subscribeId \in Nat /\ authorizeId \in Nat /\ flushing \in SUBSET Shares
    OBVIOUS
  <2>3. reachedAuthorized \in BOOLEAN /\ overflowed \in BOOLEAN /\ authorized \in BOOLEAN
    OBVIOUS
  <2>. QED BY <2>1, <2>2, <2>3 DEF SessionTypes
<1>4. LineTypes
  BY EmptyIsLine DEF LineTypes
<1>5. PoolTypes
  BY DEF PoolTypes
<1>6. CallerTypes
  <2>1. <<>> \in Seq(Verdicts)
    OBVIOUS
  <2>. QED BY <2>1 DEF CallerTypes, Job, NoJob
<1>. QED BY <1>1, <1>2, <1>3, <1>4, <1>5, <1>6 DEF TypeOK

(* Every step keeps the types.                                              *)
LEMMA TypeStep == TypeOK /\ Next => TypeOK'
<1>. SUFFICES ASSUME TypeOK PROVE Next => TypeOK'
  OBVIOUS
<1>. USE Bounds DEF TypeOK, SharedTypes, ThreadTypes, SessionTypes, LineTypes,
        PoolTypes, CallerTypes, sharedVars, sessionVars, poolVars, callerVars,
        Connected, PoolStates, Job, NoJob, Sessions, NoSession, Request, Verdicts
<1>1. ExitThread => TypeOK'
  BY DEF TypeOK, ExitThread
<1>2. ASSUME BeginSession PROVE TypeOK'
  <2>1. SharedTypes'
    BY <1>2 DEF BeginSession, SetState
  <2>2. ThreadTypes'
    BY <1>2 DEF BeginSession, SetState
  <2>3. SessionTypes'
    <3>1. session' \in Sessions /\ difficulty' \in 0 .. MaxDifficulty
      BY <1>2 DEF BeginSession
    <3>. HIDE DEF Sessions, NoSession
    <3>. QED BY <1>2, <3>1 DEF BeginSession
  <2>4. LineTypes'
    BY <1>2, EmptyIsLine DEF BeginSession, SetState
  <2>5. PoolTypes'
    BY <1>2 DEF BeginSession, SetState
  <2>6. CallerTypes'
    BY <1>2 DEF BeginSession, SetState
  <2>. QED BY <2>1, <2>2, <2>3, <2>4, <2>5, <2>6 DEF TypeOK
<1>3. ASSUME ConnectSucceeds PROVE TypeOK'
  <2>1. SharedTypes'
    BY <1>3 DEF ConnectSucceeds, SetState
  <2>2. ThreadTypes'
    BY <1>3 DEF ConnectSucceeds, SetState
  <2>3. SessionTypes'
    BY <1>3 DEF ConnectSucceeds, SetState
  <2>4. LineTypes'
    BY <1>3, EmptyIsLine DEF ConnectSucceeds, SetState
  <2>5. PoolTypes'
    <3>1. opened' \in SUBSET Sessions
      BY <1>3 DEF ConnectSucceeds
    <3>. QED BY <1>3, <3>1 DEF ConnectSucceeds
  <2>6. CallerTypes'
    BY <1>3 DEF ConnectSucceeds, SetState
  <2>. QED BY <2>1, <2>2, <2>3, <2>4, <2>5, <2>6 DEF TypeOK
<1>4. ASSUME ConnectFails PROVE TypeOK'
  <2>1. SharedTypes'
    BY <1>4 DEF ConnectFails, SetState
  <2>2. ThreadTypes'
    BY <1>4 DEF ConnectFails, SetState
  <2>3. SessionTypes'
    BY <1>4 DEF ConnectFails, SetState
  <2>4. LineTypes'
    BY <1>4 DEF ConnectFails, SetState
  <2>5. PoolTypes'
    BY <1>4 DEF ConnectFails, SetState
  <2>6. CallerTypes'
    BY <1>4 DEF ConnectFails, SetState
  <2>. QED BY <2>1, <2>2, <2>3, <2>4, <2>5, <2>6 DEF TypeOK
<1>5. ASSUME SendSubscribe PROVE TypeOK'
  <2>1. SharedTypes'
    BY <1>5 DEF SendSubscribe, SendSucceeds, SendFails, SetState
  <2>2. ThreadTypes'
    BY <1>5 DEF SendSubscribe, SendSucceeds, SendFails, SetState
  <2>3. SessionTypes'
    BY <1>5 DEF SendSubscribe, SendSucceeds, SendFails, SetState
  <2>4. LineTypes'
    BY <1>5 DEF SendSubscribe, SendSucceeds, SendFails, SetState
  <2>5. PoolTypes'
    BY <1>5 DEF SendSubscribe, SendSucceeds, SendFails, SetState
  <2>6. CallerTypes'
    BY <1>5 DEF SendSubscribe, SendSucceeds, SendFails, SetState
  <2>. QED BY <2>1, <2>2, <2>3, <2>4, <2>5, <2>6 DEF TypeOK
<1>6. ASSUME SendAuthorize PROVE TypeOK'
  <2>1. SharedTypes'
    BY <1>6 DEF SendAuthorize, SendSucceeds, SendFails, SetState
  <2>2. ThreadTypes'
    BY <1>6 DEF SendAuthorize, SendSucceeds, SendFails, SetState
  <2>3. SessionTypes'
    BY <1>6 DEF SendAuthorize, SendSucceeds, SendFails, SetState
  <2>4. LineTypes'
    BY <1>6 DEF SendAuthorize, SendSucceeds, SendFails, SetState
  <2>5. PoolTypes'
    BY <1>6 DEF SendAuthorize, SendSucceeds, SendFails, SetState
  <2>6. CallerTypes'
    BY <1>6 DEF SendAuthorize, SendSucceeds, SendFails, SetState
  <2>. QED BY <2>1, <2>2, <2>3, <2>4, <2>5, <2>6 DEF TypeOK
<1>7. LoopStops => TypeOK'
  BY DEF TypeOK, LoopStops
<1>8. TakeOutbound => TypeOK'
  BY DEF TypeOK, TakeOutbound
<1>9. ASSUME FlushShare PROVE TypeOK'
  <2>1. SharedTypes'
    BY <1>9 DEF FlushShare, SendSucceeds, SendFails
  <2>2. ThreadTypes'
    BY <1>9 DEF FlushShare, SendSucceeds, SendFails
  <2>3. SessionTypes'
    BY <1>9 DEF FlushShare, SendSucceeds, SendFails
  <2>4. LineTypes'
    BY <1>9 DEF FlushShare, SendSucceeds, SendFails
  <2>5. PoolTypes'
    BY <1>9 DEF FlushShare, SendSucceeds, SendFails
  <2>6. CallerTypes'
    BY <1>9 DEF FlushShare, SendSucceeds, SendFails
  <2>. QED BY <2>1, <2>2, <2>3, <2>4, <2>5, <2>6 DEF TypeOK
<1>10. FlushDone => TypeOK'
  BY DEF TypeOK, FlushDone
<1>11. SelectTimesOut => TypeOK'
  BY DEF TypeOK, SelectTimesOut
<1>12. ReceiveFails => TypeOK'
  BY DEF TypeOK, ReceiveFails
<1>13. ASSUME Receive PROVE TypeOK'
  <2>1. SharedTypes'
    BY <1>13 DEF Receive
  <2>2. ThreadTypes'
    BY <1>13 DEF Receive
  <2>3. SessionTypes'
    BY <1>13 DEF Receive
  <2>4. LineTypes'
    <3>1. PICK n \in 1 .. Len(fromPool) :
             /\ fromPool' = SubSeq(fromPool, n + 1, Len(fromPool))
             /\ lines' \in {lines, SubSeq(fromPool, 1, n)}
      BY <1>13 DEF Receive
    <3>. QED BY <3>1, PartsOfLine
  <2>5. PoolTypes'
    BY <1>13 DEF Receive
  <2>6. CallerTypes'
    BY <1>13 DEF Receive
  <2>. QED BY <2>1, <2>2, <2>3, <2>4, <2>5, <2>6 DEF TypeOK
<1>14. DrainDone => TypeOK'
  BY DEF TypeOK, DrainDone
<1>15. ASSUME CloseConnection PROVE TypeOK'
  <2>1. SharedTypes'
    BY <1>15 DEF CloseConnection, CloseDescriptor, LinkDown, SetState
  <2>2. ThreadTypes'
    BY <1>15 DEF CloseConnection, CloseDescriptor, LinkDown, SetState
  <2>3. SessionTypes'
    BY <1>15 DEF CloseConnection, CloseDescriptor, LinkDown, SetState
  <2>4. LineTypes'
    BY <1>15, EmptyIsLine DEF CloseConnection, CloseDescriptor, LinkDown,
        SetState
  <2>5. PoolTypes'
    <3>1. closes' \in [Sessions -> Nat]
      <4>1. closes' = closes \/ closes' = [closes EXCEPT ![sock] = @ + 1]
        BY <1>15 DEF CloseConnection, CloseDescriptor
      <4>2. closes \in [Sessions -> Nat]
        OBVIOUS
      <4>. QED BY ONLY <4>1, <4>2, OneMoreClose
    <3>. QED BY <1>15, <3>1 DEF CloseConnection, CloseDescriptor, LinkDown
  <2>6. CallerTypes'
    BY <1>15 DEF CloseConnection, CloseDescriptor, LinkDown, SetState
  <2>. QED BY <2>1, <2>2, <2>3, <2>4, <2>5, <2>6 DEF TypeOK
<1>16. ASSUME HandleSubscribeReply PROVE TypeOK'
  <2>1. SharedTypes'
    BY <1>16 DEF HandleSubscribeReply, Handles, SetState
  <2>2. ThreadTypes'
    BY <1>16 DEF HandleSubscribeReply, Handles, SetState
  <2>3. SessionTypes'
    BY <1>16 DEF HandleSubscribeReply, Handles, SetState
  <2>4. LineTypes'
    BY <1>16, HeadIsMessage DEF HandleSubscribeReply, Handles, SetState
  <2>5. PoolTypes'
    BY <1>16 DEF HandleSubscribeReply, Handles, SetState
  <2>6. CallerTypes'
    BY <1>16 DEF HandleSubscribeReply, Handles, SetState
  <2>. QED BY <2>1, <2>2, <2>3, <2>4, <2>5, <2>6 DEF TypeOK
<1>17. ASSUME HandleAuthorizeReply PROVE TypeOK'
  <2>1. SharedTypes'
    BY <1>17 DEF HandleAuthorizeReply, Handles, SetState
  <2>2. ThreadTypes'
    BY <1>17 DEF HandleAuthorizeReply, Handles, SetState
  <2>3. SessionTypes'
    BY <1>17 DEF HandleAuthorizeReply, Handles, SetState
  <2>4. LineTypes'
    BY <1>17, HeadIsMessage DEF HandleAuthorizeReply, Handles, SetState
  <2>5. PoolTypes'
    BY <1>17 DEF HandleAuthorizeReply, Handles, SetState
  <2>6. CallerTypes'
    BY <1>17 DEF HandleAuthorizeReply, Handles, SetState
  <2>. QED BY <2>1, <2>2, <2>3, <2>4, <2>5, <2>6 DEF TypeOK
<1>18. ASSUME HandleSubmitReply PROVE TypeOK'
  <2>1. SharedTypes'
    BY <1>18 DEF HandleSubmitReply, Handles
  <2>2. ThreadTypes'
    BY <1>18 DEF HandleSubmitReply, Handles
  <2>3. SessionTypes'
    BY <1>18 DEF HandleSubmitReply, Handles
  <2>4. LineTypes'
    BY <1>18, HeadIsMessage DEF HandleSubmitReply, Handles
  <2>5. PoolTypes'
    BY <1>18 DEF HandleSubmitReply, Handles
  <2>6. CallerTypes'
    <3>1. \A s \in Shares, v \in Verdicts : Append(verdicts[s], v) \in Seq(Verdicts)
      BY AppendProperties
    <3>. QED BY <1>18, <3>1 DEF HandleSubmitReply
  <2>. QED BY <2>1, <2>2, <2>3, <2>4, <2>5, <2>6 DEF TypeOK
<1>19. ASSUME HandleNotify PROVE TypeOK'
  <2>1. SharedTypes'
    BY <1>19 DEF HandleNotify, Handles
  <2>2. ThreadTypes'
    BY <1>19 DEF HandleNotify, Handles
  <2>3. SessionTypes'
    BY <1>19 DEF HandleNotify, Handles
  <2>4. LineTypes'
    BY <1>19, HeadIsMessage DEF HandleNotify, Handles
  <2>5. PoolTypes'
    BY <1>19 DEF HandleNotify, Handles
  <2>6. CallerTypes'
    BY <1>19 DEF HandleNotify, Handles
  <2>. QED BY <2>1, <2>2, <2>3, <2>4, <2>5, <2>6 DEF TypeOK
<1>20. ASSUME HandleSetDifficulty PROVE TypeOK'
  <2>1. SharedTypes'
    BY <1>20 DEF HandleSetDifficulty, Handles
  <2>2. ThreadTypes'
    BY <1>20 DEF HandleSetDifficulty, Handles
  <2>3. SessionTypes'
    BY <1>20, HeadIsMessage, MessageFields DEF HandleSetDifficulty, Handles
  <2>4. LineTypes'
    BY <1>20, HeadIsMessage DEF HandleSetDifficulty, Handles
  <2>5. PoolTypes'
    BY <1>20 DEF HandleSetDifficulty, Handles
  <2>6. CallerTypes'
    BY <1>20, HeadIsMessage, MessageFields DEF HandleSetDifficulty, Handles
  <2>. QED BY <2>1, <2>2, <2>3, <2>4, <2>5, <2>6 DEF TypeOK
<1>21. HandleSetExtranonce => TypeOK'
  BY HeadIsMessage DEF TypeOK, HandleSetExtranonce, Handles
<1>22. HandleReconnect => TypeOK'
  BY HeadIsMessage DEF TypeOK, HandleReconnect, Handles, LinkDown
<1>23. ASSUME BackOff PROVE TypeOK'
  <2>1. SharedTypes'
    BY <1>23 DEF BackOff, SetState
  <2>2. ThreadTypes'
    BY <1>23 DEF BackOff, SetState
  <2>3. SessionTypes'
    BY <1>23 DEF BackOff, SetState
  <2>4. LineTypes'
    BY <1>23 DEF BackOff, SetState
  <2>5. PoolTypes'
    BY <1>23 DEF BackOff, SetState
  <2>6. CallerTypes'
    BY <1>23 DEF BackOff, SetState
  <2>. QED BY <2>1, <2>2, <2>3, <2>4, <2>5, <2>6 DEF TypeOK
<1>24. BackOffStops => TypeOK'
  BY DEF TypeOK, BackOffStops
<1>25. WaitTests => TypeOK'
  BY DEF TypeOK, WaitTests
<1>26. WaitBlocks => TypeOK'
  BY DEF TypeOK, WaitBlocks
<1>27. WaitTimesOut => TypeOK'
  BY DEF TypeOK, WaitTimesOut
<1>28. DoubleDelay => TypeOK'
  BY DEF TypeOK, DoubleDelay
<1>29. ASSUME Start PROVE TypeOK'
  <2>1. SharedTypes'
    BY <1>29 DEF Start
  <2>2. ThreadTypes'
    BY <1>29 DEF Start
  <2>3. SessionTypes'
    BY <1>29 DEF Start
  <2>4. LineTypes'
    BY <1>29 DEF Start
  <2>5. PoolTypes'
    BY <1>29 DEF Start
  <2>6. CallerTypes'
    BY <1>29 DEF Start
  <2>. QED BY <2>1, <2>2, <2>3, <2>4, <2>5, <2>6 DEF TypeOK
<1>30. StopRequest => TypeOK'
  BY DEF TypeOK, StopRequest
<1>31. StopNotify => TypeOK'
  BY DEF TypeOK, StopNotify
<1>32. ASSUME StopClose PROVE TypeOK'
  <2>1. SharedTypes'
    BY <1>32 DEF StopClose, CloseDescriptor, LinkDown
  <2>2. ThreadTypes'
    BY <1>32 DEF StopClose, CloseDescriptor, LinkDown
  <2>3. SessionTypes'
    BY <1>32 DEF StopClose, CloseDescriptor, LinkDown
  <2>4. LineTypes'
    BY <1>32, EmptyIsLine DEF StopClose, CloseDescriptor, LinkDown
  <2>5. PoolTypes'
    <3>1. closes' \in [Sessions -> Nat]
      <4>1. closes' = closes \/ closes' = [closes EXCEPT ![sock] = @ + 1]
        BY <1>32 DEF StopClose, CloseDescriptor
      <4>2. closes \in [Sessions -> Nat]
        OBVIOUS
      <4>. QED BY ONLY <4>1, <4>2, OneMoreClose
    <3>. QED BY <1>32, <3>1 DEF StopClose, CloseDescriptor, LinkDown
  <2>6. CallerTypes'
    BY <1>32 DEF StopClose, CloseDescriptor, LinkDown
  <2>. QED BY <2>1, <2>2, <2>3, <2>4, <2>5, <2>6 DEF TypeOK
<1>33. ASSUME StopJoin PROVE TypeOK'
  <2>1. SharedTypes'
    BY <1>33 DEF StopJoin, SetState
  <2>2. ThreadTypes'
    BY <1>33 DEF StopJoin, SetState
  <2>3. SessionTypes'
    BY <1>33 DEF StopJoin, SetState
  <2>4. LineTypes'
    BY <1>33 DEF StopJoin, SetState
  <2>5. PoolTypes'
    BY <1>33 DEF StopJoin, SetState
  <2>6. CallerTypes'
    BY <1>33 DEF StopJoin, SetState
  <2>. QED BY <2>1, <2>2, <2>3, <2>4, <2>5, <2>6 DEF TypeOK
<1>34. StopAgain => TypeOK'
  BY DEF TypeOK, StopAgain, vars
<1>35. \A s \in Shares : FindShare(s) => TypeOK'
  BY DEF TypeOK, FindShare
<1>36. ASSUME NEW s \in Shares, SubmitTests(s) PROVE TypeOK'
  <2>1. SharedTypes'
    BY <1>36 DEF SubmitTests
  <2>2. ThreadTypes'
    BY <1>36 DEF SubmitTests
  <2>3. SessionTypes'
    BY <1>36 DEF SubmitTests
  <2>4. LineTypes'
    BY <1>36 DEF SubmitTests
  <2>5. PoolTypes'
    BY <1>36 DEF SubmitTests
  <2>6. CallerTypes'
    <3>1. job' \in Job /\ minedIn' \in [Shares -> Sessions \cup {NoSession}]
      BY <1>36 DEF SubmitTests
    <3>2. submit' \in [Shares -> {"mining", "found", "checked", "returned"}]
      BY <1>36 DEF SubmitTests
    <3>3. verdicts' \in [Shares -> Seq(Verdicts)]
      <4>1. verdicts[s] \in Seq(Verdicts) /\ "stale" \in Verdicts
        OBVIOUS
      <4>2. Append(verdicts[s], "stale") \in Seq(Verdicts)
        BY <4>1, AppendKeepsVerdicts
      <4>3. \/ verdicts' = verdicts
            \/ verdicts' = [verdicts EXCEPT ![s] = Append(verdicts[s], "stale")]
        BY <1>36 DEF SubmitTests
      <4>. QED BY <4>2, <4>3
    <3>. QED BY <3>1, <3>2, <3>3
  <2>. QED BY <2>1, <2>2, <2>3, <2>4, <2>5, <2>6 DEF TypeOK
<1>37. \A s \in Shares : SubmitQueues(s) => TypeOK'
  BY DEF TypeOK, SubmitQueues
<1>38. ASSUME PoolReplies PROVE TypeOK'
  <2>1. SharedTypes'
    BY <1>38 DEF PoolReplies
  <2>2. ThreadTypes'
    BY <1>38 DEF PoolReplies
  <2>3. SessionTypes'
    BY <1>38 DEF PoolReplies
  <2>4. LineTypes'
    <3>. PICK r \in toPool, ok \in BOOLEAN :
            fromPool' = Append(fromPool, [kind |-> "reply", id |-> r.id, ok |-> ok])
      BY <1>38 DEF PoolReplies
    <3>1. [kind |-> "reply", id |-> r.id, ok |-> ok] \in Message
      BY DEF Message
    <3>. QED BY <1>38, <3>1, AppendKeepsLine DEF PoolReplies
  <2>5. PoolTypes'
    BY <1>38 DEF PoolReplies
  <2>6. CallerTypes'
    BY <1>38 DEF PoolReplies
  <2>. QED BY <2>1, <2>2, <2>3, <2>4, <2>5, <2>6 DEF TypeOK
<1>39. ASSUME PoolPushes PROVE TypeOK'
  <2>1. SharedTypes'
    BY <1>39 DEF PoolPushes
  <2>2. ThreadTypes'
    BY <1>39 DEF PoolPushes
  <2>3. SessionTypes'
    BY <1>39 DEF PoolPushes
  <2>4. LineTypes'
    <3>1. \A kind \in Pushes \ {"difficulty"} : [kind |-> kind] \in Message
      BY DEF Message
    <3>2. \A value \in 0 .. MaxDifficulty :
            [kind |-> "difficulty", value |-> value] \in Message
      BY DEF Message
    <3>3. \E m \in Message : fromPool' = Append(fromPool, m)
      BY <1>39, <3>1, <3>2 DEF PoolPushes
    <3>. QED BY <1>39, <3>3, AppendKeepsLine DEF PoolPushes
  <2>5. PoolTypes'
    BY <1>39 DEF PoolPushes
  <2>6. CallerTypes'
    BY <1>39 DEF PoolPushes
  <2>. QED BY <2>1, <2>2, <2>3, <2>4, <2>5, <2>6 DEF TypeOK
<1>40. LinkDrops => TypeOK'
  BY DEF TypeOK, LinkDrops, LinkDown
<1>. QED BY <1>1, <1>2, <1>3, <1>4, <1>5, <1>6, <1>7, <1>8, <1>9, <1>10,
    <1>11, <1>12, <1>13, <1>14, <1>15, <1>16, <1>17, <1>18, <1>19, <1>20,
    <1>21, <1>22, <1>23, <1>24, <1>25, <1>26, <1>27, <1>28, <1>29, <1>30,
    <1>31, <1>32, <1>33, <1>34, <1>35, <1>36, <1>37, <1>38, <1>39, <1>40 DEF
    Next, ClientThread, Connection, HandleMessage, Control, Stopping, Workers,
    Environment

(* The variables keep their types in every behaviour.                       *)
THEOREM TypeCorrect == Spec => []TypeOK
<1>1. TypeOK /\ UNCHANGED vars => TypeOK'
  BY DEF TypeOK, SharedTypes, ThreadTypes, SessionTypes, LineTypes, PoolTypes,
         CallerTypes, vars, sharedVars, sessionVars, poolVars, callerVars
<1>. QED BY <1>1, TypeInit, TypeStep, PTL DEF Spec

-----------------------------------------------------------------------------
(* The custody of shares.  The invariant is about what is in the client and *)
(* on the wire, so most steps keep it because they add nothing there.       *)

CustodyInv == SharesInCustody /\ CountedAtMostOnce /\ AcceptedOnlyByThePool

(* A step that neither judges a share, nor queues or sends one, nor brings  *)
(* a message: it may only drop what is there.                               *)
OnlyDrops ==
    /\ UNCHANGED <<submit, verdicts, credited>>
    /\ pending' \subseteq pending
    /\ outbound' \cup flushing' \subseteq outbound \cup flushing
    /\ outbound' \cap flushing' = {}
    /\ toPool' \subseteq toPool
    /\ Arrived' \subseteq Arrived
    /\ nextId' = nextId

(* A step that at most drops shares, requests and answers keeps custody.    *)
LEMMA DroppingKeepsCustody ==
    ASSUME TypeOK, CustodyInv, OnlyDrops
    PROVE  CustodyInv'
<1>. USE DEF CustodyInv, SharesInCustody, OnlyDrops
<1>1. OfferedOnce'
  BY DEF OfferedOnce
<1>2. QueuedOnce'
  BY DEF QueuedOnce
<1>3. PendingOnce'
  BY DEF PendingOnce
<1>4. IdsHandedOut'
  BY DEF IdsHandedOut
<1>5. IdsAgree'
  BY DEF IdsAgree
<1>6. CountedAtMostOnce' /\ AcceptedOnlyByThePool'
  BY DEF CountedAtMostOnce, AcceptedOnlyByThePool
<1>. QED BY <1>1, <1>2, <1>3, <1>4, <1>5, <1>6

(* Messages come from the pool only; the client moves and consumes them.    *)
LEMMA NothingArrives ==
    ASSUME TypeOK, Next, ~PoolReplies, ~PoolPushes
    PROVE  Arrived' \subseteq Arrived
<1>. USE DEF TypeOK, LineTypes, sharedVars, sessionVars, poolVars, callerVars
<1>1. CASE UNCHANGED <<lines, fromPool>>
  BY <1>1 DEF Arrived
<1>2. CASE fromPool' = <<>> /\ UNCHANGED lines
  BY <1>2 DEF Arrived
<1>3. CASE lines' = <<>> /\ UNCHANGED fromPool
  BY <1>3 DEF Arrived
<1>4. CASE lines # <<>> /\ lines' = Tail(lines) /\ UNCHANGED fromPool
  <2>1. Len(lines') = Len(lines) - 1 /\ Len(lines) \in Nat
    BY <1>4, HeadTailProperties
  <2>2. \A i \in 1 .. Len(lines') : lines'[i] = lines[i + 1]
    BY <1>4, HeadTailProperties
  <2>3. \A i \in 1 .. Len(lines') : i + 1 \in 1 .. Len(lines)
    BY <2>1
  <2>4. {lines'[i] : i \in 1 .. Len(lines')} \subseteq {lines[i] : i \in 1 .. Len(lines)}
    BY ONLY <2>2, <2>3
  <2>. QED BY <1>4, <2>4, Zenon DEF Arrived
<1>5. CASE Receive
  <2>1. PICK n \in 1 .. Len(fromPool) :
           /\ fromPool' = SubSeq(fromPool, n + 1, Len(fromPool))
           /\ lines' \in {lines, SubSeq(fromPool, 1, n)}
    BY <1>5 DEF Receive
  <2>2. Len(fromPool) \in Nat /\ \A i \in 1 .. Len(fromPool) : fromPool[i] \in Message
    OBVIOUS
  <2>3. \A i \in 1 .. Len(fromPool') :
           i + n \in 1 .. Len(fromPool) /\ fromPool'[i] = fromPool[i + n]
    BY <2>1, <2>2, SubSeqProperties
  <2>4. \A i \in 1 .. Len(SubSeq(fromPool, 1, n)) :
           i \in 1 .. Len(fromPool) /\ SubSeq(fromPool, 1, n)[i] = fromPool[i]
    BY <2>1, <2>2, SubSeqProperties
  <2>5. \A m \in {fromPool'[i] : i \in 1 .. Len(fromPool')} :
           m \in {fromPool[i] : i \in 1 .. Len(fromPool)}
    BY ONLY <2>3
  <2>6. \A m \in {lines'[i] : i \in 1 .. Len(lines')} :
           \/ m \in {lines[i] : i \in 1 .. Len(lines)}
           \/ m \in {fromPool[i] : i \in 1 .. Len(fromPool)}
    <3>1. CASE lines' = lines
      BY ONLY <3>1
    <3>2. CASE lines' = SubSeq(fromPool, 1, n)
      BY ONLY <3>2, <2>4
    <3>. QED BY <2>1, <3>1, <3>2
  <2>. QED BY <2>5, <2>6, Zenon DEF Arrived
<1>6. Connection => \/ UNCHANGED <<lines, fromPool>>
                    \/ fromPool' = <<>> /\ UNCHANGED lines
                    \/ Receive
  BY DEF Connection, ConnectSucceeds, ConnectFails, SendSubscribe,
      SendAuthorize, LoopStops, TakeOutbound, FlushShare, FlushDone,
      SelectTimesOut, ReceiveFails, DrainDone, CloseConnection,
      CloseDescriptor, LinkDown
<1>7. HandleMessage => lines # <<>> /\ lines' = Tail(lines) /\ UNCHANGED fromPool
  BY DEF HandleMessage, HandleSubscribeReply, Handles, HandleAuthorizeReply,
      HandleSubmitReply, HandleNotify, HandleSetDifficulty,
      HandleSetExtranonce, HandleReconnect
<1>8. ClientThread /\ ~Connection /\ ~HandleMessage =>
         \/ UNCHANGED <<lines, fromPool>>
         \/ lines' = <<>> /\ UNCHANGED fromPool
  BY DEF ClientThread, ExitThread, BeginSession, BackOff, BackOffStops,
      WaitTests, WaitBlocks, WaitTimesOut, DoubleDelay
<1>9. Control => fromPool' \in {fromPool, <<>>} /\ UNCHANGED lines
  BY DEF Control, Stopping, vars, Start, StopRequest, StopNotify, StopClose,
      CloseDescriptor, StopJoin, StopAgain
<1>10. Workers \/ LinkDrops => UNCHANGED <<lines, fromPool>>
  BY DEF Workers, FindShare, SubmitTests, SubmitQueues, LinkDrops
<1>. QED BY <1>1, <1>2, <1>3, <1>4, <1>5, <1>6, <1>7, <1>8, <1>9, <1>10
         DEF Next, Environment

(* Nothing is in custody at first.                                          *)
LEMMA CustodyInit == Init => CustodyInv
BY DEF Init, CustodyInv, SharesInCustody, CountedAtMostOnce, AcceptedOnlyByThePool,
       OfferedOnce, QueuedOnce, PendingOnce, IdsHandedOut, IdsAgree, Arrived

(* Most steps at most drop what is there.                                   *)
LEMMA QuietSteps ==
    ASSUME TypeOK, CustodyInv, Next, ~PoolReplies, ~PoolPushes, ~Workers,
           ~FlushShare, ~SendSubscribe, ~SendAuthorize, ~HandleSubmitReply
    PROVE  OnlyDrops
<1>. USE DEF sharedVars, sessionVars, poolVars, callerVars
<1>1. Arrived' \subseteq Arrived
  BY NothingArrives
<1>2. outbound \cap flushing = {}
  BY DEF CustodyInv, SharesInCustody, QueuedOnce
<1>3. CASE Connection
  BY <1>1, <1>2, <1>3 DEF OnlyDrops, Connection, ConnectSucceeds,
      ConnectFails, LoopStops, TakeOutbound, FlushDone, SelectTimesOut,
      ReceiveFails, Receive, DrainDone, CloseConnection, CloseDescriptor,
      LinkDown
<1>4. CASE HandleMessage
  BY <1>1, <1>2, <1>4 DEF OnlyDrops, HandleMessage, HandleSubscribeReply,
      Handles, HandleAuthorizeReply, HandleNotify, HandleSetDifficulty,
      HandleSetExtranonce, HandleReconnect, LinkDown
<1>5. CASE ClientThread /\ ~Connection /\ ~HandleMessage
  BY <1>1, <1>2, <1>5 DEF OnlyDrops, ClientThread, ExitThread, BeginSession,
      BackOff, BackOffStops, WaitTests, WaitBlocks, WaitTimesOut, DoubleDelay
<1>6. CASE Control
  BY <1>1, <1>2, <1>6 DEF OnlyDrops, Control, Stopping, Start, StopRequest,
      StopNotify, StopClose, CloseDescriptor, LinkDown, StopJoin, StopAgain,
      vars
<1>7. CASE LinkDrops
  BY <1>1, <1>2, <1>7 DEF OnlyDrops, LinkDrops, LinkDown
<1>. QED BY <1>3, <1>4, <1>5, <1>6, <1>7 DEF Next, Environment

(* subscribe and authorize take an id that no submission has.               *)
LEMMA HandshakeKeepsCustody ==
    ASSUME TypeOK, CustodyInv, SendSubscribe \/ SendAuthorize
    PROVE  CustodyInv'
<1>. USE DEF CustodyInv, SharesInCustody, TypeOK, SharedTypes
<1>1. /\ UNCHANGED <<submit, verdicts, credited, pending, outbound, flushing>>
      /\ Arrived' = Arrived
      /\ nextId' = nextId + 1
      /\ \A r \in toPool' : r \in toPool \/ r.id = nextId
  BY DEF SendSubscribe, SendAuthorize, SendSucceeds, SendFails, Arrived
<1>2. OfferedOnce' /\ QueuedOnce' /\ PendingOnce'
  BY <1>1 DEF OfferedOnce, QueuedOnce, PendingOnce
<1>3. IdsHandedOut'
  <2>1. \A p \in pending' : p.id < nextId'
    BY <1>1 DEF IdsHandedOut
  <2>2. \A r \in toPool' : r.id < nextId'
    <3>1. \A r \in toPool : r.id \in Nat
      BY DEF PoolTypes, Request
    <3>. QED BY <1>1, <3>1 DEF IdsHandedOut
  <2>3. \A m \in Arrived' : m.kind = "reply" => m.id < nextId'
    <3>1. \A m \in Arrived : m.kind = "reply" => m.id \in Nat
      BY MessageFields DEF Arrived, LineTypes
    <3>. QED BY <1>1, <3>1 DEF IdsHandedOut
  <2>. QED BY <2>1, <2>2, <2>3 DEF IdsHandedOut
<1>4. IdsAgree'
  BY <1>1 DEF IdsAgree, IdsHandedOut
<1>5. CountedAtMostOnce' /\ AcceptedOnlyByThePool'
  BY <1>1 DEF CountedAtMostOnce, AcceptedOnlyByThePool
<1>. QED BY <1>2, <1>3, <1>4, <1>5

(* A share on its way out leaves the queue for pendingSubmits_ and the      *)
(* wire, under an id of its own, or is dropped.                             *)
LEMMA FlushKeepsCustody ==
    ASSUME TypeOK, CustodyInv, FlushShare
    PROVE  CustodyInv'
<1>. USE DEF CustodyInv, SharesInCustody, TypeOK, SharedTypes
<1>1. PICK s \in flushing :
         /\ flushing' = flushing \ {s} /\ nextId' = nextId + 1
         /\ pending' = {p \in pending : p.id # nextId}
              \/ pending' = {p \in pending : p.id # nextId}
                              \cup {[id |-> nextId, share |-> s]}
         /\ \/ toPool' = toPool
            \/ /\ toPool' = toPool \cup {[kind |-> "submit", id |-> nextId, share |-> s]}
               /\ pending' = {p \in pending : p.id # nextId}
                               \cup {[id |-> nextId, share |-> s]}
  BY DEF FlushShare, SendSucceeds, SendFails
<1>2. UNCHANGED <<submit, verdicts, credited, outbound>> /\ Arrived' = Arrived
  BY DEF FlushShare, callerVars, Arrived
<1>3. \A p \in pending' : p \in pending \/ p = [id |-> nextId, share |-> s]
  BY <1>1
<1>4. /\ s \in outbound \cup flushing /\ verdicts[s] = <<>> /\ submit[s] = "returned"
      /\ s \notin outbound /\ \A p \in pending : p.share # s
  BY <1>1 DEF QueuedOnce, OfferedOnce, SessionTypes
<1>5. OfferedOnce'
  BY <1>1, <1>2, <1>3, <1>4 DEF OfferedOnce
<1>6. QueuedOnce'
  BY <1>1, <1>2, <1>3, <1>4 DEF QueuedOnce
<1>7. PendingOnce'
  BY <1>2, <1>3, <1>4 DEF PendingOnce, IdsHandedOut
<1>8. IdsHandedOut'
  <2>1. \A p \in pending : p.id \in Nat
    OBVIOUS
  <2>2. \A r \in toPool : r.id \in Nat
    BY DEF PoolTypes, Request
  <2>3. \A m \in Arrived : m.kind = "reply" => m.id \in Nat
    BY MessageFields DEF Arrived, LineTypes
  <2>. QED BY <1>1, <1>2, <1>3, <2>1, <2>2, <2>3 DEF IdsHandedOut
<1>9. IdsAgree'
  BY <1>1, <1>2, <1>3 DEF IdsAgree, IdsHandedOut
<1>10. CountedAtMostOnce' /\ AcceptedOnlyByThePool'
  BY <1>2 DEF CountedAtMostOnce, AcceptedOnlyByThePool
<1>. QED BY <1>5, <1>6, <1>7, <1>8, <1>9, <1>10

(* A verdict is given to the one share that the id stands for, and takes it *)
(* out of pendingSubmits_.                                                  *)
LEMMA VerdictKeepsCustody ==
    ASSUME TypeOK, CustodyInv, Next, HandleSubmitReply
    PROVE  CustodyInv'
<1>. USE DEF CustodyInv, SharesInCustody
<1>1. /\ message.kind = "reply"
      /\ pending' = {p \in pending : p.id # message.id}
      /\ verdicts' = [s \in Shares |->
                        IF [id |-> message.id, share |-> s] \in pending
                          THEN Append(verdicts[s],
                                      IF message.ok THEN "accepted" ELSE "rejected")
                          ELSE verdicts[s]]
      /\ UNCHANGED <<submit, credited, outbound, flushing, toPool, nextId>>
  BY DEF HandleSubmitReply, Handles, poolVars
<1>2. Arrived' \subseteq Arrived
  <2>1. UNCHANGED fromPool
    BY DEF HandleSubmitReply, poolVars
  <2>2. \A m : Append(fromPool, m) # fromPool
    BY DEF TypeOK, LineTypes
  <2>. QED BY <2>1, <2>2, NothingArrives DEF PoolReplies, PoolPushes
<1>3. message \in Arrived
  <2>1. lines # <<>> /\ lines \in Seq(Message)
    BY DEF HandleSubmitReply, Handles, TypeOK, LineTypes
  <2>2. 1 \in 1 .. Len(lines) /\ message = lines[1]
    BY <2>1, HeadTailProperties DEF message
  <2>. QED BY <2>2 DEF Arrived
<1>4. \A p \in pending : p = [id |-> p.id, share |-> p.share] /\ p.share \in Shares
  BY DEF TypeOK, SharedTypes
<1>5. \A p \in pending' : verdicts'[p.share] = verdicts[p.share]
  <2>. SUFFICES ASSUME NEW p \in pending', 
                       [id |-> message.id, share |-> p.share] \in pending
                PROVE  FALSE
    BY <1>1, <1>4
  <2>1. p \in pending /\ p.id # message.id
    BY <1>1
  <2>. QED BY <2>1 DEF PendingOnce
<1>6. \A s \in Shares : (\A p \in pending : p.share # s) => verdicts'[s] = verdicts[s]
  BY <1>1
<1>7. OfferedOnce'
  BY <1>1, <1>6 DEF OfferedOnce
<1>8. QueuedOnce'
  BY <1>1, <1>6 DEF QueuedOnce, TypeOK, SharedTypes, SessionTypes
<1>9. PendingOnce'
  BY <1>1, <1>5 DEF PendingOnce
<1>10. IdsHandedOut' /\ IdsAgree'
  BY <1>1, <1>2 DEF IdsHandedOut, IdsAgree
<1>11. ASSUME NEW s \in Shares, [id |-> message.id, share |-> s] \in pending
       PROVE  /\ verdicts'[s] = <<IF message.ok THEN "accepted" ELSE "rejected">>
              /\ message.ok => s \in credited
  <2>1. verdicts[s] = <<>>
    BY <1>11 DEF PendingOnce
  <2>2. message.ok => s \in credited
    BY <1>1, <1>3, <1>11 DEF IdsAgree
  <2>3. \A v : Append(<<>>, v) = <<v>>
    OBVIOUS
  <2>4. verdicts'[s] = Append(verdicts[s], IF message.ok THEN "accepted" ELSE "rejected")
    BY <1>1, <1>11
  <2>. QED BY <2>1, <2>2, <2>3, <2>4
<1>12. CountedAtMostOnce'
  BY <1>1, <1>11 DEF CountedAtMostOnce
<1>13. AcceptedOnlyByThePool'
  BY <1>1, <1>11 DEF AcceptedOnlyByThePool
<1>. QED BY <1>7, <1>8, <1>9, <1>10, <1>12, <1>13

(* A worker offers a share once: it is refused and counted, or queued.      *)
LEMMA WorkersKeepCustody ==
    ASSUME TypeOK, CustodyInv, Workers
    PROVE  CustodyInv'
<1>. USE DEF CustodyInv, SharesInCustody
<1>. PICK s \in Shares : FindShare(s) \/ SubmitTests(s) \/ SubmitQueues(s)
  BY DEF Workers
<1>1. /\ UNCHANGED <<pending, flushing, toPool, credited, nextId>> /\ Arrived' = Arrived
      /\ submit[s] # "returned"
      /\ \A t \in Shares \ {s} : submit'[t] = submit[t] /\ verdicts'[t] = verdicts[t]
  BY DEF FindShare, SubmitTests, SubmitQueues, sharedVars, sessionVars, poolVars,
         Arrived, TypeOK, CallerTypes
<1>2. s \notin outbound \cup flushing /\ verdicts[s] = <<>> /\ \A p \in pending : p.share # s
  BY <1>1 DEF OfferedOnce
<1>3. \/ outbound' = outbound /\ verdicts'[s] = verdicts[s] /\ submit'[s] # "returned"
      \/ outbound' = outbound /\ verdicts'[s] = <<"stale">> /\ submit'[s] = "returned"
      \/ outbound' = outbound \cup {s} /\ verdicts'[s] = verdicts[s]
           /\ submit'[s] = "returned"
  <2>1. CASE FindShare(s)
    BY <2>1 DEF FindShare, sharedVars, TypeOK, CallerTypes
  <2>2. CASE SubmitTests(s)
    BY <1>2, <2>2 DEF SubmitTests, sharedVars, TypeOK, CallerTypes
  <2>3. CASE SubmitQueues(s)
    BY <2>3 DEF SubmitQueues, TypeOK, CallerTypes
  <2>. QED BY <2>1, <2>2, <2>3
<1>4. OfferedOnce'
  BY <1>1, <1>2, <1>3 DEF OfferedOnce
<1>5. QueuedOnce'
  BY <1>1, <1>2, <1>3 DEF QueuedOnce, TypeOK, SharedTypes, SessionTypes
<1>6. PendingOnce'
  BY <1>1, <1>2 DEF PendingOnce, TypeOK, SharedTypes
<1>7. IdsHandedOut' /\ IdsAgree'
  BY <1>1 DEF IdsHandedOut, IdsAgree
<1>8. CountedAtMostOnce'
  <2>1. Len(<<>>) <= 1 /\ Len(<<"stale">>) <= 1
    OBVIOUS
  <2>2. Len(verdicts'[s]) <= 1
    BY <1>2, <1>3, <2>1
  <2>. QED BY <1>1, <2>2 DEF CountedAtMostOnce
<1>9. AcceptedOnlyByThePool'
  BY <1>1, <1>2, <1>3 DEF AcceptedOnlyByThePool
<1>. QED BY <1>4, <1>5, <1>6, <1>7, <1>8, <1>9

(* What the pool says carries an id it was given, or none.                  *)
LEMMA PoolKeepsCustody ==
    ASSUME TypeOK, CustodyInv, PoolReplies \/ PoolPushes
    PROVE  CustodyInv'
<1>. USE DEF CustodyInv, SharesInCustody
<1>1. /\ UNCHANGED <<pending, flushing, outbound, nextId, submit, verdicts, lines>>
      /\ toPool' \subseteq toPool /\ credited \subseteq credited'
  BY DEF PoolReplies, PoolPushes, sharedVars, sessionVars, callerVars
<1>2. \A m : fromPool' = Append(fromPool, m) => Arrived' \subseteq Arrived \cup {m}
  <2>. SUFFICES ASSUME NEW m, fromPool' = Append(fromPool, m)
                PROVE  Arrived' \subseteq Arrived \cup {m}
    OBVIOUS
  <2>1. /\ Len(fromPool) \in Nat /\ Len(fromPool') = Len(fromPool) + 1
        /\ \A i \in 1 .. Len(fromPool) : fromPool'[i] = fromPool[i]
        /\ fromPool'[Len(fromPool) + 1] = m
    BY DEF TypeOK, LineTypes
  <2>. QED BY <1>1, <2>1 DEF Arrived
<1>3. ASSUME NEW m \in Arrived', m.kind = "reply", m \notin Arrived
      PROVE  \E r \in toPool : /\ m.id = r.id
                               /\ m.ok /\ r.kind = "submit" => r.share \in credited'
  <2>1. CASE PoolPushes
    <3>1. \E x : x.kind # "reply" /\ fromPool' = Append(fromPool, x)
      <4>1. \A kind \in Pushes : kind # "reply"
        BY Bounds DEF PushKinds
      <4>2. CASE \E kind \in Pushes \ {"difficulty"} :
                    fromPool' = Append(fromPool, [kind |-> kind])
        <5>. PICK kind \in Pushes \ {"difficulty"} :
                fromPool' = Append(fromPool, [kind |-> kind])
          BY <4>2
        <5>. WITNESS [kind |-> kind]
        <5>. QED BY <4>1
      <4>3. CASE \E value \in 0 .. MaxDifficulty :
                    fromPool' = Append(fromPool, [kind |-> "difficulty", value |-> value])
        <5>. PICK value \in 0 .. MaxDifficulty :
                fromPool' = Append(fromPool, [kind |-> "difficulty", value |-> value])
          BY <4>3
        <5>. WITNESS [kind |-> "difficulty", value |-> value]
        <5>. QED OBVIOUS
      <4>. QED BY <2>1, <4>2, <4>3 DEF PoolPushes
    <3>. QED BY <1>2, <1>3, <3>1
  <2>2. CASE PoolReplies
    <3>. PICK r \in toPool, ok \in BOOLEAN :
           /\ fromPool' = Append(fromPool, [kind |-> "reply", id |-> r.id, ok |-> ok])
           /\ credited' = IF ok /\ r.kind = "submit" THEN credited \cup {r.share}
                                                     ELSE credited
      BY <2>2 DEF PoolReplies
    <3>1. m = [kind |-> "reply", id |-> r.id, ok |-> ok]
      BY <1>2, <1>3
    <3>. QED BY <3>1
  <2>. QED BY <2>1, <2>2
<1>4. OfferedOnce' /\ QueuedOnce' /\ PendingOnce'
  BY <1>1 DEF OfferedOnce, QueuedOnce, PendingOnce
<1>5. IdsHandedOut'
  BY <1>1, <1>3 DEF IdsHandedOut
<1>6. IdsAgree'
  <2>. SUFFICES ASSUME NEW p \in pending
                PROVE  /\ \A r \in toPool' : r.id = p.id => r.kind = "submit" /\ r.share = p.share
                       /\ \A m \in Arrived' : m.kind = "reply" /\ m.id = p.id /\ m.ok
                                                => p.share \in credited'
    BY <1>1 DEF IdsAgree
  <2>1. \A r \in toPool' : r.id = p.id => r.kind = "submit" /\ r.share = p.share
    BY <1>1 DEF IdsAgree
  <2>2. ASSUME NEW m \in Arrived', m.kind = "reply", m.id = p.id, m.ok
        PROVE  p.share \in credited'
    <3>1. CASE m \in Arrived
      BY <1>1, <2>2, <3>1 DEF IdsAgree
    <3>2. CASE m \notin Arrived
      <4>. PICK r \in toPool : m.id = r.id /\ (m.ok /\ r.kind = "submit" => r.share \in credited')
        BY <1>3, <2>2, <3>2
      <4>1. r.kind = "submit" /\ r.share = p.share
        BY <2>2 DEF IdsAgree
      <4>. QED BY <2>2, <4>1
    <3>. QED BY <3>1, <3>2
  <2>. QED BY <2>1, <2>2
<1>7. CountedAtMostOnce' /\ AcceptedOnlyByThePool'
  BY <1>1 DEF CountedAtMostOnce, AcceptedOnlyByThePool, TypeOK, CallerTypes
<1>. QED BY <1>4, <1>5, <1>6, <1>7

(* Every step keeps custody, and the counts that follow from it.            *)
LEMMA CustodyStep == TypeOK /\ CustodyInv /\ [Next]_vars => CustodyInv'
<1>. SUFFICES ASSUME TypeOK, CustodyInv, [Next]_vars PROVE CustodyInv'
  OBVIOUS
<1>1. CASE UNCHANGED vars
  <2>1. OnlyDrops
    BY <1>1 DEF OnlyDrops, vars, sharedVars, sessionVars, poolVars, callerVars, Arrived,
                CustodyInv, SharesInCustody, QueuedOnce
  <2>. QED BY <2>1, DroppingKeepsCustody
<1>2. CASE Next /\ ~(PoolReplies \/ PoolPushes \/ Workers \/ FlushShare
                      \/ SendSubscribe \/ SendAuthorize \/ HandleSubmitReply)
  BY <1>2, QuietSteps, DroppingKeepsCustody
<1>3. CASE Next /\ (PoolReplies \/ PoolPushes \/ Workers \/ FlushShare
                      \/ SendSubscribe \/ SendAuthorize \/ HandleSubmitReply)
  BY <1>3, PoolKeepsCustody, WorkersKeepCustody, FlushKeepsCustody,
     HandshakeKeepsCustody, VerdictKeepsCustody
<1>. QED BY <1>1, <1>2, <1>3

(* Every share is in one place and every id stands for one request, for any *)
(* number of shares and sessions and any order and number of answers.       *)
THEOREM CustodyCorrect == Spec => []SharesInCustody
<1>. QED BY TypeCorrect, CustodyInit, CustodyStep, PTL DEF Spec, CustodyInv

(* No share is ever counted twice.                                          *)
THEOREM CountedCorrect == Spec => []CountedAtMostOnce
<1>. QED BY TypeCorrect, CustodyInit, CustodyStep, PTL DEF Spec, CustodyInv

(* No share is counted as accepted that the pool did not credit.            *)
THEOREM AcceptedCorrect == Spec => []AcceptedOnlyByThePool
<1>. QED BY TypeCorrect, CustodyInit, CustodyStep, PTL DEF Spec, CustodyInv

-----------------------------------------------------------------------------
(* The sessions.                                                            *)

(* The caller's job is that of the session being served, and no extranonce  *)
(* is known but the one of the current session, which a job cannot do       *)
(* without.                                                                 *)
JobInv ==
    /\ extranonce \in {NoSession, session}
    /\ job # NoJob => extranonce # NoSession
    /\ JobOfThisSession

(* The client holds at most the descriptor of the current session, every    *)
(* other one it opened has been closed once, and what is up or under way is *)
(* the held descriptor's.                                                   *)
SocketInv ==
    /\ \A c \in opened : c <= session
    /\ pc = "connect" => session \notin opened
    /\ sock # NoSession => pc \in Connected /\ sock = session /\ sock \in opened
    /\ \A c \in Sessions : closes[c] = IF c \in opened /\ c # sock THEN 1 ELSE 0
    /\ link = "up" => sock # NoSession
    /\ toPool # {} => link = "up"
    /\ sock = NoSession => fromPool = <<>>

(* Once stop() has returned, the thread is gone and has left no trace.      *)
StoppedInv ==
    stopPc = "stopped" =>
        pc = "idle" /\ ~running /\ state = "Disconnected" /\ job = NoJob

(* The inductive invariant of the session.                                  *)
SessionInv == JobInv /\ SocketInv /\ StoppedInv

(* No step gives the caller a job of another session.                       *)
LEMMA JobStep ==
    ASSUME TypeOK, JobInv, Next
    PROVE  JobInv'
<1>. USE DEF JobInv, JobOfThisSession, Serving, TypeOK, SharedTypes,
             ThreadTypes, SessionTypes, CallerTypes,
        sharedVars, sessionVars, poolVars, callerVars, NoSession, NoJob, Job
<1>1. ExitThread => JobInv'
  BY DEF ExitThread
<1>2. BeginSession => JobInv'
  BY DEF BeginSession, SetState
<1>3. ConnectSucceeds => JobInv'
  BY DEF ConnectSucceeds, SetState
<1>4. ConnectFails => JobInv'
  BY DEF ConnectFails, SetState
<1>5. SendSubscribe => JobInv'
  BY DEF SendSubscribe, SendSucceeds, SendFails, SetState
<1>6. SendAuthorize => JobInv'
  BY DEF SendAuthorize, SendSucceeds, SendFails, SetState
<1>7. LoopStops => JobInv'
  BY DEF LoopStops
<1>8. TakeOutbound => JobInv'
  BY DEF TakeOutbound
<1>9. FlushShare => JobInv'
  BY DEF FlushShare, SendSucceeds, SendFails
<1>10. FlushDone => JobInv'
  BY DEF FlushDone
<1>11. SelectTimesOut => JobInv'
  BY DEF SelectTimesOut
<1>12. ReceiveFails => JobInv'
  BY DEF ReceiveFails
<1>13. Receive => JobInv'
  BY DEF Receive
<1>14. DrainDone => JobInv'
  BY DEF DrainDone
<1>15. CloseConnection => JobInv'
  BY DEF CloseConnection, CloseDescriptor, LinkDown, SetState
<1>16. HandleSubscribeReply => JobInv'
  BY DEF HandleSubscribeReply, Handles, SetState
<1>17. HandleAuthorizeReply => JobInv'
  BY DEF HandleAuthorizeReply, Handles, SetState
<1>18. HandleSubmitReply => JobInv'
  BY DEF HandleSubmitReply, Handles
<1>19. HandleNotify => JobInv'
  BY DEF HandleNotify, Handles
<1>20. HandleSetDifficulty => JobInv'
  BY DEF HandleSetDifficulty, Handles
<1>21. HandleSetExtranonce => JobInv'
  BY DEF HandleSetExtranonce, Handles
<1>22. HandleReconnect => JobInv'
  BY DEF HandleReconnect, Handles, LinkDown
<1>23. BackOff => JobInv'
  BY DEF BackOff, SetState
<1>24. BackOffStops => JobInv'
  BY DEF BackOffStops
<1>25. WaitTests => JobInv'
  BY DEF WaitTests
<1>26. WaitBlocks => JobInv'
  BY DEF WaitBlocks
<1>27. WaitTimesOut => JobInv'
  BY DEF WaitTimesOut
<1>28. DoubleDelay => JobInv'
  BY DEF DoubleDelay
<1>29. Start => JobInv'
  BY DEF Start
<1>30. StopRequest => JobInv'
  BY DEF StopRequest
<1>31. StopNotify => JobInv'
  BY DEF StopNotify
<1>32. StopClose => JobInv'
  BY DEF StopClose, CloseDescriptor, LinkDown
<1>33. StopJoin => JobInv'
  BY DEF StopJoin, SetState
<1>34. StopAgain => JobInv'
  BY DEF StopAgain, vars
<1>35. Workers => JobInv'
  BY DEF Workers, FindShare, SubmitTests, SubmitQueues
<1>36. PoolReplies => JobInv'
  BY DEF PoolReplies
<1>37. PoolPushes => JobInv'
  BY DEF PoolPushes
<1>38. LinkDrops => JobInv'
  BY DEF LinkDrops, LinkDown
<1>. QED BY <1>1, <1>2, <1>3, <1>4, <1>5, <1>6, <1>7, <1>8, <1>9, <1>10, <1>11, <1>12, <1>13,
            <1>14, <1>15, <1>16, <1>17, <1>18, <1>19, <1>20, <1>21, <1>22, <1>23, <1>24,
            <1>25, <1>26, <1>27, <1>28, <1>29, <1>30, <1>31, <1>32, <1>33, <1>34, <1>35,
            <1>36, <1>37, <1>38
       DEF Next, ClientThread, Connection, HandleMessage, Control, Stopping, Environment

(* No step closes a descriptor twice or leaves one open that is not held.   *)
LEMMA SocketStep ==
    ASSUME TypeOK, SocketInv, Next
    PROVE  SocketInv'
<1>. USE DEF SocketInv, PoolTypes, Connected, Sessions, TypeOK, SharedTypes, ThreadTypes,
             SessionTypes, CallerTypes,
        sharedVars, sessionVars, poolVars, callerVars, NoSession, NoJob, Job
<1>1. ExitThread => SocketInv'
  BY DEF ExitThread
<1>2. BeginSession => SocketInv'
  BY DEF BeginSession, SetState
<1>3. ConnectSucceeds => SocketInv'
  BY DEF ConnectSucceeds, SetState
<1>4. ConnectFails => SocketInv'
  BY DEF ConnectFails, SetState
<1>5. SendSubscribe => SocketInv'
  BY DEF SendSubscribe, SendSucceeds, SendFails, SetState
<1>6. SendAuthorize => SocketInv'
  BY DEF SendAuthorize, SendSucceeds, SendFails, SetState
<1>7. LoopStops => SocketInv'
  BY DEF LoopStops
<1>8. TakeOutbound => SocketInv'
  BY DEF TakeOutbound
<1>9. FlushShare => SocketInv'
  BY DEF FlushShare, SendSucceeds, SendFails
<1>10. FlushDone => SocketInv'
  BY DEF FlushDone
<1>11. SelectTimesOut => SocketInv'
  BY DEF SelectTimesOut
<1>12. ReceiveFails => SocketInv'
  BY DEF ReceiveFails
<1>13. Receive => SocketInv'
  BY DEF Receive
<1>14. DrainDone => SocketInv'
  BY DEF DrainDone
<1>15. ASSUME CloseConnection PROVE SocketInv'
  <2>1. CASE sock = NoSession
    BY <1>15, <2>1 DEF CloseConnection, SetState
  <2>2. CASE sock # NoSession
    <3>1. /\ closes' = [closes EXCEPT ![sock] = @ + 1] /\ sock \in Sessions
          /\ sock' = NoSession /\ toPool' = {} /\ fromPool' = <<>> /\ link' = "down"
          /\ UNCHANGED <<opened, session>> /\ pc' # "connect"
      BY <1>15, <2>2 DEF CloseConnection, CloseDescriptor, LinkDown
    <3>2. \A c \in Sessions : closes'[c] = IF c \in opened /\ c # sock' THEN 1 ELSE 0
      BY <2>2, <3>1
    <3>. QED BY <3>1, <3>2
  <2>. QED BY <2>1, <2>2
<1>16. HandleSubscribeReply => SocketInv'
  BY DEF HandleSubscribeReply, Handles, SetState
<1>17. HandleAuthorizeReply => SocketInv'
  BY DEF HandleAuthorizeReply, Handles, SetState
<1>18. HandleSubmitReply => SocketInv'
  BY DEF HandleSubmitReply, Handles
<1>19. HandleNotify => SocketInv'
  BY DEF HandleNotify, Handles
<1>20. HandleSetDifficulty => SocketInv'
  BY DEF HandleSetDifficulty, Handles
<1>21. HandleSetExtranonce => SocketInv'
  BY DEF HandleSetExtranonce, Handles
<1>22. HandleReconnect => SocketInv'
  BY DEF HandleReconnect, Handles, LinkDown
<1>23. BackOff => SocketInv'
  BY DEF BackOff, SetState
<1>24. BackOffStops => SocketInv'
  BY DEF BackOffStops
<1>25. WaitTests => SocketInv'
  BY DEF WaitTests
<1>26. WaitBlocks => SocketInv'
  BY DEF WaitBlocks
<1>27. WaitTimesOut => SocketInv'
  BY DEF WaitTimesOut
<1>28. DoubleDelay => SocketInv'
  BY DEF DoubleDelay
<1>29. Start => SocketInv'
  BY DEF Start
<1>30. StopRequest => SocketInv'
  BY DEF StopRequest
<1>31. StopNotify => SocketInv'
  BY DEF StopNotify
<1>32. ASSUME StopClose PROVE SocketInv'
  <2>1. CASE sock = NoSession
    BY <1>32, <2>1 DEF StopClose
  <2>2. CASE sock # NoSession
    <3>1. /\ closes' = [closes EXCEPT ![sock] = @ + 1] /\ sock \in Sessions
          /\ sock' = NoSession /\ toPool' = {} /\ fromPool' = <<>> /\ link' = "down"
          /\ UNCHANGED <<opened, session>> /\ pc' # "connect"
      BY <1>32, <2>2 DEF StopClose, CloseDescriptor, LinkDown
    <3>2. \A c \in Sessions : closes'[c] = IF c \in opened /\ c # sock' THEN 1 ELSE 0
      BY <2>2, <3>1
    <3>. QED BY <3>1, <3>2
  <2>. QED BY <2>1, <2>2
<1>33. StopJoin => SocketInv'
  BY DEF StopJoin, SetState
<1>34. StopAgain => SocketInv'
  BY DEF StopAgain, vars
<1>35. ASSUME Workers PROVE SocketInv'
  <2>1. PICK s \in Shares : FindShare(s) \/ SubmitTests(s) \/ SubmitQueues(s)
    BY <1>35 DEF Workers
  <2>2. /\ sock' = sock /\ session' = session /\ opened' = opened /\ closes' = closes
        /\ link' = link /\ toPool' = toPool /\ fromPool' = fromPool
    BY <2>1 DEF FindShare, SubmitTests, SubmitQueues
  <2>3. pc' = pc \/ (pc = "blocked" /\ pc' = "resume")
    <3>1. FindShare(s) \/ SubmitTests(s) => pc' = pc
      BY DEF FindShare, SubmitTests
    <3>2. SubmitQueues(s) => pc' = IF pc = "blocked" /\ stopRequested THEN "resume" ELSE pc
      BY DEF SubmitQueues
    <3>. QED BY <2>1, <3>1, <3>2
  <2>. QED BY <2>2, <2>3
<1>36. PoolReplies => SocketInv'
  BY DEF PoolReplies
<1>37. PoolPushes => SocketInv'
  BY DEF PoolPushes
<1>38. LinkDrops => SocketInv'
  BY DEF LinkDrops, LinkDown
<1>. QED BY <1>1, <1>2, <1>3, <1>4, <1>5, <1>6, <1>7, <1>8, <1>9, <1>10, <1>11, <1>12, <1>13,
            <1>14, <1>15, <1>16, <1>17, <1>18, <1>19, <1>20, <1>21, <1>22, <1>23, <1>24,
            <1>25, <1>26, <1>27, <1>28, <1>29, <1>30, <1>31, <1>32, <1>33, <1>34, <1>35,
            <1>36, <1>37, <1>38
       DEF Next, ClientThread, Connection, HandleMessage, Control, Stopping, Environment

(* Nothing happens in the thread between stop() and the next start().       *)
LEMMA StoppedStep ==
    ASSUME TypeOK, StoppedInv, Next
    PROVE  StoppedInv'
<1>. USE DEF StoppedInv, TypeOK, SharedTypes, ThreadTypes, SessionTypes, CallerTypes,
        sharedVars, sessionVars, poolVars, callerVars, NoSession, NoJob, Job
<1>1. ExitThread => StoppedInv'
  BY DEF ExitThread
<1>2. BeginSession => StoppedInv'
  BY DEF BeginSession, SetState
<1>3. ConnectSucceeds => StoppedInv'
  BY DEF ConnectSucceeds, SetState
<1>4. ConnectFails => StoppedInv'
  BY DEF ConnectFails, SetState
<1>5. SendSubscribe => StoppedInv'
  BY DEF SendSubscribe, SendSucceeds, SendFails, SetState
<1>6. SendAuthorize => StoppedInv'
  BY DEF SendAuthorize, SendSucceeds, SendFails, SetState
<1>7. LoopStops => StoppedInv'
  BY DEF LoopStops
<1>8. TakeOutbound => StoppedInv'
  BY DEF TakeOutbound
<1>9. FlushShare => StoppedInv'
  BY DEF FlushShare, SendSucceeds, SendFails
<1>10. FlushDone => StoppedInv'
  BY DEF FlushDone
<1>11. SelectTimesOut => StoppedInv'
  BY DEF SelectTimesOut
<1>12. ReceiveFails => StoppedInv'
  BY DEF ReceiveFails
<1>13. Receive => StoppedInv'
  BY DEF Receive
<1>14. DrainDone => StoppedInv'
  BY DEF DrainDone
<1>15. CloseConnection => StoppedInv'
  BY DEF CloseConnection, CloseDescriptor, LinkDown, SetState
<1>16. HandleSubscribeReply => StoppedInv'
  BY DEF HandleSubscribeReply, Handles, SetState
<1>17. HandleAuthorizeReply => StoppedInv'
  BY DEF HandleAuthorizeReply, Handles, SetState
<1>18. HandleSubmitReply => StoppedInv'
  BY DEF HandleSubmitReply, Handles
<1>19. HandleNotify => StoppedInv'
  BY DEF HandleNotify, Handles
<1>20. HandleSetDifficulty => StoppedInv'
  BY DEF HandleSetDifficulty, Handles
<1>21. HandleSetExtranonce => StoppedInv'
  BY DEF HandleSetExtranonce, Handles
<1>22. HandleReconnect => StoppedInv'
  BY DEF HandleReconnect, Handles, LinkDown
<1>23. BackOff => StoppedInv'
  BY DEF BackOff, SetState
<1>24. BackOffStops => StoppedInv'
  BY DEF BackOffStops
<1>25. WaitTests => StoppedInv'
  BY DEF WaitTests
<1>26. WaitBlocks => StoppedInv'
  BY DEF WaitBlocks
<1>27. WaitTimesOut => StoppedInv'
  BY DEF WaitTimesOut
<1>28. DoubleDelay => StoppedInv'
  BY DEF DoubleDelay
<1>29. Start => StoppedInv'
  BY DEF Start
<1>30. StopRequest => StoppedInv'
  BY DEF StopRequest
<1>31. StopNotify => StoppedInv'
  BY DEF StopNotify
<1>32. StopClose => StoppedInv'
  BY DEF StopClose, CloseDescriptor, LinkDown
<1>33. StopJoin => StoppedInv'
  BY DEF StopJoin, SetState
<1>34. StopAgain => StoppedInv'
  BY DEF StopAgain, vars
<1>35. Workers => StoppedInv'
  BY DEF Workers, FindShare, SubmitTests, SubmitQueues
<1>36. PoolReplies => StoppedInv'
  BY DEF PoolReplies
<1>37. PoolPushes => StoppedInv'
  BY DEF PoolPushes
<1>38. LinkDrops => StoppedInv'
  BY DEF LinkDrops, LinkDown
<1>. QED BY <1>1, <1>2, <1>3, <1>4, <1>5, <1>6, <1>7, <1>8, <1>9, <1>10, <1>11, <1>12, <1>13,
            <1>14, <1>15, <1>16, <1>17, <1>18, <1>19, <1>20, <1>21, <1>22, <1>23, <1>24,
            <1>25, <1>26, <1>27, <1>28, <1>29, <1>30, <1>31, <1>32, <1>33, <1>34, <1>35,
            <1>36, <1>37, <1>38
       DEF Next, ClientThread, Connection, HandleMessage, Control, Stopping, Environment

(* The initial states satisfy the invariant.                                *)
LEMMA SessionInit == Init => SessionInv
BY Bounds DEF Init, SessionInv, JobInv, JobOfThisSession, SocketInv, StoppedInv, NoJob,
   NoSession

(* Every step keeps the whole of it, and so does no step.                   *)
LEMMA SessionStep == TypeOK /\ SessionInv /\ [Next]_vars => SessionInv'
<1>1. TypeOK /\ SessionInv /\ Next => SessionInv'
  BY JobStep, SocketStep, StoppedStep DEF SessionInv
<1>2. SessionInv /\ UNCHANGED vars => SessionInv'
  BY DEF SessionInv, JobInv, JobOfThisSession, SocketInv, StoppedInv, vars, sharedVars,
         sessionVars, poolVars, callerVars
<1>. QED BY <1>1, <1>2

(* The invariant holds throughout.                                          *)
LEMMA SessionCorrect == Spec => []SessionInv
<1>. QED BY TypeCorrect, SessionInit, SessionStep, PTL DEF Spec

(* A job is worked only while the connection that delivered it is served,   *)
(* with that connection's extranonce, whatever the pool sends and drops.    *)
THEOREM JobCorrect == Spec => []JobOfThisSession
<1>1. SessionInv => JobOfThisSession
  BY DEF SessionInv, JobInv
<1>. QED BY SessionCorrect, <1>1, PTL

(* However stop() and the connection thread race for the descriptor, each   *)
(* is closed at most once, and exactly once by the time stop() returns.     *)
THEOREM DescriptorsCorrect == Spec => []DescriptorsClosedOnce
<1>1. TypeOK /\ SessionInv => DescriptorsClosedOnce
  <2>. SUFFICES ASSUME TypeOK, SessionInv PROVE DescriptorsClosedOnce
    OBVIOUS
  <2>1. \A c \in Sessions : closes[c] <= (IF c \in opened THEN 1 ELSE 0)
    BY DEF SessionInv, SocketInv
  <2>2. ASSUME stopPc = "stopped", NEW c \in opened PROVE closes[c] = 1
    <3>1. c # NoSession /\ c \in Sessions
      BY DEF TypeOK, PoolTypes, Sessions, NoSession
    <3>2. sock = NoSession
      BY <2>2 DEF SessionInv, StoppedInv, SocketInv, Connected
    <3>. QED BY <3>1, <3>2 DEF SessionInv, SocketInv
  <2>. QED BY <2>1, <2>2 DEF DescriptorsClosedOnce
<1>. QED BY TypeCorrect, SessionCorrect, <1>1, PTL

(* When stop() has returned, the thread, the socket, the link with all that *)
(* was under way on it and the caller's job are gone.                       *)
THEOREM StoppedCorrect == Spec => []StoppedIsQuiet
<1>1. SessionInv => StoppedIsQuiet
  BY DEF SessionInv, StoppedInv, SocketInv, StoppedIsQuiet, Connected
<1>. QED BY SessionCorrect, <1>1, PTL

-----------------------------------------------------------------------------
(* The difficulties and the waits, over the record of ClientHistory.        *)

(* The record is kept beside the client and hinders none of its steps.      *)
LEMMA RecordsOnly == HSpec => Spec
<1>1. HInit => Init
  BY DEF HInit
<1>2. [HNext]_hvars => [Next]_vars
  BY DEF HNext, hvars
<1>. QED BY <1>1, <1>2, PTL DEF HSpec, Spec

(* What is left of the lines is not all of them.                            *)
LEMMA TailIsLess == ASSUME lines \in Seq(Message), lines # <<>> PROVE Tail(lines) # lines
<1>. DEFINE more == Len(lines)
            less == Len(Tail(lines))
<1>1. less = more - 1 /\ more \in Nat
  BY HeadTailProperties
<1>2. Tail(lines) = lines => less = more
  BY Zenon
<1>. HIDE DEF more, less
<1>. QED BY <1>1, <1>2

(* Only handleMessage() takes a line.                                       *)
LEMMA OnlyHandlersRead ==
    ASSUME TypeOK, Next, ~HandleMessage, NEW kind
    PROVE  ~Reads(kind)
<1>. USE DEF sharedVars, sessionVars, poolVars, callerVars
<1>1. Connection => pc # "drain" \/ lines = <<>>
  BY DEF Connection, ConnectSucceeds, ConnectFails, SendSubscribe, SendAuthorize,
      LoopStops, TakeOutbound, FlushShare, FlushDone, SelectTimesOut, ReceiveFails,
      Receive, DrainDone, CloseConnection
<1>2. ClientThread => pc # "drain" \/ lines = <<>>
  BY <1>1 DEF ClientThread, ExitThread, BeginSession, BackOff, BackOffStops, WaitTests,
      WaitBlocks, WaitTimesOut, DoubleDelay
<1>3. Control => lines' = lines
  BY DEF Control, Stopping, Start, StopRequest, StopNotify, StopClose, StopJoin,
      StopAgain, vars
<1>4. Workers => lines' = lines
  BY DEF Workers, FindShare, SubmitTests, SubmitQueues
<1>5. Environment => lines' = lines
  BY DEF Environment, PoolReplies, PoolPushes, LinkDrops
<1>6. lines' = lines \/ pc # "drain" \/ lines = <<>>
  BY <1>2, <1>3, <1>4, <1>5 DEF Next
<1>. QED BY <1>6, TailIsLess DEF Reads, TypeOK, LineTypes

(* The next attempt is all that begins a session, start() all that makes    *)
(* the client run.                                                          *)
LEMMA SessionsBegin ==
    ASSUME TypeOK, Next
    PROVE  /\ ~BeginSession => ~Attempts
           /\ ~Start => ~Starts
<1>. USE DEF sharedVars, sessionVars, poolVars, callerVars, Attempts, Starts, TypeOK,
            SharedTypes
<1>1. Connection => session' = session /\ (running' => running)
  BY DEF Connection, ConnectSucceeds, ConnectFails, SendSubscribe, SendAuthorize,
      LoopStops, TakeOutbound, FlushShare, FlushDone, SelectTimesOut, ReceiveFails,
      Receive, DrainDone, CloseConnection
<1>2. HandleMessage => session' = session /\ (running' => running)
  BY DEF HandleMessage, HandleSubscribeReply, HandleAuthorizeReply, HandleSubmitReply,
      HandleNotify, HandleSetDifficulty, HandleSetExtranonce, HandleReconnect
<1>3. ClientThread /\ ~BeginSession => session' = session /\ (running' => running)
  BY <1>1, <1>2 DEF ClientThread, ExitThread, BackOff, BackOffStops, WaitTests,
      WaitBlocks, WaitTimesOut, DoubleDelay
<1>4. BeginSession => (running' => running)
  BY DEF BeginSession
<1>5. Control => session' = session
  BY DEF Control, Stopping, Start, StopRequest, StopNotify, StopClose, StopJoin,
      StopAgain, vars
<1>6. Control /\ ~Start => (running' => running)
  BY DEF Control, Stopping, StopRequest, StopNotify, StopClose, StopJoin, StopAgain, vars
<1>7. Workers => session' = session /\ (running' => running)
  BY DEF Workers, FindShare, SubmitTests, SubmitQueues
<1>8. Environment => session' = session /\ (running' => running)
  BY DEF Environment, PoolReplies, PoolPushes, LinkDrops
<1>9. ~BeginSession => session' = session
  BY <1>3, <1>5, <1>7, <1>8 DEF Next
<1>10. ~Start => (running' => running)
  BY <1>3, <1>4, <1>6, <1>7, <1>8 DEF Next
<1>. QED BY <1>9, <1>10

(* The client knows the difficulty last announced to it in this session.    *)
RatesInv == difficulty = announced /\ JobAtAnnouncedDifficulty

(* Steps that neither handle a message nor begin a session leave the job as *)
(* it is, or take it away.                                                  *)
LEMMA QuietRates ==
    ASSUME TypeOK, Next, ~HandleMessage, ~BeginSession
    PROVE  difficulty' = difficulty /\ job' \in {job, NoJob}
<1>. USE DEF sharedVars, sessionVars, poolVars, callerVars
<1>1. Connection => difficulty' = difficulty /\ job' \in {job, NoJob}
  BY DEF Connection, ConnectSucceeds, ConnectFails, SendSubscribe, SendAuthorize,
      LoopStops, TakeOutbound, FlushShare, FlushDone, SelectTimesOut, ReceiveFails,
      Receive, DrainDone, CloseConnection, SetState
<1>2. ClientThread => difficulty' = difficulty /\ job' \in {job, NoJob}
  BY <1>1 DEF ClientThread, ExitThread, BackOff, BackOffStops, WaitTests, WaitBlocks,
      WaitTimesOut, DoubleDelay, SetState
<1>3. Control => difficulty' = difficulty /\ job' \in {job, NoJob}
  BY DEF Control, Stopping, Start, StopRequest, StopNotify, StopClose, StopJoin,
      StopAgain, vars, SetState
<1>4. Workers => difficulty' = difficulty /\ job' = job
  BY DEF Workers, FindShare, SubmitTests, SubmitQueues
<1>5. Environment => difficulty' = difficulty /\ job' = job
  BY DEF Environment, PoolReplies, PoolPushes, LinkDrops
<1>. QED BY <1>2, <1>3, <1>4, <1>5 DEF Next

(* Every step keeps the job at a difficulty it may have.                    *)
LEMMA RatesStep ==
    ASSUME TypeOK, JobInv, RatesInv, HNext
    PROVE  RatesInv'
<1>. USE DEF RatesInv, JobAtAnnouncedDifficulty
<1>0. Next /\ RecordAnnounced /\ RecordReceived
  BY DEF HNext
<1>1. CASE ~HandleMessage /\ ~BeginSession
  <2>1. difficulty' = difficulty /\ job' \in {job, NoJob}
    BY <1>0, <1>1, QuietRates
  <2>2. ~Reads("notify") /\ ~ReadsDifficulty /\ ~Attempts
    BY <1>0, <1>1, OnlyHandlersRead, SessionsBegin DEF ReadsDifficulty
  <2>. QED BY <1>0, <2>1, <2>2 DEF RecordAnnounced, RecordReceived
<1>2. CASE BeginSession
  <2>1. Attempts /\ difficulty' = 0
    BY <1>2 DEF BeginSession, Attempts, TypeOK, SessionTypes, Sessions, NoSession
  <2>2. job' = NoJob
    BY <1>2 DEF BeginSession, SetState, JobInv, JobOfThisSession, Serving
  <2>. QED BY <1>0, <2>1, <2>2 DEF RecordAnnounced, NoDifficulty
<1>3. CASE HandleMessage
  <2>. USE DEF sharedVars, sessionVars, poolVars, callerVars, Handles, Reads
  <2>0. ~Attempts
    BY <1>3 DEF HandleMessage, HandleSubscribeReply, HandleAuthorizeReply,
        HandleSubmitReply, HandleNotify, HandleSetDifficulty, HandleSetExtranonce,
        HandleReconnect, Attempts
  <2>1. CASE HandleNotify
    <3>1. Reads("notify") /\ ~ReadsDifficulty /\ difficulty' = difficulty
      BY <2>1 DEF HandleNotify, ReadsDifficulty
    <3>2. job' # NoJob => job'.difficulty = difficulty
      BY <2>1 DEF HandleNotify, JobInv
    <3>. QED BY <1>0, <2>0, <3>1, <3>2 DEF RecordAnnounced, RecordReceived
  <2>2. CASE HandleSetDifficulty
    <3>1. ~Reads("notify") /\ Reads("difficulty")
      BY <2>2 DEF HandleSetDifficulty
    <3>2. CASE message.value > 0
      <4>1. /\ announced' = message.value /\ difficulty' = message.value
            /\ job' # NoJob => since' = since \cup {message.value}
        BY <1>0, <2>0, <2>2, <3>1, <3>2
           DEF HandleSetDifficulty, RecordAnnounced, RecordReceived, ReadsDifficulty
      <4>2. job' # NoJob => job'.difficulty = message.value
        BY <2>2, <3>2 DEF HandleSetDifficulty, TypeOK, CallerTypes, Job
      <4>. QED BY <4>1, <4>2
    <3>3. CASE ~(message.value > 0)
      BY <1>0, <2>0, <2>2, <3>1, <3>3
         DEF HandleSetDifficulty, RecordAnnounced, RecordReceived, ReadsDifficulty
    <3>. QED BY <3>2, <3>3
  <2>3. CASE ~HandleNotify /\ ~HandleSetDifficulty
    <3>1. /\ difficulty' = difficulty /\ job' \in {job, NoJob}
          /\ ~Reads("notify") /\ ~Reads("difficulty")
      BY <1>3, <2>3 DEF HandleMessage, HandleSubscribeReply, HandleAuthorizeReply,
          HandleSubmitReply, HandleSetExtranonce, HandleReconnect, SetState
    <3>. QED BY <1>0, <2>0, <3>1 DEF RecordAnnounced, RecordReceived, ReadsDifficulty
  <2>. QED BY <2>1, <2>2, <2>3
<1>. QED BY <1>1, <1>2, <1>3

(* A job is never worked at a difficulty superseded before it came, nor at  *)
(* one of another session, in whatever order the pool sends and the         *)
(* connections end.                                                         *)
THEOREM DifficultyCorrect == HSpec => []JobAtAnnouncedDifficulty
<1>1. HInit => RatesInv
  BY DEF HInit, Init, RatesInv, JobAtAnnouncedDifficulty, NoDifficulty
<1>2. TypeOK /\ SessionInv /\ RatesInv /\ [HNext]_hvars => RatesInv'
  <2>1. TypeOK /\ SessionInv /\ RatesInv /\ HNext => RatesInv'
    BY RatesStep DEF SessionInv
  <2>2. RatesInv /\ UNCHANGED hvars => RatesInv'
    BY DEF RatesInv, JobAtAnnouncedDifficulty, hvars, history, vars, sessionVars,
           callerVars
  <2>. QED BY <2>1, <2>2
<1>3. RatesInv => JobAtAnnouncedDifficulty
  BY DEF RatesInv
<1>. QED BY RecordsOnly, TypeCorrect, SessionCorrect, <1>1, <1>2, <1>3, PTL DEF HSpec

-----------------------------------------------------------------------------
(* The back-off.  Its delays are powers of two, which are a recursive       *)
(* function: the next lemmas are the induction that defines them.           *)

(* Every set of numbers that is not empty has a least one.                  *)
LEMMA LeastOf ==
    ASSUME NEW T \in SUBSET Nat, T # {}
    PROVE  \E x \in T : \A y \in T : x <= y
<1>1. PICK x \in T : \A y \in T : <<y, x>> \notin OpToRel(<, Nat)
  BY NatLessThanWellFounded, WFMin
<1>2. ASSUME NEW y \in T PROVE x <= y
  <2>1. x \in Nat /\ y \in Nat
    OBVIOUS
  <2>2. ~(y < x)
    BY <1>1, <2>1 DEF OpToRel
  <2>. QED BY <2>1, <2>2
<1>. QED BY <1>2

(* Induction, on a set of numbers.                                          *)
LEMMA Induction ==
    ASSUME NEW S \in SUBSET Nat, 0 \in S, \A n \in S : n + 1 \in S
    PROVE  S = Nat
<1>. SUFFICES ASSUME Nat \ S # {} PROVE FALSE
  OBVIOUS
<1>1. PICK x \in Nat \ S : \A y \in Nat \ S : x <= y
  BY LeastOf
<1>2. x # 0 /\ x - 1 \in S
  BY <1>1
<1>. QED BY <1>1, <1>2

(* f comes about by n steps of G from s0.                                   *)
Follows(f, n, s0, G) == f[0] = s0 /\ \A m \in 0 .. n - 1 : f[m + 1] = G[<<m, f[m]>>]

(* A recursion of n steps over any data has a solution.                     *)
LEMMA RecursionUpTo ==
    ASSUME NEW S, NEW s0 \in S, NEW G \in [Nat \X S -> S], NEW n \in Nat
    PROVE  \E f \in [0 .. n -> S] : Follows(f, n, s0, G)
<1>. DEFINE Good(k, f) == f[0] = s0 /\ \A m \in 0 .. k - 1 : f[m + 1] = G[<<m, f[m]>>]
            Has == {k \in Nat : \E f \in [0 .. k -> S] : Good(k, f)}
<1>1. 0 \in Has
  <2>1. Good(0, [m \in 0 .. 0 |-> s0])
    OBVIOUS
  <2>. QED BY <2>1
<1>2. ASSUME NEW k \in Has PROVE k + 1 \in Has
  <2>1. PICK f \in [0 .. k -> S] : Good(k, f)
    OBVIOUS
  <2>. DEFINE g == [m \in 0 .. k + 1 |-> IF m = k + 1 THEN G[<<k, f[k]>>] ELSE f[m]]
  <2>2. g \in [0 .. k + 1 -> S]
    OBVIOUS
  <2>3. g[0] = s0
    BY <2>1
  <2>4. ASSUME NEW m \in 0 .. k PROVE g[m + 1] = G[<<m, g[m]>>]
    <3>. k \in Nat /\ k # k + 1
      OBVIOUS
    <3>1. CASE m = k
      <4>1. g[k + 1] = G[<<k, f[k]>>] /\ g[k] = f[k]
        OBVIOUS
      <4>. QED BY <3>1, <4>1
    <3>2. CASE m # k
      <4>1. m \in 0 .. k - 1 /\ m + 1 \in 0 .. k /\ m + 1 # k + 1 /\ m # k + 1
        BY <3>2
      <4>. QED BY <2>1, <4>1
    <3>. QED BY <3>1, <3>2
  <2>. HIDE DEF g
  <2>5. k + 1 - 1 = k
    OBVIOUS
  <2>. QED BY <2>2, <2>3, <2>4, <2>5
<1>3. Has = Nat
  <2>1. Has \in SUBSET Nat
    OBVIOUS
  <2>. HIDE DEF Has
  <2>. QED BY <1>1, <1>2, <2>1, Induction
<1>. QED BY <1>3 DEF Follows

FollowsAlways(f, s0, G) == f[0] = s0 /\ \A n \in Nat : f[n + 1] = G[<<n, f[n]>>]

(* A recursion over all numbers has a solution.                             *)
LEMMA Recursion ==
    ASSUME NEW S, NEW s0 \in S, NEW G \in [Nat \X S -> S]
    PROVE  \E f \in [Nat -> S] : FollowsAlways(f, s0, G)
<1>. DEFINE Good(n, f) == /\ f \in [0 .. n -> S] /\ f[0] = s0
                          /\ \A m \in 0 .. n - 1 : f[m + 1] = G[<<m, f[m]>>]
            First(n) == CHOOSE f : Good(n, f)
            F == [n \in Nat |-> First(n)[n]]
<1>1. ASSUME NEW n \in Nat PROVE Good(n, First(n))
  <2>1. \E f \in [0 .. n -> S] : Follows(f, n, s0, G)
    BY RecursionUpTo
  <2>2. \E f : Good(n, f)
    BY <2>1 DEF Follows
  <2>. HIDE DEF Good
  <2>. QED BY <2>2
<1>2. ASSUME NEW n \in Nat, NEW f, NEW g, Good(n, f), Good(n + 1, g)
      PROVE  \A m \in 0 .. n : f[m] = g[m]
  <2>. DEFINE Same == {m \in Nat : m <= n => f[m] = g[m]}
  <2>1. 0 \in Same
    BY <1>2
  <2>2. ASSUME NEW m \in Same PROVE m + 1 \in Same
    <3>. SUFFICES ASSUME m + 1 <= n PROVE f[m + 1] = g[m + 1]
      OBVIOUS
    <3>1. m \in Nat /\ m <= n
      OBVIOUS
    <3>2. f[m] = g[m]
      BY <3>1
    <3>3. m \in 0 .. n - 1 /\ m \in 0 .. (n + 1) - 1
      BY <3>1
    <3>. QED BY <1>2, <3>2, <3>3
  <2>3. Same \in SUBSET Nat
    OBVIOUS
  <2>. HIDE DEF Same
  <2>4. Same = Nat
    BY <2>1, <2>2, <2>3, Induction
  <2>. QED BY <2>4 DEF Same
<1>. HIDE DEF First
<1>3. ASSUME NEW n \in Nat PROVE F[n + 1] = G[<<n, F[n]>>]
  <2>. DEFINE f == First(n)
              g == First(n + 1)
  <2>0. Good(n, f) /\ Good(n + 1, g)
    BY <1>1
  <2>. HIDE DEF f, g
  <2>1. \A m \in 0 .. n : f[m] = g[m]
    <3>. HIDE DEF Good
    <3>. QED BY <1>2, <2>0
  <2>2. g[n + 1] = G[<<n, g[n]>>]
    BY <2>0
  <2>3. f[n] = g[n]
    BY <2>1
  <2>. USE DEF f, g
  <2>. QED BY <2>2, <2>3
<1>4. F \in [Nat -> S] /\ F[0] = s0
  BY <1>1
<1>. HIDE DEF F
<1>. QED BY <1>3, <1>4 DEF FollowsAlways

(* The powers of two are what their recursion says.                         *)
LEMMA Pow2Def ==
    /\ Pow2 \in [Nat -> Nat] /\ Pow2[0] = 1
    /\ \A n \in Nat : Pow2[n + 1] = 2 * Pow2[n]
<1>. DEFINE G == [p \in Nat \X Nat |-> 2 * p[2]]
<1>1. G \in [Nat \X Nat -> Nat]
  OBVIOUS
<1>2. PICK f \in [Nat -> Nat] : FollowsAlways(f, 1, G)
  <2>1. 1 \in Nat
    OBVIOUS
  <2>. HIDE DEF G
  <2>. QED BY <1>1, <2>1, Recursion
<1>3. f[0] = 1 /\ \A n \in Nat : f[n + 1] = 2 * f[n]
  BY <1>2 DEF FollowsAlways
<1>4. f = [n \in Nat |-> IF n = 0 THEN 1 ELSE 2 * f[n - 1]]
  <2>1. ASSUME NEW n \in Nat PROVE f[n] = IF n = 0 THEN 1 ELSE 2 * f[n - 1]
    <3>1. CASE n # 0
      <4>1. n - 1 \in Nat /\ (n - 1) + 1 = n
        BY <3>1
      <4>. QED BY <1>3, <3>1, <4>1
    <3>. QED BY <1>3, <3>1
  <2>. QED BY <1>2, <2>1
<1>5. Pow2 = [n \in Nat |-> IF n = 0 THEN 1 ELSE 2 * Pow2[n - 1]]
  BY <1>4 DEF Pow2
<1>6. \A n \in Nat : Pow2[n] = IF n = 0 THEN 1 ELSE 2 * Pow2[n - 1]
  BY <1>5
<1>7. Pow2[0] = 1 /\ \A n \in Nat : Pow2[n + 1] = 2 * Pow2[n]
  BY <1>6
<1>. DEFINE P == {n \in Nat : Pow2[n] \in Nat}
<1>8. 0 \in P /\ \A n \in P : n + 1 \in P
  BY <1>7
<1>9. P = Nat
  <2>. P \in SUBSET Nat
    OBVIOUS
  <2>. HIDE DEF P
  <2>. QED BY <1>8, Induction
<1>10. \A n \in Nat : Pow2[n] \in Nat
  BY <1>9
<1>. QED BY <1>5, <1>7, <1>10

(* The wait doubles with the attempts until it is the longest.              *)
LEMMA WaitsDouble ==
    ASSUME NEW k \in Nat, k >= 1
    PROVE  /\ WaitAfter(1) = InitialDelay
           /\ WaitAfter(k + 1) = IF 2 * WaitAfter(k) > MaxDelay THEN MaxDelay
                                                                ELSE 2 * WaitAfter(k)
<1>1. WaitAfter(1) = InitialDelay
  BY Pow2Def, Bounds DEF WaitAfter
<1>2. WaitAfter(k + 1) = IF 2 * WaitAfter(k) > MaxDelay THEN MaxDelay ELSE 2 * WaitAfter(k)
  <2>. DEFINE p == Pow2[k - 1]
              q == Pow2[k]
              wait == InitialDelay * p
              next == InitialDelay * q
  <2>1. p \in Nat /\ q = 2 * p
    BY Pow2Def
  <2>2. next = 2 * wait /\ wait \in Nat
    <3>. HIDE DEF p, q
    <3>. QED BY <2>1, Bounds
  <2>3. /\ WaitAfter(k) = IF wait > MaxDelay THEN MaxDelay ELSE wait
        /\ WaitAfter(k + 1) = IF next > MaxDelay THEN MaxDelay ELSE next
    <3>1. (k + 1) - 1 = k
      OBVIOUS
    <3>. QED BY <3>1 DEF WaitAfter
  <2>. HIDE DEF wait, next
  <2>. QED BY <2>2, <2>3, Bounds
<1>. QED BY <1>1, <1>2

(* The places of the connection thread in an attempt and in a wait.         *)
Attempting == {"connect", "backoff"} \cup Connected
Waiting    == {"wait", "blocking", "blocked", "resume"}

(* The delay at each place, by the attempts that it took to get there; and, *)
(* so that no other answer passes for the authorization, the ids of the     *)
(* handshake.                                                               *)
BackOffInv ==
    /\ attempts \in Nat
    /\ pc = "top" => delay = WaitAfter(attempts + 1)
    /\ pc \in Attempting =>
         /\ attempts >= 1
         /\ authorized => reachedAuthorized
         /\ reachedAuthorized => attempts = 1
         /\ ~reachedAuthorized => delay = WaitAfter(attempts)
    /\ pc \in Waiting => attempts >= 1 /\ delay = WaitAfter(attempts)
    /\ pc = "authorize" => subscribeId < nextId
    /\ pc \in {"loop", "flush", "select", "drain"} => subscribeId # authorizeId

(* Steps that change nothing the invariant speaks of but the place, within  *)
(* an attempt or within a wait.                                             *)
LEMMA BackOffPlaces ==
    ASSUME BackOffInv,
           UNCHANGED <<attempts, delay, reachedAuthorized, authorized, subscribeId,
                       authorizeId, nextId>>,
           \/ pc' = pc
           \/ pc' \in {"idle", "done"}
           \/ pc \in {"loop", "flush", "select", "drain"}
                /\ pc' \in {"loop", "flush", "select", "drain", "close"}
           \/ pc = "connect" /\ pc' \in {"subscribe", "backoff"}
           \/ pc \in Waiting /\ pc' \in Waiting
    PROVE  BackOffInv'
BY DEF BackOffInv, Attempting, Waiting, Connected

(* Every step waits as long as the attempts call for.                       *)
LEMMA BackOffStep ==
    ASSUME TypeOK, BackOffInv, HNext
    PROVE  BackOffInv'
<1>. USE DEF sharedVars, sessionVars, poolVars, callerVars, Waiting
<1>0. Next /\ RecordAttempts
  BY DEF HNext
<1>1. CASE Start
  <2>1. running' /\ ~running
    BY <1>1 DEF Start
  <2>2. attempts' = 0 /\ pc' = "top" /\ delay' = InitialDelay
    BY <1>0, <1>1, <2>1 DEF Start, RecordAttempts, Starts
  <2>. QED BY <2>2, WaitsDouble DEF BackOffInv, Attempting, Connected
<1>2. CASE BeginSession
  <2>1. ~Starts /\ Attempts
    <3>1. ~Start
      BY <1>2 DEF BeginSession, Start
    <3>2. Attempts
      BY <1>2 DEF BeginSession, Attempts, TypeOK, SessionTypes, Sessions, NoSession
    <3>. QED BY <1>0, <3>1, <3>2, SessionsBegin
  <2>2. /\ attempts' = attempts + 1 /\ delay' = delay /\ pc = "top" /\ pc' = "connect"
        /\ ~reachedAuthorized' /\ ~authorized'
    BY <1>0, <1>2, <2>1 DEF BeginSession, RecordAttempts
  <2>. QED BY <2>2 DEF BackOffInv
<1>3. CASE HandleMessage
  <2>1. ~Starts /\ ~Attempts /\ pc = "drain" /\ pc' = "drain" /\ nextId' = nextId
    <3>1. pc = "drain" /\ ~Start /\ ~BeginSession
      BY <1>3 DEF HandleMessage, HandleSubscribeReply, HandleAuthorizeReply,
          HandleSubmitReply, HandleNotify, HandleSetDifficulty, HandleSetExtranonce,
          HandleReconnect, Handles, Start, BeginSession
    <3>2. pc' = pc /\ nextId' = nextId
      BY <1>3 DEF HandleMessage, HandleSubscribeReply, HandleAuthorizeReply,
          HandleSubmitReply, HandleNotify, HandleSetDifficulty, HandleSetExtranonce,
          HandleReconnect
    <3>. QED BY <1>0, <3>1, <3>2, SessionsBegin
  <2>2. UNCHANGED <<delay, subscribeId, authorizeId>>
    BY <1>3 DEF HandleMessage, HandleSubscribeReply, HandleAuthorizeReply,
        HandleSubmitReply, HandleNotify, HandleSetDifficulty, HandleSetExtranonce,
        HandleReconnect
  <2>3. CASE HandleAuthorizeReply /\ message.ok
    <3>1. ReadsAuthorization /\ reachedAuthorized'
      BY <2>3 DEF HandleAuthorizeReply, Handles, ReadsAuthorization, Reads
    <3>2. attempts' = 1
      BY <1>0, <2>1, <3>1 DEF RecordAttempts
    <3>. QED BY <2>1, <2>2, <3>1, <3>2 DEF BackOffInv, Attempting, Connected
  <2>4. CASE ~(HandleAuthorizeReply /\ message.ok)
    <3>1. ~ReadsAuthorization
      BY <1>3, <2>1, <2>4
         DEF HandleMessage, HandleSubscribeReply, HandleAuthorizeReply, HandleSubmitReply,
             HandleNotify, HandleSetDifficulty, HandleSetExtranonce, HandleReconnect,
             Handles, ReadsAuthorization, Reads, BackOffInv
    <3>2. attempts' = attempts
      BY <1>0, <2>1, <3>1 DEF RecordAttempts
    <3>3. authorized' = authorized
      BY <1>3, <2>4
         DEF HandleMessage, HandleSubscribeReply, HandleAuthorizeReply, HandleSubmitReply,
             HandleNotify, HandleSetDifficulty, HandleSetExtranonce, HandleReconnect
    <3>4. reachedAuthorized' = (reachedAuthorized \/ authorized)
      BY <1>3, <2>4
         DEF HandleMessage, HandleSubscribeReply, HandleAuthorizeReply, HandleSubmitReply,
             HandleNotify, HandleSetDifficulty, HandleSetExtranonce, HandleReconnect,
             Handles
    <3>5. reachedAuthorized' <=> reachedAuthorized
      BY <2>1, <3>4 DEF BackOffInv, Attempting, Connected
    <3>. QED BY <2>1, <2>2, <3>2, <3>3, <3>5 DEF BackOffInv, Attempting, Connected
  <2>. QED BY <2>3, <2>4
<1>4. CASE ~Start /\ ~BeginSession /\ ~HandleMessage
  <2>0. attempts' = attempts
    BY <1>0, <1>4, OnlyHandlersRead, SessionsBegin DEF RecordAttempts, ReadsAuthorization
  <2>1. CASE SendSubscribe
    <3>1. /\ subscribeId' = nextId /\ nextId' = nextId + 1 /\ nextId \in Nat
          /\ pc = "subscribe" /\ pc' \in {"authorize", "close"}
          /\ UNCHANGED <<delay, reachedAuthorized, authorized>>
      BY <2>1 DEF SendSubscribe, TypeOK, SharedTypes
    <3>. QED BY <2>0, <3>1 DEF BackOffInv, Attempting, Connected
  <2>2. CASE SendAuthorize
    <3>1. /\ authorizeId' = nextId /\ subscribeId' = subscribeId
          /\ nextId \in Nat /\ subscribeId \in Nat
          /\ pc = "authorize" /\ pc' \in {"loop", "close"}
          /\ UNCHANGED <<delay, reachedAuthorized, authorized>>
      BY <2>2 DEF SendAuthorize, TypeOK, SharedTypes, SessionTypes
    <3>. QED BY <2>0, <3>1 DEF BackOffInv, Attempting, Connected
  <2>3. CASE FlushShare
    <3>1. pc = "flush" /\ pc' = pc /\ UNCHANGED <<delay, reachedAuthorized, authorized,
                                                  subscribeId, authorizeId>>
      BY <2>3 DEF FlushShare
    <3>. QED BY <2>0, <3>1 DEF BackOffInv
  <2>4. CASE CloseConnection
    <3>1. pc = "close" /\ pc' = "backoff" /\ ~authorized'
          /\ UNCHANGED <<delay, reachedAuthorized>>
      BY <2>4 DEF CloseConnection
    <3>. QED BY <2>0, <3>1 DEF BackOffInv, Attempting, Connected
  <2>5. CASE BackOff
    <3>1. pc = "backoff" /\ pc' = "wait"
          /\ delay' = IF reachedAuthorized THEN InitialDelay ELSE delay
      BY <2>5 DEF BackOff
    <3>2. delay' = WaitAfter(attempts) /\ attempts >= 1
      BY <3>1, WaitsDouble DEF BackOffInv, Attempting
    <3>. QED BY <2>0, <3>1, <3>2 DEF BackOffInv, Attempting, Connected
  <2>6. CASE DoubleDelay
    <3>1. pc = "resume" /\ pc' = "top"
          /\ delay' = IF 2 * delay > MaxDelay THEN MaxDelay ELSE 2 * delay
      BY <2>6 DEF DoubleDelay
    <3>2. attempts \in Nat /\ delay' = WaitAfter(attempts + 1)
      BY <3>1, WaitsDouble DEF BackOffInv
    <3>. QED BY <2>0, <3>1, <3>2 DEF BackOffInv, Attempting, Connected
  <2>7. CASE ConnectSucceeds \/ ConnectFails
    BY <2>0, <2>7, BackOffPlaces DEF ConnectSucceeds, ConnectFails
  <2>8. CASE LoopStops \/ TakeOutbound \/ FlushDone \/ SelectTimesOut \/ ReceiveFails
               \/ DrainDone
    BY <2>0, <2>8, BackOffPlaces
       DEF LoopStops, TakeOutbound, FlushDone, SelectTimesOut, ReceiveFails, DrainDone
  <2>9. CASE Receive
    BY <2>0, <2>9, BackOffPlaces DEF Receive
  <2>10. CASE ExitThread \/ BackOffStops \/ WaitTests \/ WaitBlocks \/ WaitTimesOut
    BY <2>0, <2>10, BackOffPlaces
       DEF ExitThread, BackOffStops, WaitTests, WaitBlocks, WaitTimesOut
  <2>11. CASE Control
    BY <1>4, <2>0, <2>11, BackOffPlaces
       DEF Control, Stopping, StopRequest, StopNotify, StopClose, StopJoin, StopAgain, vars
  <2>12. CASE Workers
    <3>1. PICK s \in Shares : FindShare(s) \/ SubmitTests(s) \/ SubmitQueues(s)
      BY <2>12 DEF Workers
    <3>. QED BY <2>0, <3>1, BackOffPlaces DEF FindShare, SubmitTests, SubmitQueues
  <2>13. CASE Environment
    BY <2>0, <2>13, BackOffPlaces DEF Environment, PoolReplies, PoolPushes, LinkDrops
  <2>. QED BY <1>0, <1>4, <2>1, <2>2, <2>3, <2>4, <2>5, <2>6, <2>7, <2>8, <2>9, <2>10,
              <2>11, <2>12, <2>13 DEF Next, ClientThread, Connection
<1>. QED BY <1>1, <1>2, <1>3, <1>4

(* Before each attempt the client waits the initial delay doubled once for  *)
(* every earlier one since its last authorized session, up to the longest,  *)
(* for every number of sessions, both delays and any answers of the pools.  *)
THEOREM BackOffCorrect == HSpec => []BackOffFollowsAttempts
<1>1. HInit => BackOffInv
  BY DEF HInit, Init, BackOffInv, Attempting, Waiting, Connected
<1>2. TypeOK /\ BackOffInv /\ [HNext]_hvars => BackOffInv'
  <2>1. BackOffInv /\ UNCHANGED hvars => BackOffInv'
    BY DEF BackOffInv, hvars, history, vars, sharedVars, sessionVars
  <2>. QED BY <2>1, BackOffStep
<1>3. BackOffInv => BackOffFollowsAttempts
  BY DEF BackOffInv, Waiting, BackOffFollowsAttempts
<1>. QED BY RecordsOnly, TypeCorrect, <1>1, <1>2, <1>3, PTL DEF HSpec

-----------------------------------------------------------------------------
(* StratumClient implements ShareLedger: whatever the connections do, each  *)
(* share goes its one way through the ledger.                               *)

(* The ledger's status variable under the refinement mapping.               *)
StatusBar == [s \in Shares |-> ShareStatus(s)]

(* A submission the pool has yet to answer, or to answer again, is of a     *)
(* share that is out or judged: no connection carries another one's.        *)
WireInv ==
    \A r \in toPool : r.kind = "submit" =>
        StatusBar[r.share] \in {"sent", "accepted", "rejected"}

(* What the status of a share says of where it is.                          *)
StatusFollows ==
    \A s \in Shares :
        /\ submit[s] = "mining" => StatusBar[s] = "unfound"
        /\ submit[s] \in {"found", "checked"} => StatusBar[s] = "found"
        /\ submit[s] = "returned" /\ verdicts[s] # <<>> =>
             /\ StatusBar[s] = verdicts[s][1]
             /\ verdicts[s][1] \in {"accepted", "rejected", "stale"}
        /\ submit[s] = "returned" /\ verdicts[s] = <<>> =>
             StatusBar[s] = IF s \in outbound \cup flushing THEN "queued"
                            ELSE IF \E p \in pending : p.share = s THEN "sent"
                            ELSE "lost"

(* The places a share may be in exclude each other, so the cases of its     *)
(* status do.                                                               *)
LEMMA StatusIs == TypeOK /\ CustodyInv => StatusFollows
<1>. SUFFICES ASSUME TypeOK, CustodyInv, NEW s \in Shares
              PROVE  /\ submit[s] = "mining" => StatusBar[s] = "unfound"
                     /\ submit[s] \in {"found", "checked"} => StatusBar[s] = "found"
                     /\ submit[s] = "returned" /\ verdicts[s] # <<>> =>
                          /\ StatusBar[s] = verdicts[s][1]
                          /\ verdicts[s][1] \in {"accepted", "rejected", "stale"}
                     /\ submit[s] = "returned" /\ verdicts[s] = <<>> =>
                          StatusBar[s] = IF s \in outbound \cup flushing THEN "queued"
                                         ELSE IF \E p \in pending : p.share = s THEN "sent"
                                         ELSE "lost"
  BY DEF StatusFollows
<1>1. StatusBar[s] = ShareStatus(s)
  BY DEF StatusBar
<1>2. /\ submit[s] # "returned" =>
           /\ s \notin outbound \cup flushing /\ verdicts[s] = <<>>
           /\ ~\E p \in pending : p.share = s
      /\ s \in outbound \cup flushing =>
           verdicts[s] = <<>> /\ ~\E p \in pending : p.share = s
      /\ (\E p \in pending : p.share = s) => verdicts[s] = <<>>
  BY DEF CustodyInv, SharesInCustody, OfferedOnce, QueuedOnce, PendingOnce
<1>3. verdicts[s] # <<>> => verdicts[s][1] \in {"accepted", "rejected", "stale"}
  <2>1. verdicts[s] \in Seq(Verdicts)
    BY DEF TypeOK, CallerTypes
  <2>2. verdicts[s] # <<>> => 1 \in 1 .. Len(verdicts[s])
    BY <2>1
  <2>. QED BY <2>1, <2>2 DEF Verdicts
<1>4. submit[s] = "mining" => ShareStatus(s) = "unfound"
  BY <1>2 DEF ShareStatus
<1>5. submit[s] \in {"found", "checked"} => ShareStatus(s) = "found"
  BY <1>2 DEF ShareStatus
<1>6. submit[s] = "returned" /\ verdicts[s] # <<>> => ShareStatus(s) = verdicts[s][1]
  BY <1>2 DEF ShareStatus
<1>7. ASSUME submit[s] = "returned", verdicts[s] = <<>>
      PROVE  ShareStatus(s) = IF s \in outbound \cup flushing THEN "queued"
                              ELSE IF \E p \in pending : p.share = s THEN "sent"
                              ELSE "lost"
  BY <1>2, <1>7 DEF ShareStatus
<1>. QED BY <1>1, <1>3, <1>4, <1>5, <1>6, <1>7

(* The same after a step.                                                   *)
LEMMA StatusWillBe == TypeOK' /\ CustodyInv' => StatusFollows'
BY StatusIs, PTL

(* A step that leaves every place as it was leaves the ledger.              *)
LEMMA SamePlaces ==
    ASSUME UNCHANGED <<submit, verdicts, outbound, flushing, pending>>
    PROVE  StatusBar' = StatusBar
BY DEF StatusBar, ShareStatus

(* A step that only drops shares loses those and moves no other; it keeps   *)
(* WireInv if it drops no submission the pool may still answer.             *)
LEMMA DropsAreLosses ==
    ASSUME TypeOK, CustodyInv, TypeOK', CustodyInv', OnlyDrops
    PROVE  /\ \E S \in SUBSET Shares : Ledger!Lose(S)
           /\ WireInv /\ (pending' = pending \/ toPool' = {}) => WireInv'
<1>. USE StatusIs, StatusWillBe DEF StatusFollows
<1>1. ASSUME NEW s \in Shares, StatusBar'[s] # StatusBar[s]
      PROVE  /\ StatusBar[s] \in {"queued", "sent"} /\ StatusBar'[s] = "lost"
             /\ pending' = pending => StatusBar[s] = "queued"
  <2>1. submit'[s] = submit[s] /\ verdicts'[s] = verdicts[s] /\ submit[s] = "returned"
    BY <1>1 DEF OnlyDrops, TypeOK, CallerTypes
  <2>2. verdicts[s] = <<>>
    BY <1>1, <2>1
  <2>3. s \in outbound \cup flushing => ~\E p \in pending : p.share = s
    BY DEF CustodyInv, SharesInCustody, QueuedOnce
  <2>. QED BY <1>1, <2>1, <2>2, <2>3 DEF OnlyDrops
<1>2. \E S \in SUBSET Shares : Ledger!Lose(S)
  <2>. DEFINE S == {s \in Shares : StatusBar'[s] # StatusBar[s]}
  <2>. WITNESS S \in SUBSET Shares
  <2>1. \A s \in S : StatusBar[s] \in {"queued", "sent"}
    BY <1>1
  <2>2. StatusBar' = [s \in Shares |-> IF s \in S THEN "lost" ELSE StatusBar[s]]
    <3>1. StatusBar' = [s \in Shares |-> StatusBar'[s]]
      BY DEF StatusBar
    <3>2. \A s \in Shares : StatusBar'[s] = IF s \in S THEN "lost" ELSE StatusBar[s]
      BY <1>1
    <3>. QED BY <3>1, <3>2
  <2>. QED BY <2>1, <2>2 DEF Ledger!Lose, Ledger!Move, StatusBar, OnlyDrops
<1>3. ASSUME WireInv, pending' = pending \/ toPool' = {} PROVE WireInv'
  <2>. SUFFICES ASSUME NEW r \in toPool', r.kind = "submit"
                PROVE  StatusBar'[r.share] \in {"sent", "accepted", "rejected"}
    BY DEF WireInv
  <2>1. r \in toPool /\ pending' = pending /\ r.share \in Shares
    BY <1>3 DEF OnlyDrops, TypeOK, PoolTypes, Request
  <2>2. StatusBar[r.share] \in {"sent", "accepted", "rejected"}
    BY <1>3, <2>1 DEF WireInv
  <2>. QED BY <1>1, <2>1, <2>2
<1>. QED BY <1>2, <1>3

(* Submissions are forgotten only at the start of a session, when there is  *)
(* no connection that could still carry an answer.                          *)
LEMMA ForgetsUnconnected ==
    ASSUME TypeOK, SessionInv, Next, ~Workers, ~FlushShare, ~HandleSubmitReply
    PROVE  pending' = pending \/ toPool' = {}
<1>. USE DEF sharedVars, sessionVars, poolVars, callerVars
<1>1. CASE BeginSession
  <2>1. toPool' = toPool /\ pc = "top"
    BY <1>1 DEF BeginSession
  <2>. QED BY <2>1 DEF SessionInv, SocketInv, Connected
<1>2. Connection => pending' = pending
  BY DEF Connection, ConnectSucceeds, ConnectFails, SendSubscribe, SendAuthorize,
      LoopStops, TakeOutbound, FlushDone, SelectTimesOut, ReceiveFails, Receive,
      DrainDone, CloseConnection
<1>3. HandleMessage => pending' = pending
  BY DEF HandleMessage, HandleSubscribeReply, HandleAuthorizeReply, HandleNotify,
      HandleSetDifficulty, HandleSetExtranonce, HandleReconnect
<1>4. ExitThread \/ BackOff \/ BackOffStops \/ WaitTests \/ WaitBlocks \/ WaitTimesOut
        \/ DoubleDelay => pending' = pending
  BY DEF ExitThread, BackOff, BackOffStops, WaitTests, WaitBlocks, WaitTimesOut,
      DoubleDelay
<1>5. Control => pending' = pending
  BY DEF Control, Stopping, Start, StopRequest, StopNotify, StopClose, StopJoin,
      StopAgain, vars
<1>6. Environment => pending' = pending
  BY DEF Environment, PoolReplies, PoolPushes, LinkDrops
<1>. QED BY <1>1, <1>2, <1>3, <1>4, <1>5, <1>6 DEF Next, ClientThread

(* The handshake moves no share.                                            *)
LEMMA HandshakeMovesNothing ==
    ASSUME TypeOK, WireInv, SendSubscribe \/ SendAuthorize
    PROVE  UNCHANGED <<StatusBar, credited>> /\ WireInv'
<1>1. /\ UNCHANGED <<submit, verdicts, outbound, flushing, pending, credited>>
      /\ \A r \in toPool' : r \in toPool \/ r.kind # "submit"
  BY DEF SendSubscribe, SendAuthorize, SendSucceeds, SendFails
<1>2. StatusBar' = StatusBar
  BY <1>1, SamePlaces
<1>. QED BY <1>1, <1>2 DEF WireInv

(* A worker finds a share, has it refused, or has it queued.                *)
LEMMA WorkersMoveOne ==
    ASSUME TypeOK, CustodyInv, TypeOK', CustodyInv', WireInv, Workers
    PROVE  [Ledger!Next]_<<StatusBar, credited>> /\ WireInv'
<1>. USE StatusIs, StatusWillBe DEF StatusFollows
<1>. PICK s \in Shares : FindShare(s) \/ SubmitTests(s) \/ SubmitQueues(s)
  BY DEF Workers
<1>1. /\ UNCHANGED <<pending, flushing, toPool, credited>>
      /\ submit[s] # "returned"
      /\ \A t \in Shares \ {s} : /\ submit'[t] = submit[t] /\ verdicts'[t] = verdicts[t]
                                 /\ t \in outbound' <=> t \in outbound
  BY DEF FindShare, SubmitTests, SubmitQueues, sharedVars, sessionVars, poolVars,
         TypeOK, CallerTypes
<1>2. s \notin outbound \cup flushing /\ verdicts[s] = <<>> /\ \A p \in pending : p.share # s
  BY <1>1 DEF CustodyInv, SharesInCustody, OfferedOnce
<1>3. \A t \in Shares \ {s} : StatusBar'[t] = StatusBar[t]
  BY <1>1 DEF StatusBar, ShareStatus
<1>4. \A to : StatusBar'[s] = to =>
         StatusBar' = [t \in Shares |-> IF t \in {s} THEN to ELSE StatusBar[t]]
  <2>1. StatusBar' = [t \in Shares |-> StatusBar'[t]]
    BY DEF StatusBar
  <2>. QED BY <1>3, <2>1
<1>5. WireInv'
  <2>1. \A r \in toPool : r.kind = "submit" => r.share \in Shares /\ r.share # s
    <3>1. StatusBar[s] \in {"unfound", "found"}
      BY <1>1 DEF TypeOK, CallerTypes
    <3>. QED BY <3>1 DEF WireInv, TypeOK, PoolTypes, Request
  <2>. QED BY <1>1, <1>3, <2>1 DEF WireInv
<1>6. CASE FindShare(s)
  <2>1. StatusBar[s] = "unfound" /\ StatusBar'[s] = "found"
    BY <1>6 DEF FindShare, TypeOK, CallerTypes
  <2>. QED BY <1>1, <1>4, <1>5, <2>1 DEF Ledger!Next, Ledger!Find, Ledger!Move, StatusBar
<1>7. CASE SubmitTests(s) /\ submit'[s] = "checked"
  <2>1. StatusBar[s] = "found" /\ StatusBar'[s] = "found"
    BY <1>7 DEF SubmitTests
  <2>2. StatusBar' = StatusBar
    <3>1. StatusBar = [t \in Shares |-> StatusBar[t]]
      BY DEF StatusBar
    <3>. QED BY <1>4, <2>1, <3>1
  <2>. QED BY <1>1, <1>5, <2>2
<1>8. CASE SubmitTests(s) /\ submit'[s] # "checked"
  <2>1. submit[s] = "found" /\ submit'[s] = "returned" /\ verdicts'[s] = Append(<<>>, "stale")
    BY <1>2, <1>8 DEF SubmitTests, TypeOK, CallerTypes
  <2>2. verdicts'[s] # <<>> /\ verdicts'[s][1] = "stale"
    BY <2>1
  <2>3. StatusBar[s] = "found" /\ StatusBar'[s] = "stale"
    BY <2>1, <2>2
  <2>. QED BY <1>1, <1>4, <1>5, <2>3 DEF Ledger!Next, Ledger!Refuse, Ledger!Move, StatusBar
<1>9. CASE SubmitQueues(s)
  <2>1. /\ submit[s] = "checked" /\ submit'[s] = "returned" /\ s \in outbound'
        /\ verdicts'[s] = <<>>
    BY <1>2, <1>9 DEF SubmitQueues, TypeOK, CallerTypes
  <2>2. StatusBar[s] = "found" /\ StatusBar'[s] = "queued"
    BY <2>1
  <2>. QED BY <1>1, <1>4, <1>5, <2>2 DEF Ledger!Next, Ledger!Queue, Ledger!Move, StatusBar
<1>. QED BY <1>6, <1>7, <1>8, <1>9

(* A share on its way out is sent, or lost if it cannot be.                 *)
LEMMA FlushMovesOne ==
    ASSUME TypeOK, CustodyInv, TypeOK', CustodyInv', WireInv, FlushShare
    PROVE  Ledger!Next /\ WireInv'
<1>. USE StatusIs, StatusWillBe DEF StatusFollows
<1>1. PICK s \in flushing :
         /\ flushing' = flushing \ {s}
         /\ \/ /\ pending' = {p \in pending : p.id # nextId}
                               \cup {[id |-> nextId, share |-> s]}
               /\ toPool' \in {toPool,
                               toPool \cup {[kind |-> "submit", id |-> nextId, share |-> s]}}
            \/ pending' = {p \in pending : p.id # nextId} /\ toPool' = toPool
  BY DEF FlushShare, SendSucceeds, SendFails
<1>2. UNCHANGED <<submit, verdicts, credited, outbound>>
  BY DEF FlushShare, callerVars
<1>3. {p \in pending : p.id # nextId} = pending
  BY DEF CustodyInv, SharesInCustody, IdsHandedOut, TypeOK, SharedTypes
<1>4. /\ s \in Shares /\ verdicts[s] = <<>> /\ submit[s] = "returned"
      /\ s \notin outbound /\ \A p \in pending : p.share # s
  BY <1>1 DEF CustodyInv, SharesInCustody, QueuedOnce, OfferedOnce, TypeOK, SessionTypes
<1>5. \A t \in Shares \ {s} : StatusBar'[t] = StatusBar[t]
  <2>. SUFFICES ASSUME NEW t \in Shares \ {s} PROVE StatusBar'[t] = StatusBar[t]
    OBVIOUS
  <2>1. (\E p \in pending' : p.share = t) <=> (\E p \in pending : p.share = t)
    BY <1>1, <1>3
  <2>. QED BY <1>1, <1>2, <2>1 DEF StatusBar, ShareStatus
<1>6. \A to : StatusBar'[s] = to =>
         StatusBar' = [t \in Shares |-> IF t \in {s} THEN to ELSE StatusBar[t]]
  <2>1. StatusBar' = [t \in Shares |-> StatusBar'[t]]
    BY DEF StatusBar
  <2>. QED BY <1>5, <2>1
<1>7. StatusBar[s] = "queued" /\ StatusBar'[s] \in {"sent", "lost"}
  BY <1>1, <1>2, <1>4
<1>8. \A r \in toPool : r.kind = "submit" => r.share \in Shares /\ r.share # s
  BY <1>7 DEF WireInv, TypeOK, PoolTypes, Request
<1>9. CASE StatusBar'[s] = "sent"
  <2>1. Ledger!Send(s)
    BY <1>2, <1>6, <1>7, <1>9 DEF Ledger!Send, Ledger!Move, StatusBar
  <2>2. WireInv'
    BY <1>1, <1>5, <1>8, <1>9 DEF WireInv
  <2>. QED BY <1>4, <2>1, <2>2 DEF Ledger!Next
<1>10. CASE StatusBar'[s] = "lost"
  <2>1. Ledger!Lose({s})
    BY <1>2, <1>6, <1>7, <1>10 DEF Ledger!Lose, Ledger!Move, StatusBar
  <2>2. toPool' = toPool
    <3>1. ~\E p \in pending' : p.share = s
      BY <1>1, <1>2, <1>4, <1>10
    <3>2. [id |-> nextId, share |-> s] \notin pending'
      BY <3>1
    <3>. QED BY <1>1, <3>2
  <2>3. WireInv'
    BY <1>5, <1>8, <2>2 DEF WireInv
  <2>. QED BY <1>4, <2>1, <2>3 DEF Ledger!Next
<1>. QED BY <1>7, <1>9, <1>10

(* A verdict moves the share its id stands for, if there is one.            *)
LEMMA VerdictMovesOne ==
    ASSUME TypeOK, CustodyInv, TypeOK', CustodyInv', WireInv, HandleSubmitReply
    PROVE  [Ledger!Next]_<<StatusBar, credited>> /\ WireInv'
<1>. USE StatusIs, StatusWillBe DEF StatusFollows
<1>1. /\ message.kind = "reply"
      /\ pending' = {p \in pending : p.id # message.id}
      /\ verdicts' = [s \in Shares |->
                        IF [id |-> message.id, share |-> s] \in pending
                          THEN Append(verdicts[s],
                                      IF message.ok THEN "accepted" ELSE "rejected")
                          ELSE verdicts[s]]
      /\ UNCHANGED <<submit, credited, outbound, flushing, toPool>>
  BY DEF HandleSubmitReply, Handles, poolVars
<1>2. message \in Arrived
  <2>1. lines # <<>> /\ lines \in Seq(Message)
    BY DEF HandleSubmitReply, Handles, TypeOK, LineTypes
  <2>2. 1 \in 1 .. Len(lines) /\ message = lines[1]
    BY <2>1, HeadTailProperties DEF message
  <2>. QED BY <2>2 DEF Arrived
<1>3. \A p \in pending : p = [id |-> p.id, share |-> p.share] /\ p.share \in Shares
  BY DEF TypeOK, SharedTypes
<1>4. CASE \A p \in pending : p.id # message.id
  <2>1. pending' = pending
    BY <1>1, <1>4
  <2>2. verdicts' = verdicts
    <3>1. \A s \in Shares : [id |-> message.id, share |-> s] \notin pending
      BY <1>4
    <3>. QED BY <1>1, <3>1 DEF TypeOK, CallerTypes
  <2>3. StatusBar' = StatusBar
    BY <1>1, <2>1, <2>2, SamePlaces
  <2>. QED BY <1>1, <2>3 DEF WireInv
<1>5. ASSUME NEW q \in pending, q.id = message.id
      PROVE  [Ledger!Next]_<<StatusBar, credited>> /\ WireInv'
  <2>. DEFINE s == q.share
              verdict == IF message.ok THEN "accepted" ELSE "rejected"
  <2>1. s \in Shares /\ [id |-> message.id, share |-> s] \in pending
    BY <1>3, <1>5
  <2>2. \A p \in pending : p.id = message.id <=> p.share = s
    BY <1>5 DEF CustodyInv, SharesInCustody, PendingOnce
  <2>3. verdicts[s] = <<>> /\ submit[s] = "returned"
    BY <1>5, <2>1 DEF CustodyInv, SharesInCustody, PendingOnce, OfferedOnce
  <2>4. verdicts'[s] # <<>> /\ verdicts'[s][1] = verdict
    <3>1. verdicts'[s] = Append(<<>>, verdict)
      BY <1>1, <2>1, <2>3
    <3>. HIDE DEF verdict, s
    <3>. QED BY <3>1
  <2>5. StatusBar[s] = "sent" /\ StatusBar'[s] = verdict
    <3>1. s \notin outbound \cup flushing
      BY <1>5 DEF CustodyInv, SharesInCustody, QueuedOnce
    <3>. QED BY <1>1, <1>5, <2>1, <2>3, <2>4, <3>1
  <2>6. \A t \in Shares \ {s} : StatusBar'[t] = StatusBar[t]
    <3>. SUFFICES ASSUME NEW t \in Shares \ {s} PROVE StatusBar'[t] = StatusBar[t]
      OBVIOUS
    <3>1. verdicts'[t] = verdicts[t]
      BY <1>1, <2>2
    <3>2. (\E p \in pending' : p.share = t) <=> (\E p \in pending : p.share = t)
      BY <1>1, <2>2
    <3>. QED BY <1>1, <3>1, <3>2 DEF StatusBar, ShareStatus
  <2>7. StatusBar' = [t \in Shares |-> IF t \in {s} THEN verdict ELSE StatusBar[t]]
    <3>1. StatusBar' = [t \in Shares |-> StatusBar'[t]]
      BY DEF StatusBar
    <3>. QED BY <2>5, <2>6, <3>1
  <2>8. message.ok => s \in credited
    BY <1>1, <1>2, <1>5 DEF CustodyInv, SharesInCustody, IdsAgree
  <2>9. Ledger!Accept(s) \/ Ledger!Reject(s)
    <3>1. CASE message.ok
      BY <1>1, <2>5, <2>7, <2>8, <3>1 DEF Ledger!Accept, Ledger!Move, StatusBar
    <3>2. CASE ~message.ok
      BY <1>1, <2>5, <2>7, <3>2 DEF Ledger!Reject, Ledger!Move, StatusBar
    <3>. QED BY <3>1, <3>2
  <2>10. WireInv'
    <3>1. StatusBar'[s] \in {"sent", "accepted", "rejected"}
      BY <2>5
    <3>2. \A r \in toPool : r.kind = "submit" => r.share \in Shares
      BY DEF TypeOK, PoolTypes, Request
    <3>. QED BY <1>1, <2>6, <3>1, <3>2 DEF WireInv
  <2>. QED BY <2>1, <2>9, <2>10 DEF Ledger!Next
<1>. QED BY <1>4, <1>5

(* The pool credits a share it was sent, also when it answers again.        *)
LEMMA PoolCredits ==
    ASSUME TypeOK, WireInv, PoolReplies \/ PoolPushes
    PROVE  [Ledger!Next]_<<StatusBar, credited>> /\ WireInv'
<1>1. UNCHANGED <<submit, verdicts, outbound, flushing, pending>> /\ toPool' \subseteq toPool
  BY DEF PoolReplies, PoolPushes, sharedVars, sessionVars, callerVars
<1>2. StatusBar' = StatusBar
  BY <1>1, SamePlaces
<1>3. credited' = credited \/ \E r \in toPool : /\ r.kind = "submit"
                                               /\ credited' = credited \cup {r.share}
  BY DEF PoolReplies, PoolPushes
<1>4. ASSUME NEW r \in toPool, r.kind = "submit", credited' = credited \cup {r.share}
      PROVE  r.share \in Shares /\ Ledger!Credit(r.share)
  <2>1. r.share \in Shares
    BY <1>4 DEF TypeOK, PoolTypes, Request
  <2>2. StatusBar[r.share] \in {"sent", "accepted", "rejected"}
    BY <1>4 DEF WireInv
  <2>. QED BY <1>2, <1>4, <2>1, <2>2 DEF Ledger!Credit, StatusBar
<1>. QED BY <1>1, <1>2, <1>3, <1>4 DEF Ledger!Next, WireInv

(* Every step is a step of the ledger, or none.                             *)
LEMMA LedgerStep ==
    /\ TypeOK /\ CustodyInv /\ TypeOK' /\ CustodyInv' /\ SessionInv /\ WireInv
    /\ [Next]_vars
    => [Ledger!Next]_<<StatusBar, credited>> /\ WireInv'
<1>. SUFFICES ASSUME TypeOK, CustodyInv, TypeOK', CustodyInv', SessionInv, WireInv,
                     [Next]_vars
              PROVE  [Ledger!Next]_<<StatusBar, credited>> /\ WireInv'
  OBVIOUS
<1>1. CASE UNCHANGED vars
  <2>1. UNCHANGED <<submit, verdicts, outbound, flushing, pending, toPool, credited>>
    BY <1>1 DEF vars, sharedVars, sessionVars, poolVars, callerVars
  <2>2. StatusBar' = StatusBar
    BY <2>1, SamePlaces
  <2>. QED BY <2>1, <2>2 DEF WireInv
<1>2. CASE Next /\ ~(PoolReplies \/ PoolPushes \/ Workers \/ FlushShare
                      \/ SendSubscribe \/ SendAuthorize \/ HandleSubmitReply)
  <2>1. OnlyDrops /\ (pending' = pending \/ toPool' = {})
    BY <1>2, QuietSteps, ForgetsUnconnected
  <2>. QED BY <2>1, DropsAreLosses DEF Ledger!Next
<1>3. CASE SendSubscribe \/ SendAuthorize
  BY <1>3, HandshakeMovesNothing
<1>4. CASE Workers
  BY <1>4, WorkersMoveOne
<1>5. CASE FlushShare
  BY <1>5, FlushMovesOne
<1>6. CASE HandleSubmitReply
  BY <1>6, VerdictMovesOne
<1>7. CASE PoolReplies \/ PoolPushes
  BY <1>7, PoolCredits
<1>. QED BY <1>1, <1>2, <1>3, <1>4, <1>5, <1>6, <1>7

(* No share is on its way at first.                                         *)
LEMMA LedgerInit == Init => Ledger!Init /\ WireInv
<1>. SUFFICES ASSUME Init PROVE Ledger!Init /\ WireInv
  OBVIOUS
<1>1. StatusFollows
  BY TypeInit, CustodyInit, StatusIs
<1>2. \A s \in Shares : StatusBar[s] = "unfound"
  BY <1>1 DEF Init, StatusFollows
<1>. QED BY <1>2 DEF Init, Ledger!Init, StatusBar, WireInv

(* The client keeps the ledger: for any number of shares and sessions, and  *)
(* any losses and answers, a share is found, refused or queued, sent,       *)
(* judged or lost in this order, ends in one way, and is accepted only if   *)
(* the pool credited it.                                                    *)
THEOREM LedgerKept == Spec => KeepsLedger
<1>1. Spec => []CustodyInv
  BY TypeCorrect, CustodyInit, CustodyStep, PTL DEF Spec
<1>2. TypeOK /\ CustodyInv /\ TypeOK' /\ CustodyInv' /\ SessionInv /\ WireInv
        /\ [Next]_vars => [Ledger!Next]_(Ledger!ledger) /\ WireInv'
  BY LedgerStep DEF Ledger!ledger, StatusBar
<1>. QED BY TypeCorrect, SessionCorrect, LedgerInit, <1>1, <1>2, PTL
         DEF Spec, KeepsLedger, Ledger!Spec
=============================================================================
