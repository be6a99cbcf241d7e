----------------------- MODULE RequestPipelineProofs ------------------------
(***************************************************************************)
(* The ban check on its own, then the chain of middleware around it.       *)
(* BanInv is inductive for every number of users and requests, every TTL   *)
(* and every SlowestRead: one step per action, one substep per conjunct    *)
(* the action can disturb. The chain uses the ban check as BanCheck says   *)
(* it is used, so its invariant comes with it; from that and from where    *)
(* each request is in its chain follow the pipeline's own safety           *)
(* properties, for all numbers of users, requests and consents and all     *)
(* lengths of time.                                                        *)
(***************************************************************************)
EXTENDS RequestPipeline, TLAPS

\* What the proofs need of the constants: the counters' ranges are ranges.
LEMMA Bounds ==
  /\ Horizon \in Nat
  /\ Horizon = TTL + 2 * SlowestRead + 1
  /\ TTL \in Nat
  /\ SlowestRead \in Nat
  /\ IdleCall \in Calls
<1>1. TTL \in Nat /\ SlowestRead \in Nat
  BY BanAssumption
<1>2. IdleCall \in Calls
  BY <1>1 DEF IdleCall, Calls
<1> QED BY <1>1, <1>2 DEF Horizon

\* The initial states satisfy the invariant: nothing is cached, no request is
\* inside, nothing has been answered.
LEMMA InitBanInv == BanInit => BanInv
<1> SUFFICES ASSUME BanInit PROVE BanInv
  OBVIOUS
<1> USE Bounds DEF BanInit
<1>1. BanTypeOK
  BY BanAssumption DEF BanTypeOK, NoEntry, IdleCall, Entries, Calls, Verdicts
<1>2. OldReads
  BY DEF OldReads, IdleCall
<1>3. OldEntries
  BY DEF OldEntries, IsHit, NoEntry
<1>4. StalenessBounded
  BY DEF StalenessBounded
<1> QED BY <1>1, <1>2, <1>3, <1>4 DEF BanInv

\* A step that gives an answer for evidence b, where b is the table's value
\* or contradicts it since recently, keeps the bound.
LEMMA AnswerIsFresh ==
  ASSUME BanInv, NEW r \in Requests, NEW b \in BOOLEAN,
         call[r].user \in Users,
         AnswersBy(r, b), UNCHANGED <<banned, calm>>,
         b # banned[call[r].user] => calm[call[r].user] <= TTL + SlowestRead
  PROVE  StalenessBounded'
<1>1. last' = [last EXCEPT ![call[r].user] = IF b THEN "refused" ELSE "let"]
  BY DEF AnswersBy, Answers
<1>2. last \in [Users -> Verdicts] /\ calm \in [Users -> 0..Horizon]
  BY DEF BanInv, BanTypeOK
<1>3. SUFFICES ASSUME NEW u \in Users, calm[u] > TTL + SlowestRead
      PROVE  last'[u] \in {"none", "open", IF banned[u] THEN "refused" ELSE "let"}
  BY DEF StalenessBounded
<1>4. CASE u = call[r].user
  <2>1. last'[u] = IF b THEN "refused" ELSE "let"
    BY <1>1, <1>2, <1>4
  <2>2. b = banned[u]
    BY <1>2, <1>3, <1>4, Bounds
  <2> QED BY <2>1, <2>2
<1>5. CASE u # call[r].user
  <2>1. last'[u] = last[u]
    BY <1>1, <1>2, <1>5
  <2> QED BY <2>1, <1>3 DEF BanInv, StalenessBounded
<1> QED BY <1>4, <1>5

\* A request that becomes idle, or is anything but about to store, owes
\* nothing to OldReads.
LEMMA OtherReadsStay ==
  ASSUME BanInv, NEW r \in Requests, NEW c, call' = [call EXCEPT ![r] = c],
         c.step # "store", UNCHANGED <<banned, calm>>
  PROVE  OldReads'
<1>1. call \in [Requests -> Calls]
  BY DEF BanInv, BanTypeOK
<1>2. ASSUME NEW q \in Requests, call'[q].step = "store"
      PROVE  q # r /\ call'[q] = call[q]
  BY <1>1, <1>2
<1> QED BY <1>2 DEF BanInv, OldReads

\* In particular a request that has been answered.
LEMMA AnswerReadsStay ==
  ASSUME BanInv, NEW r \in Requests, NEW v, Answers(r, v),
         UNCHANGED <<banned, calm>>
  PROVE  OldReads'
<1>1. call' = [call EXCEPT ![r] = IdleCall]
  BY DEF Answers, CallBecomes
<1>2. IdleCall.step # "store"
  BY DEF IdleCall
<1> QED BY <1>1, <1>2, OtherReadsStay

\* A new request owes nothing and answers nothing.
LEMMA EnterKeeps ==
  ASSUME BanInv, NEW r \in Requests, NEW u \in Users, Enter(r, u)
  PROVE  BanInv'
<1> DEFINE c == [IdleCall EXCEPT !.step = "lookup", !.user = u]
<1>1. call' = [call EXCEPT ![r] = c] /\ UNCHANGED <<banned, calm, cache, last>>
  BY DEF Enter, CallBecomes
<1>2. c \in Calls /\ c.user = u /\ c.step = "lookup"
  BY Bounds DEF Calls
<1>3. BanTypeOK'
  BY <1>1, <1>2 DEF BanInv, BanTypeOK
<1>4. OldReads'
  <2> HIDE DEF c
  <2> QED BY <1>1, <1>2, OtherReadsStay
<1>5. OldEntries' /\ StalenessBounded'
  BY <1>1 DEF BanInv, OldEntries, IsHit, StalenessBounded
<1> QED BY <1>3, <1>4, <1>5 DEF BanInv

\* Types after an answer.
LEMMA AnswerTypes ==
  ASSUME BanInv, NEW r \in Requests, NEW v \in Verdicts, Answers(r, v)
  PROVE  /\ call' \in [Requests -> Calls]
         /\ last' \in [Users -> Verdicts]
         /\ \A q \in Requests : call'[q].step # "idle" => call'[q].user \in Users
<1>1. call' = [call EXCEPT ![r] = IdleCall] /\ IdleCall.step = "idle"
  BY DEF Answers, CallBecomes, IdleCall
<1> QED BY <1>1, Bounds DEF BanInv, BanTypeOK, Answers

\* A hit answers by an entry, which OldEntries dates; a miss goes on to read.
LEMMA LookupKeeps ==
  ASSUME BanInv, NEW r \in Requests, Lookup(r)
  PROVE  BanInv'
<1> DEFINE u == call[r].user
<1>1. u \in Users /\ call[r] \in Calls /\ UNCHANGED <<banned, calm, cache>>
  BY DEF BanInv, BanTypeOK, Lookup
<1>2. OldEntries'
  BY <1>1 DEF BanInv, OldEntries, IsHit
<1>3. CASE IsHit(u) /\ AnswersBy(r, cache[u].banned)
  <2>1. cache[u].banned \in BOOLEAN /\ cache[u].left \in 0..(TTL + 1)
        /\ calm[u] \in 0..Horizon
    BY <1>1 DEF BanInv, BanTypeOK, Entries
  <2>2. cache[u].banned # banned[u] => calm[u] <= TTL + SlowestRead
    BY <1>1, <1>3, <2>1, Bounds DEF BanInv, OldEntries, IsHit
  <2>3. StalenessBounded'
    BY <1>1, <1>3, <2>1, <2>2, AnswerIsFresh
  <2>4. BanTypeOK'
    BY <1>1, <1>3, AnswerTypes DEF BanInv, BanTypeOK, AnswersBy, Verdicts
  <2>5. OldReads'
    BY <1>1, <1>3, AnswerReadsStay DEF AnswersBy
  <2> QED BY <1>2, <2>3, <2>4, <2>5 DEF BanInv
<1>4. CASE Miss(r)
  <2> DEFINE c == [call[r] EXCEPT !.step = "read"]
  <2>1. call' = [call EXCEPT ![r] = c] /\ UNCHANGED last
    BY <1>4 DEF Miss, CallBecomes
  <2>2. c \in Calls /\ c.step = "read" /\ c.user = u
    BY <1>1 DEF Calls
  <2>3. BanTypeOK'
    BY <1>1, <2>1, <2>2 DEF BanInv, BanTypeOK
  <2>4. OldReads'
    <3> HIDE DEF c
    <3> QED BY <1>1, <2>1, <2>2, OtherReadsStay
  <2>5. StalenessBounded'
    BY <1>1, <2>1 DEF BanInv, StalenessBounded
  <2> QED BY <1>2, <2>3, <2>4, <2>5 DEF BanInv
<1> QED BY <1>3, <1>4 DEF Lookup

\* What is read now is what the table holds; a failed read answers "open".
LEMMA ReadRowKeeps ==
  ASSUME BanInv, NEW r \in Requests, ReadRow(r)
  PROVE  BanInv'
<1> DEFINE u == call[r].user
<1>1. u \in Users /\ call[r] \in Calls /\ UNCHANGED <<banned, calm, cache>>
  BY DEF BanInv, BanTypeOK, ReadRow
<1>2. OldEntries'
  BY <1>1 DEF BanInv, OldEntries, IsHit
<1>3. ASSUME CallBecomes(r, [call[r] EXCEPT !.step = "store", !.banned = banned[u]]),
             UNCHANGED last
      PROVE  BanInv'
  <2> DEFINE c == [call[r] EXCEPT !.step = "store", !.banned = banned[u]]
  <2>1. call' = [call EXCEPT ![r] = c]
    BY <1>3 DEF CallBecomes
  <2>2. c \in Calls /\ c.user = u /\ c.banned = banned[u]
    BY <1>1 DEF Calls, BanInv, BanTypeOK
  <2> HIDE DEF c
  <2>3. BanTypeOK'
    BY <1>1, <1>3, <2>1, <2>2 DEF BanInv, BanTypeOK
  <2>4. OldReads'
    <3>1. SUFFICES ASSUME NEW q \in Requests, call'[q].step = "store",
                          call'[q].banned # banned[call'[q].user]
          PROVE  calm[call'[q].user] <= call'[q].age
      BY <1>1 DEF OldReads
    <3>2. q # r /\ call'[q] = call[q]
      BY <2>1, <2>2, <3>1 DEF BanInv, BanTypeOK
    <3> QED BY <3>1, <3>2 DEF BanInv, OldReads
  <2>5. StalenessBounded'
    BY <1>1, <1>3 DEF BanInv, StalenessBounded
  <2> QED BY <1>2, <2>3, <2>4, <2>5 DEF BanInv
<1>4. ASSUME Answers(r, "open") PROVE BanInv'
  <2>1. BanTypeOK'
    BY <1>1, <1>4, AnswerTypes DEF BanInv, BanTypeOK, Verdicts
  <2>2. OldReads'
    BY <1>1, <1>4, AnswerReadsStay
  <2>3. StalenessBounded'
    <3>1. last' = [last EXCEPT ![u] = "open"] /\ last \in [Users -> Verdicts]
      BY <1>4 DEF Answers, BanInv, BanTypeOK
    <3> HIDE DEF u
    <3> QED BY <1>1, <3>1 DEF BanInv, StalenessBounded
  <2> QED BY <1>2, <2>1, <2>2, <2>3 DEF BanInv
<1> QED BY <1>3, <1>4 DEF ReadRow

\* The new entry has its whole lifetime left, and its read is no older than
\* SlowestRead.
LEMMA StoreKeeps ==
  ASSUME BanInv, NEW r \in Requests, Store(r)
  PROVE  BanInv'
<1> DEFINE u == call[r].user
           b == call[r].banned
<1>1. /\ u \in Users /\ b \in BOOLEAN /\ call[r].age \in 0..SlowestRead
      /\ cache' = [cache EXCEPT ![u] = [banned |-> b, left |-> TTL + 1]]
      /\ AnswersBy(r, b) /\ UNCHANGED <<banned, calm>>
  BY DEF BanInv, BanTypeOK, Calls, Store
<1>2. calm[u] \in 0..Horizon /\ (b # banned[u] => calm[u] <= call[r].age)
  BY <1>1 DEF BanInv, BanTypeOK, OldReads, Store
<1>3. StalenessBounded'
  <2>1. b # banned[u] => calm[u] <= TTL + SlowestRead
    BY <1>1, <1>2, Bounds
  <2> QED BY <1>1, <2>1, AnswerIsFresh
<1>4. BanTypeOK'
  <2>1. cache' \in [Users -> Entries]
    BY <1>1, Bounds DEF BanInv, BanTypeOK, Entries
  <2> QED BY <1>1, <2>1, AnswerTypes DEF BanInv, BanTypeOK, AnswersBy, Verdicts
<1>5. OldReads'
  BY <1>1, AnswerReadsStay DEF AnswersBy
<1>6. OldEntries'
  <2>1. SUFFICES ASSUME NEW v \in Users, cache'[v].left > 0,
                        cache'[v].banned # banned[v]
        PROVE  calm[v] + cache'[v].left <= TTL + 1 + SlowestRead
    BY <1>1 DEF OldEntries, IsHit
  <2>2. CASE v = u
    <3>1. cache'[v].left = TTL + 1 /\ cache'[v].banned = b
      BY <1>1, <2>2 DEF BanInv, BanTypeOK
    <3> HIDE DEF u, b
    <3> QED BY <1>1, <1>2, <2>1, <2>2, <3>1, Bounds
  <2>3. CASE v # u
    <3>1. cache'[v] = cache[v]
      BY <1>1, <2>3 DEF BanInv, BanTypeOK
    <3> QED BY <2>1, <3>1 DEF BanInv, OldEntries, IsHit
  <2> QED BY <2>2, <2>3
<1> QED BY <1>3, <1>4, <1>5, <1>6 DEF BanInv

\* A change of the row starts its clock anew, so every bound holds for it.
LEMMA ToggleKeeps ==
  ASSUME BanInv, NEW u \in Users, Toggle(u)
  PROVE  BanInv'
<1>1. /\ banned' = [banned EXCEPT ![u] = ~@]
      /\ calm' = [calm EXCEPT ![u] = 0]
      /\ UNCHANGED <<cache, call, last>>
  BY DEF Toggle
<1>2. BanTypeOK /\ OldReads /\ OldEntries /\ StalenessBounded
  BY DEF BanInv
<1>3. BanTypeOK'
  BY <1>1, <1>2, Bounds DEF BanTypeOK
<1>4. calm'[u] = 0 /\ \A v \in Users : v # u => calm'[v] = calm[v] /\ banned'[v] = banned[v]
  BY <1>1, <1>2 DEF BanTypeOK
<1>5. OldReads'
  <2>1. SUFFICES ASSUME NEW q \in Requests, call[q].step = "store",
                        call[q].banned # banned'[call[q].user]
        PROVE  calm'[call[q].user] <= call[q].age
    BY <1>1 DEF OldReads
  <2>2. call[q].user \in Users /\ call[q].age \in 0..SlowestRead
    BY <1>2, <2>1 DEF BanTypeOK, Calls
  <2> QED BY <1>2, <1>4, <2>1, <2>2, Bounds DEF OldReads
<1>6. OldEntries'
  <2>1. SUFFICES ASSUME NEW v \in Users, cache[v].left > 0,
                        cache[v].banned # banned'[v]
        PROVE  calm'[v] + cache[v].left <= TTL + 1 + SlowestRead
    BY <1>1 DEF OldEntries, IsHit
  <2>2. cache[v].left \in 0..(TTL + 1)
    BY <1>2 DEF BanTypeOK, Entries
  <2> QED BY <1>2, <1>4, <2>1, <2>2, Bounds DEF OldEntries, IsHit
<1>7. StalenessBounded'
  <2>1. SUFFICES ASSUME NEW v \in Users, calm'[v] > TTL + SlowestRead
        PROVE  last[v] \in {"none", "open", IF banned'[v] THEN "refused" ELSE "let"}
    BY <1>1 DEF StalenessBounded
  <2>2. v # u
    BY <1>4, <2>1, Bounds
  <2> QED BY <1>2, <1>4, <2>1, <2>2 DEF StalenessBounded
<1> QED BY <1>3, <1>5, <1>6, <1>7 DEF BanInv

\* A restart empties the cache and forgets the requests.
LEMMA RestartKeeps == ASSUME BanInv, Restart PROVE BanInv'
<1>1. BanTypeOK'
  BY Bounds DEF BanInv, BanTypeOK, Restart, NoEntry, IdleCall, Entries, Calls
<1>2. OldReads'
  BY DEF OldReads, Restart, IdleCall
<1>3. OldEntries'
  BY Bounds DEF OldEntries, Restart, IsHit, NoEntry
<1>4. StalenessBounded'
  BY DEF BanInv, StalenessBounded, Restart
<1> QED BY <1>1, <1>2, <1>3, <1>4 DEF BanInv

\* Time: a read ages as the row's calm grows, an entry loses what calm gains.
LEMMA TickKeeps == ASSUME BanInv, Tick PROVE BanInv'
<1>1. BanTypeOK /\ OldReads /\ OldEntries
  BY DEF BanInv
<1>2. UNCHANGED banned /\ last' = [u \in Users |-> "none"]
  BY DEF Tick
<1>3. \A u \in Users : /\ calm[u] \in 0..Horizon /\ calm'[u] \in 0..Horizon
                       /\ calm'[u] <= calm[u] + 1
  BY <1>1, Bounds DEF BanTypeOK, Tick
<1>4. \A u \in Users :
        /\ cache'[u].banned = cache[u].banned
        /\ cache[u].left \in 0..(TTL + 1)
        /\ cache'[u].left = IF cache[u].left = 0 THEN 0 ELSE cache[u].left - 1
        /\ cache'[u] \in Entries
  BY <1>1, Bounds DEF BanTypeOK, Tick, Entries
<1>5. \A r \in Requests :
        /\ call'[r] \in Calls
        /\ call'[r].step = call[r].step /\ call'[r].user = call[r].user
        /\ call'[r].banned = call[r].banned
        /\ call[r].age \in 0..SlowestRead
        /\ call[r].step = "store" => call'[r].age = call[r].age + 1
  BY <1>1, Bounds DEF BanTypeOK, Tick, InTime, Calls
<1>6. BanTypeOK'
  <2>1. /\ calm' \in [Users -> 0..Horizon]
        /\ cache' \in [Users -> Entries]
        /\ call' \in [Requests -> Calls]
    BY <1>3, <1>4, <1>5 DEF Tick
  <2> QED BY <1>1, <1>2, <1>5, <2>1 DEF BanTypeOK, Verdicts
<1>7. OldReads'
  <2>1. SUFFICES ASSUME NEW q \in Requests, call'[q].step = "store",
                        call'[q].banned # banned[call'[q].user]
        PROVE  calm'[call'[q].user] <= call'[q].age
    BY <1>2 DEF OldReads
  <2>2. call[q].user \in Users /\ calm[call[q].user] <= call[q].age
    BY <1>1, <1>5, <2>1 DEF BanTypeOK, OldReads
  <2> QED BY <1>3, <1>5, <2>1, <2>2, Bounds
<1>8. OldEntries'
  <2>1. SUFFICES ASSUME NEW u \in Users, cache'[u].left > 0,
                        cache'[u].banned # banned[u]
        PROVE  calm'[u] + cache'[u].left <= TTL + 1 + SlowestRead
    BY <1>2 DEF OldEntries, IsHit
  <2>2. cache[u].left > 0 /\ cache'[u].left = cache[u].left - 1
    BY <1>4, <2>1, Bounds
  <2>3. calm[u] + cache[u].left <= TTL + 1 + SlowestRead
    BY <1>1, <1>4, <2>1, <2>2 DEF OldEntries, IsHit
  <2> QED BY <1>3, <1>4, <2>2, <2>3, Bounds
<1>9. StalenessBounded'
  BY <1>2 DEF StalenessBounded
<1> QED BY <1>6, <1>7, <1>8, <1>9 DEF BanInv

\* Every step keeps the invariant.
LEMMA NextKeepsBanInv == BanInv /\ [BanNext]_banVars => BanInv'
<1> SUFFICES ASSUME BanInv, [BanNext]_banVars PROVE BanInv'
  OBVIOUS
<1>1. CASE UNCHANGED banVars
  BY <1>1 DEF banVars, BanInv, BanTypeOK, OldReads, OldEntries, IsHit,
              StalenessBounded
<1>2. ASSUME NEW r \in Requests, NEW u \in Users, Enter(r, u) PROVE BanInv'
  BY <1>2, EnterKeeps
<1>3. ASSUME NEW r \in Requests, Lookup(r) \/ ReadRow(r) \/ Store(r) PROVE BanInv'
  BY <1>3, LookupKeeps, ReadRowKeeps, StoreKeeps
<1>4. ASSUME NEW u \in Users, Toggle(u) PROVE BanInv'
  BY <1>4, ToggleKeeps
<1>5. CASE Restart \/ Tick
  BY <1>5, RestartKeeps, TickKeeps
<1> QED BY <1>1, <1>2, <1>3, <1>4, <1>5 DEF BanNext

\* The invariant behind the bound holds in every reachable state.
THEOREM BanInvariant == BanSpec => []BanInv
<1> QED BY InitBanInv, NextKeepsBanInv, PTL DEF BanSpec

\* A ban, or its end, that has stood for longer than TTL and the slowest read
\* decides every answer the middleware gives on evidence, whatever the
\* interleaving of reads, stores, updates and restarts.
THEOREM BanTakesHold == BanSpec => []StalenessBounded
<1>1. BanInv => StalenessBounded
  BY DEF BanInv
<1> QED BY <1>1, BanInvariant, PTL

\* Every variable has its type in every reachable state.
THEOREM BanTypeCorrect == BanSpec => []BanTypeOK
<1>1. BanInv => BanTypeOK
  BY DEF BanInv
<1> QED BY <1>1, BanInvariant, PTL

(***************************************************************************)
(* The pipeline.                                                           *)
(***************************************************************************)

\* Every step of the pipeline is one of the ban check, or none of its concern.
LEMMA StepsOfBanCheck ==
  PipelineInv /\ [PipelineNext]_pipelineVars => [BanNext]_banVars
<1> SUFFICES ASSUME PipelineInv, [PipelineNext]_pipelineVars PROVE [BanNext]_banVars
  OBVIOUS
<1>1. CASE UNCHANGED pipelineVars
  BY <1>1 DEF pipelineVars
<1>2. ASSUME NEW u \in Users, SignsIn(u) \/ Expires(u) \/ PlayerActs(u)
      PROVE  UNCHANGED banVars
  BY <1>2 DEF SignsIn, Expires, PlayerActs, PlayerSends, Arrives
<1>3. ASSUME NEW u \in Users, OperatorToggles(u) PROVE BanNext
  BY <1>3 DEF OperatorToggles, BanNext
<1>4. ASSUME NEW r \in Requests, BoothSends(r) PROVE UNCHANGED banVars
  BY <1>4 DEF BoothSends, Arrives
<1>5. ASSUME NEW r \in Requests, NEW u \in Users, NEW c \in Consents,
             ConsentSent(r, u, c)
      PROVE  UNCHANGED banVars
  BY <1>5 DEF ConsentSent, Arrives
<1>6. ASSUME NEW r \in Requests, ServerStep(r), ~AuthOfPlayer(r), ~BanStep(r)
      PROVE  UNCHANGED banVars
  BY <1>6 DEF ServerStep, AuthOfBooth, VerifyStep, Handles, OptionalUser, KeepsConsent
<1>7. ASSUME NEW r \in Requests, BanStep(r) PROVE BanNext
  BY <1>7 DEF BanStep, BanNext
<1>8. CASE Restarts \/ TimePasses
  BY <1>8 DEF Restarts, Restarted, TimePasses, BanNext
<1>9. ASSUME NEW r \in Requests, AuthOfPlayer(r) PROVE [BanNext]_banVars
  <2>1. req[r].user \in Users
    BY <1>9 DEF PipelineInv, InBanCheck, AuthOfPlayer, AtAuth
  <2> QED BY <1>9, <2>1 DEF AuthOfPlayer, BanNext
<1> QED BY <1>1, <1>2, <1>3, <1>4, <1>5, <1>6, <1>7, <1>8, <1>9 DEF PipelineNext

\* The initial states satisfy the invariant: no request is under way.
LEMMA InitPipelineInv == PipelineInit => PipelineInv
<1> SUFFICES ASSUME PipelineInit PROVE PipelineInv
  OBVIOUS
<1>1. BanInv
  BY InitBanInv DEF PipelineInit
<1>2. call = [r \in Requests |-> IdleCall]
  BY DEF PipelineInit, BanInit
<1>3. NoReq \in Reqs
  BY Bounds DEF NoReq, Reqs, Steps, Chains
<1>4. req = [r \in Requests |-> NoReq]
  BY DEF PipelineInit
<1>5. PipelineTypeOK
  BY <1>3, <1>4 DEF PipelineInit, PipelineTypeOK, Sessions
<1>6. MarkedAtGate /\ CarriesConsent /\ InBanCheck /\ BanReachesTheHandler
  BY <1>2, <1>4 DEF MarkedAtGate, CarriesConsent, InBanCheck, NoReq, IdleCall,
                    BanReachesTheHandler, IsChecked
<1> QED BY <1>1, <1>5, <1>6 DEF PipelineInv

\* A request in slot r that is as it should be, by itself and by the state.
Sound(q, c) ==
  /\ q \in Reqs
  /\ q.keyed => /\ q.chain = "signed"
                /\ q.step \in {"auth", "handle"}
                /\ q.exhibition = gate
                /\ q.step = "handle" => gate
  /\ q.chain = "open" => /\ q.step \in {"auth", "handle"}
                         /\ q.consent \in Consents
                         /\ q.client \in Users
                         /\ q.user = q.client \/ (q.user = NoUser /\ q.lapse)
  /\ (q.step = "ban") <=> (c.step # "idle")
  /\ q.step = "ban" => c.user = q.user
  /\ q.step # "idle" /\ q.chain # "open" /\ ~q.keyed => q.user \in Users
  /\ IsChecked(q) /\ ~q.unread /\ banned[q.user]
       => calm[q.user] <= TTL + SlowestRead + q.age

LEMMA SoundRequests ==
  ASSUME PipelineInv
  PROVE  \A r \in Requests : Sound(req[r], call[r])
BY DEF PipelineInv, PipelineTypeOK, MarkedAtGate, CarriesConsent, InBanCheck,
       BanReachesTheHandler, Sound

\* A step that leaves the time of bans, the gate and all slots but one alone.
LEMMA OneSlot ==
  ASSUME PipelineInv, BanInv', NEW r \in Requests, NEW q, NEW c,
         ReqBecomes(r, q), call' = [call EXCEPT ![r] = c],
         UNCHANGED <<banned, calm, gate>>, Sound(q, c),
         session' \in [Users -> Sessions], faults' \in Nat
  PROVE  PipelineInv'
<1>1. req \in [Requests -> Reqs] /\ call \in [Requests -> Calls] /\ q \in Reqs
  BY DEF PipelineInv, PipelineTypeOK, BanInv, BanTypeOK, Sound
<1>2. req' = [req EXCEPT ![r] = q]
  BY DEF ReqBecomes
<1>3. req' \in [Requests -> Reqs] /\ gate' \in BOOLEAN
  BY <1>1, <1>2 DEF PipelineInv, PipelineTypeOK
<1>4. ASSUME NEW s \in Requests PROVE Sound(req'[s], call'[s])
  BY <1>1, <1>2, SoundRequests
<1>5. MarkedAtGate' /\ CarriesConsent' /\ InBanCheck'
  BY <1>4 DEF MarkedAtGate, CarriesConsent, InBanCheck, Sound
<1>6. BanReachesTheHandler'
  BY <1>4 DEF BanReachesTheHandler, Sound
<1> QED BY <1>3, <1>5, <1>6 DEF PipelineInv, PipelineTypeOK

-----------------------------------------------------------------------------
\* Requests come in and go.
LEMMA ArrivesKeeps ==
  ASSUME PipelineInv, BanInv', NEW r \in Requests, NEW q, Arrives(r, q),
         Sound([q EXCEPT !.step = "auth"], call[r])
  PROVE  PipelineInv'
<1>1. call' = [call EXCEPT ![r] = call[r]]
  BY DEF Arrives, banVars, PipelineInv, BanInv, BanTypeOK
<1>2. session' \in [Users -> Sessions] /\ faults' \in Nat
  BY DEF Arrives, PipelineInv, PipelineTypeOK
<1> QED BY <1>1, <1>2, OneSlot DEF Arrives, banVars

LEMMA AnswerIsSound ==
  ASSUME PipelineInv, NEW c, c.step = "idle"
  PROVE  Sound(NoReq, c)
<1>1. NoReq \in Reqs
  BY Bounds DEF NoReq, Reqs, Steps, Chains
<1> QED BY <1>1 DEF Sound, NoReq, IsChecked

\* What is not in the ban check has no call there, before and after.
LEMMA OutsideStays ==
  ASSUME PipelineInv, UNCHANGED banVars, NEW r \in Requests
  PROVE  /\ call' = [call EXCEPT ![r] = call[r]]
         /\ UNCHANGED <<banned, calm>>
         /\ req[r].step # "ban" => call[r].step = "idle"
BY DEF banVars, PipelineInv, BanInv, BanTypeOK, InBanCheck

\* A request is answered outside of the ban check.
LEMMA AnswerKeeps ==
  ASSUME PipelineInv, BanInv', NEW r \in Requests, req[r].step # "ban", Answer(r),
         UNCHANGED <<banVars, gate>>, session' \in [Users -> Sessions], faults' \in Nat
  PROVE  PipelineInv'
<1>1. Sound(NoReq, call[r])
  BY OutsideStays, AnswerIsSound
<1> QED BY <1>1, OutsideStays, OneSlot DEF Answer

\* A request goes on to a step that is not the ban check.
LEMMA GoesOnKeeps ==
  ASSUME PipelineInv, BanInv', NEW r \in Requests, NEW step \in {"verify", "handle"},
         req[r].step \in {"auth", "verify"}, GoesOn(r, step),
         req[r].keyed => gate /\ step = "handle",
         req[r].chain = "open" => step = "handle",
         req[r].step = "auth" => req[r].keyed \/ req[r].chain = "open",
         UNCHANGED <<banVars, gate>>, session' \in [Users -> Sessions], faults' \in Nat
  PROVE  PipelineInv'
<1> DEFINE q == [req[r] EXCEPT !.step = step]
<1>1. Sound(req[r], call[r]) /\ req[r] \in Reqs
  BY SoundRequests DEF Sound
<1>2. /\ q \in Reqs /\ q.step = step /\ q.chain = req[r].chain /\ q.user = req[r].user
      /\ q.keyed = req[r].keyed /\ q.exhibition = req[r].exhibition
      /\ q.unread = req[r].unread /\ q.age = req[r].age
      /\ q.consent = req[r].consent /\ q.client = req[r].client
      /\ q.lapse = req[r].lapse
  BY <1>1 DEF Reqs, Steps
<1>3. Sound(q, call[r])
  BY <1>1, <1>2, OutsideStays DEF Sound, IsChecked
<1> QED BY <1>3, OutsideStays, OneSlot DEF GoesOn

LEMMA FaultCounts == ASSUME PipelineInv, NoFault \/ Fault PROVE faults' \in Nat
BY DEF PipelineInv, PipelineTypeOK, NoFault, Fault

LEMMA SlotStays ==
  ASSUME PipelineInv, NEW r \in Requests
  PROVE  /\ req[r] \in Reqs /\ Sound(req[r], call[r])
         /\ session \in [Users -> Sessions] /\ faults \in Nat
BY SoundRequests DEF Sound, PipelineInv, PipelineTypeOK

LEMMA AuthOfBoothKeeps ==
  ASSUME PipelineInv, BanInv', NEW r \in Requests, AuthOfBooth(r)
  PROVE  PipelineInv'
<1>1. req[r].step = "auth" /\ req[r].keyed /\ UNCHANGED <<banVars, gate, session, faults>>
  BY DEF AuthOfBooth, AtAuth
<1>2. req[r].exhibition = gate /\ req[r].chain = "signed"
  BY <1>1, SlotStays DEF Sound
<1>3. CASE GoesOn(r, "handle") /\ req[r].exhibition
  BY <1>1, <1>2, <1>3, SlotStays, GoesOnKeeps
<1>4. CASE Answer(r)
  BY <1>1, <1>4, SlotStays, AnswerKeeps
<1> QED BY <1>3, <1>4 DEF AuthOfBooth

LEMMA AuthOfPlayerKeeps ==
  ASSUME PipelineInv, BanInv', NEW r \in Requests, AuthOfPlayer(r)
  PROVE  PipelineInv'
<1> DEFINE u == req[r].user
           q == [req[r] EXCEPT !.step = "ban"]
           c == [IdleCall EXCEPT !.step = "lookup", !.user = u]
<1>1. req[r].step = "auth" /\ req[r].chain # "open" /\ ~req[r].keyed /\ UNCHANGED gate
  BY DEF AuthOfPlayer, AtAuth
<1>2. CASE Enter(r, u) /\ GoesOn(r, "ban") /\ session' = [session EXCEPT ![u] = "used"]
           /\ NoFault
  <2>1. /\ q \in Reqs /\ q.step = "ban" /\ q.chain = req[r].chain /\ q.user = u
        /\ q.keyed = req[r].keyed
    BY SlotStays DEF Reqs, Steps
  <2>2. c.step = "lookup" /\ c.user = u
    BY DEF IdleCall
  <2>3. Sound(q, c)
    BY <1>1, <2>1, <2>2, SlotStays DEF Sound, IsChecked
  <2>4. call' = [call EXCEPT ![r] = c] /\ UNCHANGED <<banned, calm>>
    BY <1>2 DEF Enter, CallBecomes
  <2>5. session' \in [Users -> Sessions] /\ faults' \in Nat
    BY <1>2, SlotStays DEF Sessions, NoFault
  <2> QED BY <1>1, <1>2, <2>3, <2>4, <2>5, OneSlot DEF GoesOn
<1>3. CASE NoSessionFound(u) /\ Answer(r) /\ UNCHANGED <<banVars, session>>
  <2>1. faults' \in Nat
    BY <1>3, FaultCounts DEF NoSessionFound
  <2> QED BY <1>1, <1>3, <2>1, SlotStays, AnswerKeeps
<1> QED BY <1>2, <1>3 DEF AuthOfPlayer

\* The ban check lets a request through on evidence only if no old ban speaks
\* against it: StalenessBounded, taken in the very step that answers.
LEMMA BanStepKeeps ==
  ASSUME PipelineInv, BanInv', NEW r \in Requests, BanStep(r)
  PROVE  PipelineInv'
<1> DEFINE u == req[r].user
           verdict == last'[u]
           next == IF req[r].chain = "profile" THEN "handle" ELSE "verify"
           q == [req[r] EXCEPT !.step = next, !.unread = verdict = "open"]
<1>1. /\ req[r].step = "ban" /\ call[r].user = u /\ u \in Users
      /\ ~req[r].keyed /\ req[r].chain # "open"
  BY SlotStays DEF BanStep, Sound
<1>2. UNCHANGED <<banned, calm, gate, session, faults>>
  BY DEF BanStep, Lookup, ReadRow, Store
<1>3. PICK c : call' = [call EXCEPT ![r] = c]
  BY DEF BanStep, Lookup, ReadRow, Store, Miss, AnswersBy, Answers, CallBecomes
<1>4. call \in [Requests -> Calls] /\ last \in [Users -> Verdicts] /\ call[r] \in Calls
  BY DEF PipelineInv, BanInv, BanTypeOK
<1>5. call'[r] = c
  BY <1>3, <1>4
<1>6. CASE c.step # "idle"
  <2>1. UNCHANGED req
    BY <1>5, <1>6 DEF BanStep, BanDecides
  <2>2. c.user = u
    <3>1. CASE CallBecomes(r, IdleCall)
      BY <1>4, <1>5, <1>6, <3>1 DEF CallBecomes, IdleCall
    <3>2. CASE CallBecomes(r, [call[r] EXCEPT !.step = "read"])
      BY <1>1, <1>4, <3>2, <1>5 DEF CallBecomes, Calls
    <3>3. CASE CallBecomes(r, [call[r] EXCEPT !.step = "store", !.banned = banned[u]])
      BY <1>1, <1>4, <3>3, <1>5 DEF CallBecomes, Calls
    <3> QED BY <1>1, <3>1, <3>2, <3>3
            DEF BanStep, Lookup, ReadRow, Store, Miss, AnswersBy, Answers
  <2>3. Sound(req[r], c)
    BY <1>1, <1>6, <2>2, SlotStays DEF Sound
  <2>4. ReqBecomes(r, req[r])
    BY <2>1 DEF ReqBecomes, PipelineInv, PipelineTypeOK
  <2> QED BY <1>2, <1>3, <2>3, <2>4, SlotStays, OneSlot
<1>7. CASE c.step = "idle"
  <2>1. verdict \in {"let", "open", "refused"}
    BY <1>1, <1>4, <1>5, <1>7
       DEF BanStep, Lookup, ReadRow, Store, Miss, AnswersBy, Answers, CallBecomes, Calls,
           IdleCall
  <2>2. CASE verdict = "refused"
    <3>1. ReqBecomes(r, NoReq)
      BY <1>5, <1>7, <2>2 DEF BanStep, BanDecides, Answer
    <3> QED BY <1>2, <1>3, <1>7, <3>1, SlotStays, AnswerIsSound, OneSlot
  <2>3. CASE verdict # "refused"
    <3>1. ReqBecomes(r, q)
      BY <1>5, <1>7, <2>3 DEF BanStep, BanDecides
    <3>2. /\ q \in Reqs /\ q.step = next /\ q.chain = req[r].chain /\ q.user = u
          /\ q.keyed = req[r].keyed /\ q.unread = (verdict = "open") /\ q.age = req[r].age
      BY SlotStays DEF Reqs, Steps
    <3>3. ~q.unread /\ banned[u] => calm[u] <= TTL + SlowestRead
      <4>1. calm[u] \in Nat
        BY <1>1, Bounds DEF PipelineInv, BanInv, BanTypeOK
      <4>2. calm[u] > TTL + SlowestRead
              => verdict \in {"none", "open", IF banned[u] THEN "refused" ELSE "let"}
        BY <1>1, <1>2 DEF BanInv, StalenessBounded
      <4>3. ~q.unread => verdict = "let"
        BY <2>1, <2>3, <3>2
      <4>4. verdict = "let" /\ banned[u] => ~(calm[u] > TTL + SlowestRead)
        BY <4>2
      <4> QED BY <4>1, <4>3, <4>4, Bounds
    <3>4. q.age \in Nat /\ calm[u] \in Nat
      BY <1>1, <3>2, Bounds, SlotStays DEF Reqs, PipelineInv, BanInv, BanTypeOK
    <3>5. Sound(q, c)
      BY <1>1, <1>7, <3>2, <3>3, <3>4, Bounds, SlotStays DEF Sound
    <3> QED BY <1>2, <1>3, <3>1, <3>5, SlotStays, OneSlot
  <2> QED BY <2>2, <2>3
<1> QED BY <1>6, <1>7

LEMMA RestOfChainKeeps ==
  ASSUME PipelineInv, BanInv', NEW r \in Requests,
         VerifyStep(r) \/ Handles(r) \/ KeepsConsent(r)
  PROVE  PipelineInv'
<1>1. UNCHANGED <<banVars, gate, session>> /\ faults' \in Nat
  BY FaultCounts, SlotStays DEF VerifyStep, Handles, KeepsConsent
<1>2. CASE Answer(r) /\ req[r].step # "ban"
  BY <1>1, <1>2, SlotStays, AnswerKeeps
<1>3. CASE GoesOn(r, "handle") /\ req[r].step = "verify"
  <2>1. ~req[r].keyed /\ req[r].chain # "open"
    BY <1>3, SlotStays DEF Sound
  <2> QED BY <1>1, <1>3, <2>1, SlotStays, GoesOnKeeps
<1> QED BY <1>2, <1>3 DEF VerifyStep, Handles, KeepsConsent

LEMMA OptionalUserKeeps ==
  ASSUME PipelineInv, BanInv', NEW r \in Requests, OptionalUser(r)
  PROVE  PipelineInv'
<1> DEFINE q == [req[r] EXCEPT !.step = "handle", !.user = NoUser, !.lapse = TRUE]
<1>1. /\ req[r].step = "auth" /\ req[r].chain = "open" /\ ~req[r].keyed
      /\ UNCHANGED <<banVars, gate, session>> /\ faults' \in Nat
  BY FaultCounts, SlotStays DEF OptionalUser, NoSessionFound, Sound
<1>2. CASE GoesOn(r, "handle")
  BY <1>1, <1>2, SlotStays, GoesOnKeeps
<1>3. CASE ReqBecomes(r, q)
  <2>1. /\ q \in Reqs /\ q.step = "handle" /\ q.chain = "open" /\ q.user = NoUser
        /\ q.keyed = req[r].keyed /\ q.consent = req[r].consent
        /\ q.client = req[r].client /\ q.lapse
    BY <1>1, SlotStays DEF Reqs, Steps
  <2>2. Sound(q, call[r])
    BY <1>1, <2>1, SlotStays, OutsideStays DEF Sound, IsChecked
  <2> QED BY <1>1, <1>3, <2>2, SlotStays, OutsideStays, OneSlot
<1> QED BY <1>2, <1>3 DEF OptionalUser

LEMMA ClientsKeep ==
  ASSUME PipelineInv, BanInv', NEW r \in Requests
  PROVE  /\ \A u \in Users, chain \in Chains : PlayerSends(r, u, chain) => PipelineInv'
         /\ \A u \in Users, c \in Consents : ConsentSent(r, u, c) => PipelineInv'
         /\ BoothSends(r) => PipelineInv'
<1>1. NoReq \in Reqs /\ NoReq.step = "idle" /\ ~NoReq.keyed
  BY Bounds DEF NoReq, Reqs, Steps, Chains
<1>2. (\E q : Arrives(r, q)) => call[r].step = "idle"
  BY SlotStays DEF Sound, Arrives
<1>3. ASSUME NEW u \in Users, NEW chain \in Chains, PlayerSends(r, u, chain)
      PROVE  PipelineInv'
  <2> DEFINE q == [NoReq EXCEPT !.chain = chain, !.user = u]
             p == [q EXCEPT !.step = "auth"]
  <2>1. p \in Reqs /\ p.step = "auth" /\ p.chain = chain /\ p.user = u /\ ~p.keyed
    BY <1>1 DEF NoReq, Reqs, Steps
  <2>2. chain # "open" /\ Arrives(r, q)
    BY <1>3 DEF PlayerSends
  <2>3. Sound(p, call[r])
    BY <1>2, <2>1, <2>2 DEF Sound, IsChecked
  <2> QED BY <2>2, <2>3, ArrivesKeeps
<1>4. ASSUME NEW u \in Users, NEW c \in Consents, ConsentSent(r, u, c)
      PROVE  PipelineInv'
  <2> DEFINE q == [NoReq EXCEPT !.chain = "open", !.user = u, !.consent = c,
                                !.client = u, !.lapse = session[u] = "none"]
             p == [q EXCEPT !.step = "auth"]
  <2>1. /\ p \in Reqs /\ p.step = "auth" /\ p.chain = "open" /\ p.user = u
        /\ ~p.keyed /\ p.consent = c /\ p.client = u
    BY <1>1 DEF NoReq, Reqs, Steps, Chains
  <2>2. Arrives(r, q)
    BY <1>4 DEF ConsentSent
  <2>3. Sound(p, call[r])
    BY <1>2, <2>1, <2>2 DEF Sound, IsChecked
  <2> QED BY <2>2, <2>3, ArrivesKeeps
<1>5. ASSUME BoothSends(r) PROVE PipelineInv'
  <2> DEFINE q == [NoReq EXCEPT !.chain = "signed", !.keyed = TRUE, !.exhibition = gate,
                                !.user = IF gate THEN Booth ELSE NoUser]
             p == [q EXCEPT !.step = "auth"]
  <2>1. /\ p.step = "auth" /\ p.chain = "signed" /\ p.exhibition = gate
        /\ p.keyed /\ p \in Reqs
    BY <1>1, PipelineAssumption
       DEF NoReq, Reqs, Steps, Chains, PipelineInv, PipelineTypeOK
  <2>2. Arrives(r, q)
    BY <1>5 DEF BoothSends
  <2>3. Sound(p, call[r])
    BY <1>2, <2>1, <2>2 DEF Sound, IsChecked
  <2> QED BY <2>2, <2>3, ArrivesKeeps
<1> QED BY <1>3, <1>4, <1>5

\* Steps that disturb no request but for its age.
LEMMA WorldKeeps ==
  ASSUME PipelineInv, BanInv'
  PROVE  /\ \A u \in Users : SignsIn(u) \/ Expires(u) \/ OperatorToggles(u) => PipelineInv'
         /\ Restarts => PipelineInv'
         /\ TimePasses => PipelineInv'
<1>1. /\ req \in [Requests -> Reqs] /\ session \in [Users -> Sessions]
      /\ faults \in Nat /\ gate \in BOOLEAN
      /\ calm \in [Users -> 0..Horizon] /\ banned \in [Users -> BOOLEAN]
      /\ call \in [Requests -> Calls]
  BY DEF PipelineInv, PipelineTypeOK, BanInv, BanTypeOK
<1>2. ASSUME req' \in [Requests -> Reqs], session' \in [Users -> Sessions],
             faults' \in Nat, gate' \in BOOLEAN,
             \A r \in Requests : Sound(req[r], call[r])'
      PROVE  PipelineInv'
  <2>1. MarkedAtGate' /\ CarriesConsent' /\ InBanCheck' /\ BanReachesTheHandler'
    BY <1>2 DEF MarkedAtGate, CarriesConsent, InBanCheck, BanReachesTheHandler, Sound
  <2> QED BY <1>2, <2>1 DEF PipelineInv, PipelineTypeOK
<1>3. ASSUME NEW u \in Users, SignsIn(u) PROVE PipelineInv'
  <2>1. session' \in [Users -> Sessions]
    BY <1>1, <1>3 DEF SignsIn, Sessions
  <2>2. UNCHANGED <<req, call, banned, calm, gate, faults>>
    BY <1>3 DEF SignsIn, banVars
  <2>3. \A r \in Requests : Sound(req[r], call[r])'
    BY <2>2, SoundRequests DEF Sound
  <2> QED BY <1>1, <1>2, <2>1, <2>2, <2>3
<1>4. ASSUME NEW u \in Users, Expires(u) PROVE PipelineInv'
  <2>1. session' \in [Users -> Sessions] /\ UNCHANGED <<call, banned, calm, gate, faults>>
    BY <1>1, <1>4 DEF Expires, Sessions, banVars
  <2>2. ASSUME NEW r \in Requests
        PROVE  /\ req'[r] \in Reqs
               /\ Sound(req[r], call[r])'
    <3>1. req'[r] = IF req[r].user = u THEN [req[r] EXCEPT !.lapse = TRUE] ELSE req[r]
      BY <1>4 DEF Expires
    <3>2. /\ req'[r] \in Reqs /\ req'[r].step = req[r].step /\ req'[r].chain = req[r].chain
          /\ req'[r].user = req[r].user /\ req'[r].keyed = req[r].keyed
          /\ req'[r].exhibition = req[r].exhibition /\ req'[r].unread = req[r].unread
          /\ req'[r].age = req[r].age /\ req'[r].consent = req[r].consent
          /\ req'[r].client = req[r].client
          /\ req[r].lapse => req'[r].lapse
      BY <3>1, SlotStays DEF Reqs
    <3> QED BY <2>1, <3>2, SlotStays DEF Sound, IsChecked
  <2>3. req' \in [Requests -> Reqs]
    BY <1>4, <2>2 DEF Expires
  <2> QED BY <1>1, <1>2, <2>1, <2>2, <2>3
<1>5. ASSUME NEW u \in Users, OperatorToggles(u) PROVE PipelineInv'
  <2>1. /\ calm' = [calm EXCEPT ![u] = 0] /\ banned' = [banned EXCEPT ![u] = ~@]
        /\ UNCHANGED <<req, call, gate, session, faults>>
    BY <1>5 DEF OperatorToggles, Toggle
  <2>2. ASSUME NEW r \in Requests PROVE Sound(req[r], call[r])'
    <3>1. req[r].age \in Nat
      BY SlotStays, Bounds DEF Reqs
    <3>2. Sound(req[r], call[r])
      BY SlotStays
    <3>3. IsChecked(req[r]) => req[r].user \in Users
      BY <3>2 DEF Sound, IsChecked
    <3>4. CASE req[r].user = u
      BY <1>1, <2>1, <3>1, <3>2, <3>4, Bounds DEF Sound
    <3>5. CASE req[r].user # u
      BY <1>1, <2>1, <3>2, <3>3, <3>5 DEF Sound
    <3> QED BY <3>4, <3>5
  <2> QED BY <1>1, <1>2, <2>1, <2>2
<1>6. ASSUME Restarts PROVE PipelineInv'
  <2>1. NoReq \in Reqs
    BY Bounds DEF NoReq, Reqs, Steps, Chains
  <2>2. /\ req' = [r \in Requests |-> NoReq] /\ call' = [r \in Requests |-> IdleCall]
        /\ gate' \in BOOLEAN /\ UNCHANGED session /\ faults' \in Nat
    BY <1>1, <1>6 DEF Restarts, Restarted, Restart, Fault
  <2>3. \A r \in Requests : Sound(req[r], call[r])'
    BY <2>1, <2>2 DEF Sound, NoReq, IdleCall, IsChecked
  <2> QED BY <1>1, <1>2, <2>1, <2>2, <2>3
<1>7. ASSUME TimePasses PROVE PipelineInv'
  <2>1. /\ UNCHANGED <<banned, gate, session, faults>>
        /\ \A u \in Users : calm'[u] \in Nat /\ calm'[u] <= calm[u] + 1
    BY <1>1, <1>7, Bounds DEF TimePasses, Tick
  <2>2. ASSUME NEW r \in Requests PROVE req'[r] \in Reqs /\ Sound(req[r], call[r])'
    <3>1. /\ req'[r] = IF IsChecked(req[r]) THEN [req[r] EXCEPT !.age = @ + 1] ELSE req[r]
          /\ IsChecked(req[r]) => req[r].age < SlowestRead
      BY <1>7 DEF TimePasses
    <3>2. req[r] \in Reqs /\ req[r].age \in Nat /\ Sound(req[r], call[r])
      BY SlotStays, Bounds DEF Reqs
    <3>3. call'[r].step = call[r].step /\ call'[r].user = call[r].user
      BY <1>1, <1>7 DEF TimePasses, Tick, Calls
    <3>4. CASE IsChecked(req[r])
      <4>1. /\ req'[r] \in Reqs /\ req'[r].step = req[r].step
            /\ req'[r].chain = req[r].chain /\ req'[r].user = req[r].user
            /\ req'[r].keyed = req[r].keyed /\ req'[r].unread = req[r].unread
            /\ req'[r].age = req[r].age + 1
        BY <3>1, <3>2, <3>4, Bounds DEF Reqs
      <4>2. req[r].user \in Users /\ ~req[r].keyed /\ req[r].chain # "open"
        BY <3>2, <3>4 DEF Sound, IsChecked
      <4>3. ~req[r].unread /\ banned[req[r].user]
              => calm'[req[r].user] <= TTL + SlowestRead + (req[r].age + 1)
        BY <1>1, <2>1, <3>2, <3>4, <4>2, Bounds DEF Sound
      <4> QED BY <2>1, <3>2, <3>3, <3>4, <4>1, <4>2, <4>3 DEF Sound, IsChecked
    <3>5. CASE ~IsChecked(req[r])
      BY <2>1, <3>1, <3>2, <3>3, <3>5 DEF Sound
    <3> QED BY <3>4, <3>5
  <2>3. req' \in [Requests -> Reqs]
    BY <1>7, <2>2 DEF TimePasses
  <2> QED BY <1>1, <1>2, <2>1, <2>2, <2>3
<1> QED BY <1>3, <1>4, <1>5, <1>6, <1>7

-----------------------------------------------------------------------------
\* Every step keeps the invariant.
LEMMA NextKeepsPipelineInv == PipelineInv /\ [PipelineNext]_pipelineVars => PipelineInv'
<1> SUFFICES ASSUME PipelineInv, [PipelineNext]_pipelineVars PROVE PipelineInv'
  OBVIOUS
<1>1. BanInv'
  BY StepsOfBanCheck, NextKeepsBanInv DEF PipelineInv
<1>2. CASE UNCHANGED pipelineVars
  BY <1>1, <1>2
     DEF pipelineVars, banVars, PipelineInv, PipelineTypeOK, MarkedAtGate, CarriesConsent,
         InBanCheck, BanReachesTheHandler
<1>3. ASSUME NEW u \in Users, SignsIn(u) \/ Expires(u) \/ OperatorToggles(u)
      PROVE  PipelineInv'
  BY <1>1, <1>3, WorldKeeps
<1>4. ASSUME NEW u \in Users, PlayerActs(u) PROVE PipelineInv'
  BY <1>1, <1>4, ClientsKeep, PipelineAssumption DEF PlayerActs
<1>5. ASSUME NEW r \in Requests, ServerStep(r) PROVE PipelineInv'
  BY <1>1, <1>5, AuthOfPlayerKeeps, AuthOfBoothKeeps, BanStepKeeps, RestOfChainKeeps,
     OptionalUserKeeps DEF ServerStep
<1>6. ASSUME NEW r \in Requests,
             BoothSends(r) \/ \E u \in Users, c \in Consents : ConsentSent(r, u, c)
      PROVE  PipelineInv'
  BY <1>1, <1>6, ClientsKeep
<1>7. CASE Restarts \/ TimePasses
  BY <1>1, <1>7, WorldKeeps
<1> QED BY <1>2, <1>3, <1>4, <1>5, <1>6, <1>7 DEF PipelineNext

\* The invariant holds in every reachable state.
THEOREM PipelineInvariance == PipelineSpec => []PipelineInv
<1> QED BY InitPipelineInv, NextKeepsPipelineInv, PTL DEF PipelineSpec

\* Behind the whole chain, no handler works for a player whose ban has stood for
\* longer than cache, read and chain take, unless the row could not be read.
THEOREM BansReachHandlers == PipelineSpec => []BanReachesTheHandler
<1>1. PipelineInv => BanReachesTheHandler
  BY DEF PipelineInv
<1> QED BY <1>1, PipelineInvariance, PTL

\* The pipeline runs the ban check as BanCheck specifies it: what is proved of
\* BanSpec (BanTakesHold) holds of every request that goes through the chain.
THEOREM PipelineChecksBans == PipelineSpec => BanSpec
<1>1. PipelineInit => BanInit
  BY DEF PipelineInit
<1> QED BY <1>1, StepsOfBanCheck, PipelineInvariance, PTL DEF PipelineSpec, BanSpec

\* What the exhibition build hears was decided at the start of the process.
THEOREM BoothIsDecidedAtBoot == PipelineSpec => BoothDecidedAtBoot
<1> DEFINE Heard(r) == \/ req[r].step = IF gate THEN "handle" ELSE "auth"
                       \/ Restarts
<1>1. ASSUME PipelineInv, [PipelineNext]_pipelineVars, NEW r \in Requests,
             req[r].keyed, ~req'[r].keyed
      PROVE  Heard(r)
  <2>1. Sound(req[r], call[r]) /\ req \in [Requests -> Reqs]
    BY <1>1, SlotStays DEF PipelineInv, PipelineTypeOK
  <2>2. /\ req[r].chain = "signed" /\ req[r].step \in {"auth", "handle"}
        /\ req[r].exhibition = gate /\ (req[r].step = "handle" => gate)
    BY <1>1, <2>1 DEF Sound
  <2>3. ASSUME NEW q, NEW s \in Requests, ReqBecomes(s, q), s # r PROVE FALSE
    BY <1>1, <2>1, <2>3 DEF ReqBecomes
  <2>4. CASE UNCHANGED req
    BY <1>1, <2>4
  <2>5. ASSUME NEW u \in Users, SignsIn(u) \/ OperatorToggles(u) PROVE Heard(r)
    BY <2>4, <2>5 DEF SignsIn, OperatorToggles
  <2>6. ASSUME NEW u \in Users, Expires(u) PROVE FALSE
    BY <1>1, <2>1, <2>6, SlotStays DEF Expires, Reqs
  <2>7. CASE TimePasses
    BY <1>1, <2>1, <2>7, SlotStays DEF TimePasses, Reqs
  <2>8. ASSUME NEW s \in Requests, NEW q, Arrives(s, q) PROVE FALSE
    BY <2>2, <2>3, <2>8 DEF Arrives
  <2>9. ASSUME NEW s \in Requests, ServerStep(s) PROVE Heard(r)
    <3>1. CASE AuthOfBooth(s)
      <4>1. s = r
        BY <2>3, <3>1 DEF AuthOfBooth, GoesOn, Answer
      <4>2. CASE GoesOn(r, "handle")
        BY <1>1, <2>1, <4>2, SlotStays DEF GoesOn, ReqBecomes, Reqs
      <4>3. CASE ~req[r].exhibition
        BY <2>2, <3>1, <4>1, <4>3 DEF AuthOfBooth, AtAuth
      <4> QED BY <3>1, <4>1, <4>2, <4>3 DEF AuthOfBooth
    <3>2. CASE Handles(s)
      <4>1. s = r
        BY <2>3, <3>2 DEF Handles, Answer
      <4> QED BY <2>2, <3>2, <4>1 DEF Handles
    <3>3. CASE AuthOfPlayer(s) \/ VerifyStep(s) \/ OptionalUser(s) \/ KeepsConsent(s)
      <4>1. \E q : ReqBecomes(s, q)
        BY <3>3 DEF AuthOfPlayer, VerifyStep, OptionalUser, KeepsConsent, GoesOn, Answer
      <4>2. s = r
        BY <2>3, <4>1
      <4> QED BY <1>1, <2>2, <3>3, <4>2
              DEF AuthOfPlayer, AtAuth, VerifyStep, OptionalUser, KeepsConsent
    <3>4. CASE BanStep(s)
      <4>1. s # r
        BY <2>2, <3>4 DEF BanStep
      <4>2. UNCHANGED req \/ \E q : ReqBecomes(s, q)
        BY <3>4 DEF BanStep, BanDecides, Answer
      <4> QED BY <2>3, <2>4, <4>1, <4>2
    <3> QED BY <2>9, <3>1, <3>2, <3>3, <3>4 DEF ServerStep
  <2>10. ASSUME NEW u \in Users, PlayerActs(u) PROVE FALSE
    BY <2>8, <2>10, PipelineAssumption DEF PlayerActs, PlayerSends
  <2>11. ASSUME NEW s \in Requests, BoothSends(s) PROVE FALSE
    BY <2>8, <2>11 DEF BoothSends
  <2>12. ASSUME NEW s \in Requests, NEW u \in Users, NEW c \in Consents,
                ConsentSent(s, u, c)
         PROVE  FALSE
    BY <2>8, <2>12 DEF ConsentSent
  <2>13. CASE UNCHANGED pipelineVars
    BY <2>4, <2>13 DEF pipelineVars
  <2> QED BY <1>1, <2>5, <2>6, <2>7, <2>9, <2>10, <2>11, <2>12, <2>13 DEF PipelineNext
<1>2. PipelineInv /\ [PipelineNext]_pipelineVars =>
        [\A r \in Requests : req[r].keyed /\ ~req'[r].keyed => Heard(r)]_pipelineVars
  BY <1>1
<1> QED BY <1>2, PipelineInvariance, PTL DEF PipelineSpec, BoothDecidedAtBoot

\* Only a handler of consents writes a row.
LEMMA RowsWritten ==
  ASSUME [PipelineNext]_pipelineVars
  PROVE  UNCHANGED consent \/ \E r \in Requests : KeepsConsent(r)
<1>1. CASE UNCHANGED pipelineVars
  BY <1>1 DEF pipelineVars
<1>2. ASSUME NEW u \in Users, SignsIn(u) \/ Expires(u) \/ OperatorToggles(u)
      PROVE  UNCHANGED consent
  BY <1>2 DEF SignsIn, Expires, OperatorToggles
<1>3. ASSUME NEW r \in Requests, NEW q, Arrives(r, q) PROVE UNCHANGED consent
  BY <1>3 DEF Arrives
<1>4. ASSUME NEW u \in Users, PlayerActs(u) PROVE UNCHANGED consent
  BY <1>3, <1>4, PipelineAssumption DEF PlayerActs, PlayerSends
<1>5. ASSUME NEW r \in Requests, BoothSends(r) PROVE UNCHANGED consent
  BY <1>3, <1>5 DEF BoothSends
<1>6. ASSUME NEW r \in Requests, NEW u \in Users, NEW c \in Consents, ConsentSent(r, u, c)
      PROVE  UNCHANGED consent
  BY <1>3, <1>6 DEF ConsentSent
<1>7. ASSUME NEW r \in Requests, ServerStep(r), ~KeepsConsent(r) PROVE UNCHANGED consent
  BY <1>7 DEF ServerStep, AuthOfPlayer, AuthOfBooth, BanStep, VerifyStep, Handles,
              OptionalUser
<1>8. CASE Restarts \/ TimePasses
  BY <1>8 DEF Restarts, Restarted, TimePasses
<1> QED BY <1>1, <1>2, <1>4, <1>5, <1>6, <1>7, <1>8 DEF PipelineNext

\* What a handler of consents writes: the row of the consent it was sent, for
\* the device that sent it, and for nobody only after a lapse.
LEMMA RowWritten ==
  ASSUME PipelineInv, ConsentRows, NEW r \in Requests, KeepsConsent(r)
  PROVE  /\ ConsentRows'
         /\ \A c \in Consents : consent'[c] # consent[c] =>
              /\ req[r].consent = c
              /\ consent'[c].client = req[r].client
              /\ \/ consent'[c].user = req[r].client
                 \/ consent'[c].user = NoUser /\ req[r].lapse
<1> DEFINE new == [client |-> req[r].client, user |-> req[r].user]
<1>1. /\ req[r].consent \in Consents /\ req[r].client \in Users
      /\ req[r].user = req[r].client \/ (req[r].user = NoUser /\ req[r].lapse)
  BY SlotStays DEF KeepsConsent, Sound
<1>2. consent' = [consent EXCEPT ![req[r].consent] = IF @ = NoRow THEN new ELSE @]
  BY DEF KeepsConsent
<1>3. /\ new \in [client : Users \cup {NoUser}, user : Users \cup {NoUser}]
      /\ new.client = req[r].client /\ new.user = req[r].user
  BY <1>1
<1> HIDE DEF new
<1>4. ConsentRows'
  BY <1>1, <1>2, <1>3 DEF ConsentRows
<1>5. ASSUME NEW c \in Consents, consent'[c] # consent[c]
      PROVE  req[r].consent = c /\ consent'[c] = new
  BY <1>1, <1>2, <1>5 DEF ConsentRows
<1> QED BY <1>1, <1>3, <1>4, <1>5

\* A consent is stored for the device that sent it and, unless the session or
\* Redis was gone while the request was under way, for its player.
THEOREM ConsentSigned == PipelineSpec => ConsentNamesItsSender
<1> DEFINE Signed(c) ==
      \E r \in Requests :
        /\ req[r].consent = c
        /\ consent'[c].client = req[r].client
        /\ \/ consent'[c].user = req[r].client
           \/ consent'[c].user = NoUser /\ req[r].lapse
<1>1. PipelineInit => ConsentRows
  BY DEF PipelineInit, ConsentRows, NoRow
<1>2. PipelineInv /\ ConsentRows /\ [PipelineNext]_pipelineVars => ConsentRows'
  BY RowsWritten, RowWritten DEF ConsentRows
<1>3. ASSUME PipelineInv, ConsentRows, [PipelineNext]_pipelineVars, NEW c \in Consents,
             consent'[c] # consent[c]
      PROVE  Signed(c)
  <2>1. PICK r \in Requests : KeepsConsent(r)
    BY <1>3, RowsWritten
  <2>2. /\ req[r].consent = c
        /\ consent'[c].client = req[r].client
        /\ \/ consent'[c].user = req[r].client
           \/ consent'[c].user = NoUser /\ req[r].lapse
    BY <1>3, <2>1, RowWritten
  <2> QED BY <2>2
<1>4. PipelineInv /\ ConsentRows /\ [PipelineNext]_pipelineVars =>
        [\A c \in Consents : consent'[c] # consent[c] => Signed(c)]_pipelineVars
  BY <1>3
<1> QED
  BY <1>1, <1>2, <1>4, PipelineInvariance, PTL DEF PipelineSpec, ConsentNamesItsSender
=============================================================================
