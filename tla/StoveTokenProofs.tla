--------------------------- MODULE StoveTokenProofs ---------------------------
(*****************************************************************************)
(* StoveInv is inductive: the ages of the tokens on their way, in use and in *)
(* the cache add up to less than refreshBefore, whatever the lifetimes, the  *)
(* number of sign-ins and the timeout.  LineInv adds the queue at the mutex. *)
(*****************************************************************************)
EXTENDS StoveToken, SequenceTheorems, FiniteSetTheorems, TLAPS

(* What the proofs need of the constants.                                    *)
LEMMA Numbers ==
  /\ Timeout \in Nat \ {0} /\ Margin \in Nat /\ Default \in Nat \ {0}
  /\ 2 * Timeout <= Margin
  /\ Lifetimes \subseteq Nat
  /\ NoToken \in Tokens
  /\ \A s \in Nat : Fresh(s) \in Nat
  /\ \A s \in Nat : s > Margin => Fresh(s) = s - Margin
<1>1. Timeout \in Nat \ {0} /\ Margin \in Nat /\ Default \in Nat \ {0}
      /\ 2 * Timeout <= Margin /\ Lifetimes \subseteq Nat
  BY StoveAssumption
<1>2. NoToken \in Tokens
  BY DEF NoToken, Tokens
<1>3. \A s \in Nat : Fresh(s) \in Nat
  BY <1>1 DEF Fresh
<1>4. \A s \in Nat : s > Margin => Fresh(s) = s - Margin
  BY <1>1 DEF Fresh
<1> QED BY <1>1, <1>2, <1>3, <1>4

(* At boot no token is cached and no call is under way.                      *)
LEMMA InitStoveInv == Init => StoveInv
<1> SUFFICES ASSUME Init PROVE StoveInv
  OBVIOUS
<1> USE Numbers DEF Init
<1>1. StoveTypeOK
  BY DEF StoveTypeOK, Phases
<1>2. NoFetchWhileFresh /\ CacheOutlives /\ AnswersAge /\ UsesOutlive
  BY DEF NoFetchWhileFresh, CacheOutlives, AnswersAge, UsesOutlive
<1> QED BY <1>1, <1>2 DEF StoveInv

(* A call that goes to the end of the queue holds nothing yet; the head of   *)
(* the queue stays the head.                                                 *)
LEMMA EnterKeeps ==
  ASSUME StoveInv, NEW c \in Calls, Enter(c),
         step' \in [Calls -> {"verify", "profile"}],
         phase[c] \in {"idle", "using"}
  PROVE  StoveInv'
<1> USE Numbers DEF StoveInv
<1>1. StoveTypeOK'
  <2>1. queue' \in Seq(Calls)
    BY DEF StoveTypeOK, Enter
  <2>2. cache' \in Tokens /\ fresh' \in Nat
    BY DEF StoveTypeOK, Enter
  <2>3. phase' \in [Calls -> Phases]
    BY DEF StoveTypeOK, Enter, Phases
  <2>4. token' \in [Calls -> Tokens]
    BY DEF StoveTypeOK, Enter
  <2>5. step' \in [Calls -> {"verify", "profile"}]
    BY DEF StoveTypeOK, Enter
  <2>6. 0 \in 0..Timeout
    OBVIOUS
  <2>7. busy' \in [Calls -> 0..Timeout]
    BY <2>6 DEF StoveTypeOK, Enter
  <2>8. waited' \in [Calls -> Nat]
    BY DEF StoveTypeOK, Enter
  <2> QED BY <2>1, <2>2, <2>3, <2>4, <2>5, <2>7, <2>8 DEF StoveTypeOK
<1>2. queue \in Seq(Calls) /\ queue' = Append(queue, c)
  BY DEF StoveTypeOK, Enter
<1>3. \A d \in Calls : Holds(d) => Holds(d)'
  <2>1. queue' # << >>
    BY ONLY <1>2, AppendProperties
  <2>2. queue # << >> => Head(queue') = Head(queue)
    BY <1>2, HeadTailAppend
  <2> QED BY <2>1, <2>2 DEF Holds
<1>4. \A d \in Calls : phase'[d] # "queued" =>
        phase'[d] = phase[d] /\ token'[d] = token[d] /\ busy'[d] = busy[d]
  BY DEF StoveTypeOK, Enter
<1>5. NoFetchWhileFresh'
  BY <1>3, <1>4 DEF NoFetchWhileFresh, Enter
<1>6. CacheOutlives'
  BY DEF CacheOutlives, Counted, Enter
<1>7. AnswersAge' /\ UsesOutlive'
  BY <1>4 DEF AnswersAge, UsesOutlive, Counted
<1> QED BY <1>1, <1>5, <1>6, <1>7

LEMMA SignInKeeps ==
  ASSUME StoveInv, NEW c \in Calls, SignIn(c)
  PROVE  StoveInv'
<1>1. step' \in [Calls -> {"verify", "profile"}]
  BY DEF SignIn, StoveInv, StoveTypeOK
<1> QED BY <1>1, EnterKeeps DEF SignIn

LEMMA VerifiedKeeps ==
  ASSUME StoveInv, NEW c \in Calls, Verified(c)
  PROVE  StoveInv'
<1>1. step' \in [Calls -> {"verify", "profile"}]
  BY DEF Verified, StoveInv, StoveTypeOK
<1> QED BY <1>1, EnterKeeps DEF Verified

(* No other call fetches while c, which is not fetching, has the lock; so it *)
(* may be released.                                                          *)
LEMMA LockIsExclusive ==
  ASSUME StoveInv, NEW c \in Calls, Holds(c), NEW d \in Calls, d # c
  PROVE  phase[d] \notin {"fetching", "issued"}
BY DEF StoveInv, NoFetchWhileFresh, Holds

(* A hit hands out a token that CacheOutlives dates; a miss starts a fetch   *)
(* when nothing fresh is cached.                                             *)
LEMMA LookupKeeps ==
  ASSUME StoveInv, NEW c \in Calls, Lookup(c)
  PROVE  StoveInv'
<1> USE Numbers DEF StoveInv
<1>1. queue # << >> /\ Tail(queue) \in Seq(Calls)
  BY DEF StoveTypeOK, Lookup, Holds
<1>2. StoveTypeOK'
  <2>1. queue' \in Seq(Calls)
    BY <1>1 DEF StoveTypeOK, Lookup
  <2>2. cache' \in Tokens /\ fresh' \in Nat
    BY DEF StoveTypeOK, Lookup
  <2>3. phase' \in [Calls -> Phases]
    BY DEF StoveTypeOK, Lookup, Phases
  <2>4. token' \in [Calls -> Tokens]
    BY DEF StoveTypeOK, Lookup
  <2>5. step' \in [Calls -> {"verify", "profile"}]
    BY DEF StoveTypeOK, Lookup
  <2>6. busy' \in [Calls -> 0..Timeout] /\ waited' \in [Calls -> Nat]
    BY DEF StoveTypeOK, Lookup
  <2> QED BY <2>1, <2>2, <2>3, <2>4, <2>5, <2>6 DEF StoveTypeOK
<1>3. UNCHANGED <<cache, fresh, busy>>
      /\ \A d \in Calls \ {c} : phase'[d] = phase[d] /\ token'[d] = token[d]
  BY DEF StoveTypeOK, Lookup
<1>4. CacheOutlives'
  BY <1>3 DEF CacheOutlives, Counted
<1>5. \A d \in Calls \ {c} : phase[d] \notin {"fetching", "issued"}
  BY LockIsExclusive DEF Lookup
<1>6. phase'[c] \in {"using", "fetching"}
      /\ (phase'[c] = "fetching" => fresh = 0 /\ UNCHANGED queue)
      /\ (phase'[c] = "using" => fresh > 0 /\ token'[c] = cache)
  <2>1. phase \in [Calls -> Phases] /\ token \in [Calls -> Tokens]
        /\ fresh \in Nat
    BY DEF StoveTypeOK
  <2>2. CASE fresh > 0
    BY <2>1, <2>2 DEF Lookup
  <2>3. CASE ~(fresh > 0)
    BY <2>1, <2>3 DEF Lookup
  <2> QED BY <2>2, <2>3
<1>7. NoFetchWhileFresh'
  BY <1>3, <1>5, <1>6 DEF NoFetchWhileFresh, Holds, Lookup
<1>8. AnswersAge'
  BY <1>3, <1>5, <1>6 DEF AnswersAge
<1>9. UsesOutlive'
  <2> SUFFICES ASSUME NEW d \in Calls, phase'[d] = "using", Counted(token'[d])
      PROVE  token'[d].left >= 1 + Margin - Timeout - busy'[d]
    BY DEF UsesOutlive, Counted
  <2>1. CASE d = c
    <3>1. cache.left >= fresh + Margin - Timeout /\ fresh > 0
      BY <1>6, <2>1 DEF CacheOutlives
    <3>2. cache.left \in Nat /\ fresh \in Nat /\ busy[c] \in Nat
      BY DEF StoveTypeOK, Tokens
    <3> QED BY <1>3, <1>6, <2>1, <3>1, <3>2
  <2>2. CASE d # c
    BY <1>3, <2>2 DEF UsesOutlive
  <2> QED BY <2>1, <2>2
<1> QED BY <1>2, <1>4, <1>7, <1>8, <1>9

(* The life of a token begins when it is issued.                             *)
LEMMA IssueKeeps ==
  ASSUME StoveInv, NEW c \in Calls, Issue(c)
  PROVE  StoveInv'
<1> USE Numbers DEF StoveInv
<1>1. PICK stated \in Lifetimes, left \in Lifetimes :
        /\ stated # 0 => left = stated
        /\ token' = [token EXCEPT ![c] =
                       [stated |-> stated, left |-> left, revoked |-> FALSE]]
  BY DEF Issue
<1>2. StoveTypeOK'
  BY <1>1 DEF StoveTypeOK, Issue, Phases, Tokens
<1>3. \A d \in Calls \ {c} : phase'[d] = phase[d] /\ token'[d] = token[d]
  BY <1>1 DEF StoveTypeOK, Issue
<1>4. phase'[c] = "issued" /\ token'[c].stated = stated /\ token'[c].left = left
  BY <1>1 DEF StoveTypeOK, Issue
<1>5. NoFetchWhileFresh' /\ CacheOutlives'
  BY <1>3 DEF NoFetchWhileFresh, CacheOutlives, Counted, Holds, Issue
<1>6. AnswersAge'
  <2>1. token'[c].stated > Margin => token'[c].left = token'[c].stated
    BY <1>1, <1>4
  <2>2. busy'[c] \in Nat /\ token'[c].stated \in Nat /\ UNCHANGED busy
    BY <1>2 DEF StoveTypeOK, Tokens, Issue
  <2> QED BY <1>3, <2>1, <2>2 DEF AnswersAge, Counted
<1>7. UsesOutlive'
  BY <1>3, <1>4 DEF UsesOutlive, Counted, Issue
<1> QED BY <1>2, <1>5, <1>6, <1>7

(* The answer puts into the cache, and into use, a token that has lost at    *)
(* most one timeout.                                                         *)
LEMMA FetchedKeeps ==
  ASSUME StoveInv, NEW c \in Calls, Fetched(c)
  PROVE  StoveInv'
<1> USE Numbers DEF StoveInv
<1>1. Holds(c) /\ queue # << >> /\ Tail(queue) \in Seq(Calls)
  BY DEF StoveTypeOK, Fetched, Holds, NoFetchWhileFresh
<1>2. token[c] \in Tokens /\ busy[c] \in 0..Timeout
  BY DEF StoveTypeOK
<1>3. token[c].stated \in Nat /\ token[c].left \in Nat
  BY <1>2 DEF Tokens
<1>4. StoveTypeOK'
  <2>1. queue' \in Seq(Calls)
    BY <1>1 DEF StoveTypeOK, Fetched
  <2>2. cache' \in Tokens /\ fresh' \in Nat
    BY <1>2, <1>3 DEF StoveTypeOK, Fetched
  <2>3. phase' \in [Calls -> Phases]
    BY DEF StoveTypeOK, Fetched, Phases
  <2>4. token' \in [Calls -> Tokens]
    BY <1>2, <1>3 DEF StoveTypeOK, Fetched
  <2>5. step' \in [Calls -> {"verify", "profile"}]
    BY DEF StoveTypeOK, Fetched
  <2>6. 0 \in 0..Timeout
    OBVIOUS
  <2>7. busy' \in [Calls -> 0..Timeout]
    BY <2>6 DEF StoveTypeOK, Fetched
  <2>8. waited' \in [Calls -> Nat]
    BY DEF StoveTypeOK, Fetched
  <2> QED BY <2>1, <2>2, <2>3, <2>4, <2>5, <2>7, <2>8 DEF StoveTypeOK
<1>5. phase'[c] = "using" /\ token' = token /\ busy'[c] = 0
      /\ \A d \in Calls \ {c} : phase'[d] = phase[d] /\ busy'[d] = busy[d]
  BY DEF StoveTypeOK, Fetched
<1>6. Counted(token[c]) => token[c].left >= token[c].stated - Timeout
  <2>1. Counted(token[c]) => token[c].left >= token[c].stated - busy[c]
    BY DEF AnswersAge, Fetched
  <2> QED BY <1>2, <1>3, <2>1
<1>7. \A d \in Calls \ {c} : phase[d] \notin {"fetching", "issued"}
  BY <1>1, LockIsExclusive
<1>8. NoFetchWhileFresh' /\ AnswersAge'
  BY <1>5, <1>7 DEF NoFetchWhileFresh, AnswersAge
<1>9. CacheOutlives'
  <2>1. cache' = token[c] /\ fresh' = Fresh(token[c].stated)
    BY DEF Fetched
  <2>2. SUFFICES ASSUME Counted(token[c])
        PROVE  token[c].left >= fresh' + Margin - Timeout
    BY <2>1 DEF CacheOutlives, Counted
  <2>3. fresh' = token[c].stated - Margin
    BY <1>3, <2>1, <2>2 DEF Counted
  <2>4. token[c].left >= token[c].stated - Timeout
    BY <1>6, <2>2
  <2> QED BY <1>3, <2>3, <2>4
<1>10. UsesOutlive'
  BY <1>3, <1>5, <1>6 DEF UsesOutlive, Counted
<1> QED BY <1>4, <1>8, <1>9, <1>10

(* Failing or ending drops the token; a fetch that fails releases the lock.  *)
LEMMA FetchFailsKeeps ==
  ASSUME StoveInv, NEW c \in Calls, FetchFails(c)
  PROVE  StoveInv'
<1> USE Numbers DEF StoveInv
<1>1. Holds(c) /\ queue # << >> /\ Tail(queue) \in Seq(Calls)
  <2>1. Holds(c) /\ queue \in Seq(Calls)
    BY DEF StoveTypeOK, FetchFails, NoFetchWhileFresh
  <2> QED BY <2>1 DEF Holds
<1>2. StoveTypeOK'
  <2>1. queue' \in Seq(Calls)
    BY <1>1 DEF StoveTypeOK, FetchFails
  <2>2. cache' \in Tokens /\ fresh' \in Nat
    BY DEF StoveTypeOK, FetchFails
  <2>3. phase' \in [Calls -> Phases]
    BY DEF StoveTypeOK, FetchFails, Phases
  <2>4. token' \in [Calls -> Tokens]
    BY DEF StoveTypeOK, FetchFails
  <2>5. step' \in [Calls -> {"verify", "profile"}]
    BY DEF StoveTypeOK, FetchFails
  <2>6. 0 \in 0..Timeout
    OBVIOUS
  <2>7. busy' \in [Calls -> 0..Timeout]
    BY <2>6 DEF StoveTypeOK, FetchFails
  <2>8. waited' \in [Calls -> Nat]
    BY DEF StoveTypeOK, FetchFails
  <2> QED BY <2>1, <2>2, <2>3, <2>4, <2>5, <2>7, <2>8 DEF StoveTypeOK
<1>3. phase'[c] = "idle"
      /\ \A d \in Calls \ {c} :
           phase'[d] = phase[d] /\ token'[d] = token[d] /\ busy'[d] = busy[d]
  BY DEF StoveTypeOK, FetchFails
<1>4. \A d \in Calls \ {c} : phase[d] \notin {"fetching", "issued"}
  BY <1>1, LockIsExclusive
<1>5. NoFetchWhileFresh' /\ AnswersAge'
  BY <1>3, <1>4 DEF NoFetchWhileFresh, AnswersAge
<1>6. CacheOutlives' /\ UsesOutlive'
  BY <1>3 DEF CacheOutlives, UsesOutlive, Counted, FetchFails
<1> QED BY <1>2, <1>5, <1>6

LEMMA EndedKeeps ==
  ASSUME StoveInv, NEW c \in Calls, Ended(c)
  PROVE  StoveInv'
<1> USE Numbers DEF StoveInv
<1>1. StoveTypeOK'
  <2>1. queue' \in Seq(Calls)
    BY DEF StoveTypeOK, Ended
  <2>2. cache' \in Tokens /\ fresh' \in Nat
    BY DEF StoveTypeOK, Ended
  <2>3. phase' \in [Calls -> Phases]
    BY DEF StoveTypeOK, Ended, Phases
  <2>4. token' \in [Calls -> Tokens]
    BY DEF StoveTypeOK, Ended
  <2>5. step' \in [Calls -> {"verify", "profile"}]
    BY DEF StoveTypeOK, Ended
  <2>6. 0 \in 0..Timeout
    OBVIOUS
  <2>7. busy' \in [Calls -> 0..Timeout]
    BY <2>6 DEF StoveTypeOK, Ended
  <2>8. waited' \in [Calls -> Nat]
    BY DEF StoveTypeOK, Ended
  <2> QED BY <2>1, <2>2, <2>3, <2>4, <2>5, <2>7, <2>8 DEF StoveTypeOK
<1>2. phase'[c] = "idle"
      /\ \A d \in Calls \ {c} :
           phase'[d] = phase[d] /\ token'[d] = token[d] /\ busy'[d] = busy[d]
  BY DEF StoveTypeOK, Ended
<1>3. NoFetchWhileFresh' /\ AnswersAge'
  BY <1>2 DEF NoFetchWhileFresh, AnswersAge, Counted, Ended, Holds
<1>4. CacheOutlives' /\ UsesOutlive'
  BY <1>2 DEF CacheOutlives, UsesOutlive, Counted, Ended
<1> QED BY <1>1, <1>3, <1>4

(* A revoked token is not counted; a dead one was not either.                *)
LEMMA RevokeKeeps ==
  ASSUME StoveInv, Revoke
  PROVE  StoveInv'
<1> USE DEF StoveInv
<1>1. \A t \in Tokens : Gone(t) \in Tokens /\ Gone(t).left = t.left
        /\ Gone(t).stated = t.stated /\ (t.revoked => Gone(t).revoked)
  BY DEF Tokens, Gone
<1>2. cache \in Tokens /\ cache' = Gone(cache)
      /\ \A c \in Calls : token[c] \in Tokens /\ token'[c] = Gone(token[c])
  BY DEF StoveTypeOK, Revoke
<1>3. StoveTypeOK'
  BY <1>1, <1>2 DEF StoveTypeOK, Revoke
<1>4. NoFetchWhileFresh'
  BY DEF NoFetchWhileFresh, Revoke, Holds
<1>5. CacheOutlives'
  BY <1>1, <1>2 DEF CacheOutlives, Counted, Revoke
<1>6. AnswersAge' /\ UsesOutlive'
  BY <1>1, <1>2 DEF AnswersAge, UsesOutlive, Counted, Revoke
<1> QED BY <1>3, <1>4, <1>5, <1>6

LEMMA RestartKeeps ==
  ASSUME StoveInv, Restart
  PROVE  StoveInv'
<1> USE Numbers DEF Restart
<1>1. StoveTypeOK'
  BY DEF StoveTypeOK, Phases
<1>2. NoFetchWhileFresh' /\ CacheOutlives' /\ AnswersAge' /\ UsesOutlive'
  BY DEF NoFetchWhileFresh, CacheOutlives, AnswersAge, UsesOutlive
<1> QED BY <1>1, <1>2 DEF StoveInv

(* A tick takes one off every life, off the expiry, and adds one to every    *)
(* call, which has not timed out.                                            *)
LEMMA TickKeeps ==
  ASSUME StoveInv, Tick
  PROVE  StoveInv'
<1> USE Numbers DEF StoveInv
<1>1. \A n \in Nat : Less(n) \in Nat /\ Less(n) >= n - 1
        /\ (Less(n) > 0 => Less(n) = n - 1 /\ n > 0)
  BY DEF Less
<1>2. \A t \in Tokens : Older(t) \in Tokens /\ Older(t).left = Less(t.left)
        /\ Older(t).stated = t.stated /\ Older(t).revoked = t.revoked
        /\ t.left \in Nat /\ t.stated \in Nat
  BY <1>1 DEF Tokens, Older
<1>3. cache \in Tokens /\ cache' = Older(cache) /\ fresh' = Less(fresh)
      /\ fresh \in Nat /\ UNCHANGED <<queue, phase, step>>
  BY DEF StoveTypeOK, Tick
<1>4. ASSUME NEW c \in Calls
      PROVE  /\ token[c] \in Tokens /\ token'[c] = Older(token[c])
             /\ busy[c] \in 0..Timeout
             /\ phase[c] \in InHTTP => busy[c] < Timeout /\ busy'[c] = busy[c] + 1
             /\ phase[c] \notin InHTTP => busy'[c] = busy[c]
  BY DEF StoveTypeOK, Tick
<1>5. StoveTypeOK'
  <2>1. cache' \in Tokens /\ fresh' \in Nat /\ token' \in [Calls -> Tokens]
    BY <1>1, <1>2, <1>3, <1>4 DEF Tick
  <2>2. \A c \in Calls : busy'[c] \in 0..Timeout
    BY <1>4
  <2>3. busy' \in [Calls -> 0..Timeout]
    BY <2>2 DEF Tick
  <2>4. waited' \in [Calls -> Nat]
    <3>1. \A c \in Calls : waited[c] \in Nat
      BY DEF StoveTypeOK
    <3> QED BY <3>1 DEF Tick
  <2> QED BY <1>3, <2>1, <2>3, <2>4 DEF StoveTypeOK
<1>6. NoFetchWhileFresh'
  BY <1>1, <1>3 DEF NoFetchWhileFresh, Holds, Less
<1>7. CacheOutlives'
  BY <1>1, <1>2, <1>3 DEF CacheOutlives, Counted
<1>8. AnswersAge'
  <2> SUFFICES ASSUME NEW c \in Calls, phase'[c] = "issued", Counted(token'[c])
      PROVE  token'[c].left >= token'[c].stated - busy'[c]
    BY DEF AnswersAge, Counted
  <2>1. phase[c] = "issued" /\ phase[c] \in InHTTP
    BY <1>3 DEF InHTTP
  <2>2. Counted(token[c]) /\ token'[c].stated = token[c].stated
        /\ token'[c].left = Less(token[c].left) /\ token[c].left \in Nat
    BY <1>2, <1>4 DEF Counted
  <2>3. token[c].left >= token[c].stated - busy[c]
    BY <2>1, <2>2 DEF AnswersAge
  <2> QED BY <1>1, <1>2, <1>4, <2>1, <2>2, <2>3
<1>9. UsesOutlive'
  <2> SUFFICES ASSUME NEW c \in Calls, phase'[c] = "using", Counted(token'[c])
      PROVE  token'[c].left >= 1 + Margin - Timeout - busy'[c]
    BY DEF UsesOutlive, Counted
  <2>1. phase[c] = "using" /\ phase[c] \in InHTTP
    BY <1>3 DEF InHTTP
  <2>2. Counted(token[c])
        /\ token'[c].left = Less(token[c].left) /\ token[c].left \in Nat
    BY <1>2, <1>4 DEF Counted
  <2>3. token[c].left >= 1 + Margin - Timeout - busy[c]
    BY <2>1, <2>2 DEF UsesOutlive
  <2> QED BY <1>1, <1>4, <2>1, <2>2, <2>3
<1> QED BY <1>5, <1>6, <1>7, <1>8, <1>9

LEMMA NextKeeps == StoveInv /\ [Next]_vars => StoveInv'
<1> SUFFICES ASSUME StoveInv, [Next]_vars PROVE StoveInv'
  OBVIOUS
<1>1. ASSUME NEW c \in Calls,
             SignIn(c) \/ Lookup(c) \/ Issue(c) \/ HTTPEnds(c)
      PROVE  StoveInv'
  BY <1>1, SignInKeeps, LookupKeeps, IssueKeeps, FetchedKeeps, FetchFailsKeeps,
     VerifiedKeeps, EndedKeeps DEF HTTPEnds
<1>2. CASE UNCHANGED vars
  BY <1>2 DEF vars, StoveInv, StoveTypeOK, NoFetchWhileFresh, Holds,
     CacheOutlives, AnswersAge, UsesOutlive, Counted
<1> QED BY <1>1, <1>2, RevokeKeeps, RestartKeeps, TickKeeps DEF Next

(* The inductive invariant of getServerAccessToken and its callers.          *)
THEOREM StoveInvariance == Spec => []StoveInv
BY InitStoveInv, NextKeeps, PTL DEF Spec

(* Types.                                                                    *)
THEOREM StoveTypeCorrect == Spec => []StoveTypeOK
<1>1. StoveInv => StoveTypeOK
  BY DEF StoveInv
<1> QED BY <1>1, StoveInvariance, PTL

(* One fetch at a time, and none while the cache is good.                    *)
THEOREM FetchExclusion == Spec => []NoFetchWhileFresh
<1>1. StoveInv => NoFetchWhileFresh
  BY DEF StoveInv
<1> QED BY <1>1, StoveInvariance, PTL

(* refreshBefore covers the delay of the token's answer and of its use:      *)
(* every token sent is alive when the call that carries it ends.             *)
THEOREM ServerTokenAlive == Spec => []TokenAliveOnArrival
<1>1. StoveInv => TokenAliveOnArrival
  <2> SUFFICES ASSUME StoveInv, NEW c \in Calls, phase[c] = "using",
                      Counted(token[c])
      PROVE  token[c].left > 0
    BY DEF TokenAliveOnArrival, Counted
  <2>1. token[c].left >= 1 + Margin - Timeout - busy[c]
    BY DEF StoveInv, UsesOutlive
  <2>2. busy[c] \in 0..Timeout /\ token[c].left \in Nat
    BY DEF StoveInv, StoveTypeOK, Tokens
  <2> QED BY <2>1, <2>2, Numbers
<1> QED BY <1>1, StoveInvariance, PTL

(*****************************************************************************)
(* The queue.  LineInv is inductive as well: everyone in the queue moves up  *)
(* when the head leaves, which it does within a timeout.                     *)
(*****************************************************************************)

(* Products, as far as Turn needs them.                                      *)
LEMMA Multiples ==
  /\ \A t, n \in Int : t * n = t * (n - 1) + t /\ t * n \in Int
  /\ \A t, n \in Nat : t * n >= 0
  /\ \A t, m, n \in Int : t * m - t * n = t * (m - n)
<1>1. \A t, n \in Int : t * (n - 1) = t * n - t
  BY Z3
<1>2. \A t, n \in Int : t * n \in Int /\ t * n = (t * n - t) + t
  OBVIOUS
<1>3. \A t, n \in Nat : t * n >= 0
  OBVIOUS
<1>4. \A t, m, n \in Int : t * m - t * n = t * (m - n)
  OBVIOUS
<1> QED BY <1>1, <1>2, <1>3, <1>4

(* A place further down the queue is a timeout more.                         *)
LEMMA Turns ==
  /\ Cardinality(Calls) \in Nat
  /\ \A i \in Int : Turn(i) \in Int /\ Turn(i) = Turn(i + 1) + Timeout
  /\ \A i \in Int : i <= Cardinality(Calls) => Turn(i) >= 0
  /\ \A i, j \in Int : i <= j => Turn(j) <= Turn(i)
<1>1. Cardinality(Calls) \in Nat
  BY StoveAssumption, FS_CardinalityType
<1>2. Timeout \in Nat
  BY StoveAssumption
<1>3. ASSUME NEW i \in Int
      PROVE  Turn(i) \in Int /\ Turn(i) = Turn(i + 1) + Timeout
             /\ (i <= Cardinality(Calls) => Turn(i) >= 0)
  <2> DEFINE n == Cardinality(Calls) - i
  <2>1. n \in Int /\ n - 1 = Cardinality(Calls) - (i + 1)
        /\ (i <= Cardinality(Calls) => n >= 0)
    BY <1>1
  <2> HIDE DEF n
  <2>2. Turn(i) = Timeout * n /\ Turn(i + 1) = Timeout * (n - 1)
    BY <2>1 DEF Turn, n
  <2>3. Timeout * n = Timeout * (n - 1) + Timeout /\ Timeout * n \in Int
    BY <1>2, <2>1, Multiples
  <2>4. n >= 0 => Timeout * n >= 0
    <3>1. n >= 0 => n \in Nat
      BY <2>1
    <3> QED BY <1>2, <3>1, Multiples
  <2> QED BY <2>1, <2>2, <2>3, <2>4
<1>4. ASSUME NEW i \in Int, NEW j \in Int, i <= j
      PROVE  Turn(j) <= Turn(i)
  <2> DEFINE m == Cardinality(Calls) - i
             n == Cardinality(Calls) - j
  <2>1. m \in Int /\ n \in Int /\ m - n = j - i /\ j - i \in Nat
    BY <1>1, <1>4
  <2>2. Turn(i) = Timeout * m /\ Turn(j) = Timeout * n
    BY DEF Turn
  <2> HIDE DEF m, n
  <2>3. Timeout * m - Timeout * n = Timeout * (m - n)
        /\ Timeout * m \in Int /\ Timeout * n \in Int
    BY <1>2, <2>1, Multiples
  <2>4. Timeout * (m - n) >= 0
    BY <1>2, <2>1, Multiples
  <2> QED BY <2>2, <2>3, <2>4
<1> QED BY <1>1, <1>3, <1>4

(* A queue without repetitions is no longer than there are calls.            *)
LEMMA NoLonger ==
  ASSUME NEW s \in Seq(Calls),
         \A i, j \in 1..Len(s) : s[i] = s[j] => i = j
  PROVE  Len(s) <= Cardinality(Calls)
<1>1. s \in [1..Len(s) -> Calls] /\ DOMAIN s = 1..Len(s) /\ Len(s) \in Nat
  BY LenProperties
<1>2. s \in Injection(1..Len(s), Calls)
  BY <1>1 DEF Injection, IsInjective
<1>3. Cardinality(1..Len(s)) <= Cardinality(Calls)
  BY <1>2, StoveAssumption, FS_Injection
<1>4. Cardinality(1..Len(s)) = Len(s)
  <2> DEFINE n == Len(s)
  <2>1. 1 \in Int /\ n \in Int /\ n \in Nat
    BY <1>1
  <2> HIDE DEF n
  <2>2. Cardinality(1..n) = IF 1 > n THEN 0 ELSE n - 1 + 1
    BY <2>1, FS_Interval, Zenon
  <2>3. Cardinality(1..n) = n
    BY <2>1, <2>2
  <2> QED BY <2>3 DEF n
<1> QED BY <1>3, <1>4

(* Types of what the queue is made of.                                       *)
LEMMA LineTypes ==
  ASSUME StoveInv
  PROVE  /\ queue \in Seq(Calls) /\ Len(queue) \in Nat
         /\ \A i \in 1..Len(queue) : queue[i] \in Calls
         /\ queue # << >> => Len(queue) > 0 /\ Head(queue) = queue[1]
         /\ Len(queue) > 0 => queue # << >>
         /\ phase \in [Calls -> Phases]
         /\ \A c \in Calls : waited[c] \in Nat /\ busy[c] \in 0..Timeout
<1>1. queue \in Seq(Calls)
  BY DEF StoveInv, StoveTypeOK
<1>2. Len(queue) \in Nat /\ \A i \in 1..Len(queue) : queue[i] \in Calls
  BY <1>1, LenProperties, ElementOfSeq
<1>3. /\ queue # << >> => Len(queue) > 0 /\ Head(queue) = queue[1]
      /\ Len(queue) > 0 => queue # << >>
  BY <1>1, EmptySeq
<1> QED BY <1>1, <1>2, <1>3 DEF StoveInv, StoveTypeOK

(* Nobody in the queue is idle or using a token.                             *)
LEMMA NotInLine ==
  ASSUME InLine, NEW c, phase[c] \in {"idle", "using"}, NEW i \in 1..Len(queue)
  PROVE  queue[i] # c
BY DEF InLine

(* A call that was not in the queue goes to its end.                         *)
LEMMA JoinKeepsLine ==
  ASSUME LineInv, NEW c \in Calls, Enter(c), phase[c] \in {"idle", "using"}
  PROVE  InLine' /\ WaitsInTurn'
<1> DEFINE n == Len(queue)
<1>1. StoveInv /\ InLine /\ WaitsInTurn
  BY DEF LineInv
<1>2. queue \in Seq(Calls) /\ n \in Nat /\ \A i \in 1..n : queue[i] \in Calls
  BY <1>1, LineTypes
<1>3. /\ queue' \in Seq(Calls) /\ Len(queue') = n + 1
      /\ \A i \in 1..n : queue'[i] = queue[i]
      /\ queue'[n + 1] = c
  BY <1>2, AppendProperties DEF Enter
<1>4. \A i \in 1..n : queue[i] # c
  BY <1>1, NotInLine
<1>5. /\ phase'[c] = "queued" /\ busy'[c] = 0 /\ waited'[c] = 0
      /\ \A d \in Calls \ {c} : /\ phase'[d] = phase[d] /\ busy'[d] = busy[d]
                                /\ waited'[d] = waited[d]
  BY <1>1 DEF Enter, StoveInv, StoveTypeOK
<1>6. \A i \in 1..n : /\ queue'[i] \in Calls \ {c}
                      /\ queue'[i] = queue[i]
  BY <1>2, <1>3, <1>4
<1>7. \A i, j \in 1..Len(queue') : queue'[i] = queue'[j] => i = j
  <2> SUFFICES ASSUME NEW i \in 1..(n + 1), NEW j \in 1..(n + 1),
                      queue'[i] = queue'[j]
      PROVE  i = j
    BY <1>3
  <2>1. CASE i \in 1..n /\ j \in 1..n
    BY <1>1, <1>6, <2>1 DEF InLine
  <2>2. CASE ~(i \in 1..n /\ j \in 1..n)
    BY <1>2, <1>3, <1>6, <2>2
  <2> QED BY <2>1, <2>2
<1>8. InLine'
  <2>1. ASSUME NEW i \in 1..(n + 1)
        PROVE  phase'[queue'[i]] \in {"queued"} \cup
                 (IF i = 1 THEN {"fetching", "issued"} ELSE {})
    <3>1. CASE i \in 1..n
      BY <1>1, <1>5, <1>6, <3>1 DEF InLine
    <3>2. CASE i = n + 1
      BY <1>3, <1>5, <3>2
    <3> QED BY <1>2, <3>1, <3>2
  <2>2. ASSUME NEW d \in Calls, phase'[d] = "queued"
        PROVE  busy'[d] = 0 /\ \E i \in 1..(n + 1) : queue'[i] = d
    <3>1. CASE d = c
      BY <1>2, <1>3, <1>5, <3>1
    <3>2. CASE d # c
      <4>1. phase[d] = "queued" /\ busy'[d] = busy[d]
        BY <1>5, <2>2, <3>2
      <4>2. PICK i \in 1..n : queue[i] = d
        BY <1>1, <4>1 DEF InLine
      <4>3. busy'[d] = 0 /\ i \in 1..(n + 1) /\ queue'[i] = d
        BY <1>1, <1>2, <1>6, <4>1, <4>2 DEF InLine
      <4> QED BY <4>3
    <3> QED BY <3>1, <3>2
  <2> QED BY <1>3, <1>7, <2>1, <2>2 DEF InLine
<1>9. WaitsInTurn'
  <2> SUFFICES ASSUME NEW i \in 1..(n + 1), phase'[queue'[i]] = "queued"
      PROVE  waited'[queue'[i]] <= Turn(i) + busy'[queue'[1]]
    BY <1>3 DEF WaitsInTurn, Turn
  <2>1. CASE i \in 1..n
    <3>1. 1 \in 1..n /\ queue'[1] = queue[1] /\ busy'[queue'[1]] = busy[queue[1]]
      BY <1>2, <1>5, <1>6, <2>1
    <3>2. phase[queue[i]] = "queued" /\ waited'[queue'[i]] = waited[queue[i]]
      BY <1>5, <1>6, <2>1
    <3> QED BY <1>1, <2>1, <3>1, <3>2 DEF WaitsInTurn
  <2>2. CASE i = n + 1
    <3>1. n + 1 <= Cardinality(Calls)
      BY <1>3, <1>7, NoLonger
    <3>2. Turn(i) \in Int /\ Turn(i) >= 0
      BY <1>2, <2>2, <3>1, Turns
    <3>3. waited'[queue'[i]] = 0
      BY <1>3, <1>5, <2>2
    <3>4. queue'[1] \in Calls
      BY <1>2, <1>3, ElementOfSeq
    <3>5. busy'[queue'[1]] \in Nat
      BY <1>1, <1>5, <3>4, LineTypes
    <3> QED BY <3>2, <3>3, <3>5
  <2> QED BY <1>2, <2>1, <2>2
<1> QED BY <1>8, <1>9

(* The holder leaves: everyone moves up, and its timeout is behind them.     *)
LEMMA LeaveKeepsLine ==
  ASSUME LineInv, StoveInv', NEW c \in Calls, Holds(c), queue' = Tail(queue),
         phase'[c] \in {"idle", "using"},
         \A d \in Calls \ {c} : /\ phase'[d] = phase[d] /\ busy'[d] = busy[d]
                                /\ waited'[d] = waited[d]
  PROVE  InLine' /\ WaitsInTurn'
<1> DEFINE n == Len(queue)
<1>1. StoveInv /\ InLine /\ WaitsInTurn
  BY DEF LineInv
<1>2. queue \in Seq(Calls) /\ n \in Nat /\ \A i \in 1..n : queue[i] \in Calls
  BY <1>1, LineTypes
<1>3. n > 0 /\ queue[1] = c
  BY <1>1, LineTypes DEF Holds
<1>4. /\ Len(queue') = n - 1
      /\ \A i \in 1..(n - 1) : queue'[i] = queue[i + 1]
  BY <1>2, HeadTailProperties DEF Holds
<1>5. ASSUME NEW i \in 1..(n - 1)
      PROVE  /\ i + 1 \in 1..n /\ queue'[i] = queue[i + 1]
             /\ queue[i + 1] \in Calls \ {c}
             /\ phase[queue[i + 1]] = "queued"
  <2>1. i + 1 \in 1..n /\ i + 1 # 1 /\ 1 \in 1..n
    BY <1>2, <1>3
  <2>2. queue[i + 1] # c
    BY <1>1, <1>3, <2>1 DEF InLine
  <2>3. phase[queue[i + 1]] = "queued"
    BY <1>1, <2>1 DEF InLine
  <2> QED BY <1>2, <1>4, <2>1, <2>2, <2>3
<1>6. InLine'
  <2>1. ASSUME NEW i \in 1..(n - 1), NEW j \in 1..(n - 1), queue'[i] = queue'[j]
        PROVE  i = j
    <3>1. i + 1 = j + 1
      BY <1>1, <1>5, <2>1 DEF InLine
    <3> QED BY <1>2, <3>1
  <2>2. \A i \in 1..(n - 1) : phase'[queue'[i]] = "queued"
    BY <1>5
  <2>3. ASSUME NEW d \in Calls, phase'[d] = "queued"
        PROVE  busy'[d] = 0 /\ \E i \in 1..(n - 1) : queue'[i] = d
    <3>1. d # c
      BY <2>3
    <3>2. phase[d] = "queued" /\ busy'[d] = busy[d]
      BY <2>3, <3>1
    <3>3. busy[d] = 0 /\ \E i \in 1..n : queue[i] = d
      BY <1>1, <3>2 DEF InLine
    <3>4. PICK i \in 1..n : queue[i] = d
      BY <3>3
    <3>5. i - 1 \in 1..(n - 1) /\ (i - 1) + 1 = i
      BY <1>2, <1>3, <3>1, <3>4
    <3>6. queue'[i - 1] = d
      BY <1>5, <3>4, <3>5
    <3> QED BY <3>2, <3>3, <3>5, <3>6
  <2> QED BY <1>4, <2>1, <2>2, <2>3 DEF InLine
<1>7. WaitsInTurn'
  <2> SUFFICES ASSUME NEW i \in 1..(n - 1)
      PROVE  waited'[queue'[i]] <= Turn(i) + busy'[queue'[1]]
    BY <1>4 DEF WaitsInTurn, Turn
  <2>1. waited[queue[i + 1]] <= Turn(i + 1) + busy[c]
    BY <1>1, <1>3, <1>5 DEF WaitsInTurn
  <2>2. waited'[queue'[i]] = waited[queue[i + 1]] /\ waited[queue[i + 1]] \in Nat
    BY <1>1, <1>5, LineTypes
  <2>3. busy[c] \in 0..Timeout
    BY <1>1, LineTypes
  <2>4. queue'[1] \in Calls
    <3>1. 1 \in 1..(n - 1)
      BY <1>2
    <3> QED BY <1>5, <3>1
  <2>5. busy'[queue'[1]] \in Nat
    BY <2>4 DEF StoveInv, StoveTypeOK
  <2>6. Turn(i) \in Int /\ Turn(i + 1) \in Int /\ Turn(i) = Turn(i + 1) + Timeout
    <3>1. i \in Int /\ i + 1 \in Int
      BY <1>2
    <3> QED BY <3>1, Turns
  <2> DEFINE w == waited[queue[i + 1]]
             a == busy'[queue'[1]]
             b == busy[c]
             t == Turn(i)
             u == Turn(i + 1)
             most == Timeout
  <2>7. w <= u + b /\ t = u + most /\ a \in Nat /\ t \in Int /\ u \in Int
    BY <2>1, <2>5, <2>6
  <2>8. w \in Nat /\ most \in Nat /\ b \in 0..most
    BY <2>2, <2>3, Numbers
  <2> HIDE DEF w, a, b, t, u, most
  <2>9. w <= t + a
    BY <2>7, <2>8
  <2> QED BY <2>2, <2>9 DEF w, a, t
<1> QED BY <1>6, <1>7

(* The queue stays, and those in it who wait go on waiting.                  *)
LEMMA StayKeepsLine ==
  ASSUME LineInv, UNCHANGED queue,
         \A d \in Calls : phase[d] \in {"queued", "fetching", "issued"} =>
           \/ phase'[d] = phase[d]
           \/ Holds(d) /\ phase'[d] \in {"fetching", "issued"},
         \A d \in Calls : phase'[d] = "queued" => phase[d] = "queued",
         \A d \in Calls : phase[d] \in {"queued", "fetching", "issued"} =>
           busy'[d] = busy[d] /\ waited'[d] = waited[d]
  PROVE  InLine' /\ WaitsInTurn'
<1>1. StoveInv /\ InLine /\ WaitsInTurn
  BY DEF LineInv
<1>2. /\ Len(queue) \in Nat
      /\ \A i \in 1..Len(queue) : queue[i] \in Calls
      /\ \A d : Holds(d) => d = queue[1] /\ 1 \in 1..Len(queue)
  BY <1>1, LineTypes DEF Holds
<1>3. ASSUME NEW i \in 1..Len(queue)
      PROVE  /\ phase'[queue[i]] \in {"queued"} \cup
                  (IF i = 1 THEN {"fetching", "issued"} ELSE {})
             /\ busy'[queue[i]] = busy[queue[i]]
             /\ waited'[queue[i]] = waited[queue[i]]
  <2>1. queue[i] \in Calls /\ phase[queue[i]] \in {"queued"} \cup
                                (IF i = 1 THEN {"fetching", "issued"} ELSE {})
    BY <1>1, <1>2 DEF InLine
  <2>2. Holds(queue[i]) => i = 1
    BY <1>1, <1>2 DEF InLine
  <2> QED BY <2>1, <2>2
<1>4. InLine'
  <2>1. ASSUME NEW d \in Calls, phase'[d] = "queued"
        PROVE  busy'[d] = 0 /\ \E i \in 1..Len(queue) : queue[i] = d
    <3>1. phase[d] = "queued" /\ busy'[d] = busy[d]
      BY <2>1
    <3> QED BY <1>1, <3>1 DEF InLine
  <2>2. queue' = queue
    OBVIOUS
  <2>3. \A i, j \in 1..Len(queue) : queue[i] = queue[j] => i = j
    BY <1>1 DEF InLine
  <2>4. \A i \in 1..Len(queue) :
          phase'[queue[i]] \in {"queued"} \cup
             (IF i = 1 THEN {"fetching", "issued"} ELSE {})
    BY <1>3
  <2> QED BY <2>1, <2>2, <2>3, <2>4 DEF InLine
<1>5. WaitsInTurn'
  <2> SUFFICES ASSUME NEW i \in 1..Len(queue), phase'[queue[i]] = "queued"
      PROVE  waited'[queue[i]] <= Turn(i) + busy'[queue[1]]
    BY DEF WaitsInTurn, Turn
  <2>1. phase[queue[i]] = "queued" /\ 1 \in 1..Len(queue)
    BY <1>2
  <2> QED BY <1>1, <1>3, <2>1 DEF WaitsInTurn
<1> QED BY <1>4, <1>5

LEMMA LookupKeepsLine ==
  ASSUME LineInv, StoveInv', NEW c \in Calls, Lookup(c)
  PROVE  InLine' /\ WaitsInTurn'
<1>1. /\ phase \in [Calls -> Phases] /\ Holds(c) /\ phase[c] = "queued"
      /\ UNCHANGED <<busy, waited>>
      /\ \A d \in Calls \ {c} : phase'[d] = phase[d]
  BY DEF LineInv, StoveInv, StoveTypeOK, Lookup
<1>2. CASE fresh > 0
  <2>1. queue' = Tail(queue) /\ phase'[c] = "using"
    BY <1>1, <1>2 DEF Lookup
  <2> QED BY <1>1, <2>1, LeaveKeepsLine
<1>3. CASE ~(fresh > 0)
  <2>1. queue' = queue /\ phase'[c] = "fetching"
    BY <1>1, <1>3 DEF Lookup
  <2> QED BY <1>1, <2>1, StayKeepsLine
<1> QED BY <1>2, <1>3

LEMMA IssueKeepsLine ==
  ASSUME LineInv, NEW c \in Calls, Issue(c)
  PROVE  InLine' /\ WaitsInTurn'
<1>1. /\ phase \in [Calls -> Phases] /\ Holds(c)
      /\ UNCHANGED <<queue, busy, waited>>
      /\ phase'[c] = "issued" /\ \A d \in Calls \ {c} : phase'[d] = phase[d]
  BY DEF LineInv, StoveInv, StoveTypeOK, NoFetchWhileFresh, Issue
<1> QED BY <1>1, StayKeepsLine

LEMMA FetchedKeepsLine ==
  ASSUME LineInv, StoveInv', NEW c \in Calls, Fetched(c) \/ FetchFails(c)
  PROVE  InLine' /\ WaitsInTurn'
<1>1. /\ Holds(c) /\ queue' = Tail(queue) /\ phase'[c] \in {"idle", "using"}
      /\ \A d \in Calls \ {c} : /\ phase'[d] = phase[d] /\ busy'[d] = busy[d]
                                /\ waited'[d] = waited[d]
  BY DEF LineInv, StoveInv, StoveTypeOK, NoFetchWhileFresh, Fetched, FetchFails
<1> QED BY <1>1, LeaveKeepsLine

LEMMA EndedKeepsLine ==
  ASSUME LineInv, NEW c \in Calls, Ended(c)
  PROVE  InLine' /\ WaitsInTurn'
<1>1. /\ UNCHANGED queue /\ phase[c] = "using" /\ phase'[c] = "idle"
      /\ \A d \in Calls \ {c} : /\ phase'[d] = phase[d] /\ busy'[d] = busy[d]
                                /\ waited'[d] = waited[d]
  BY DEF LineInv, StoveInv, StoveTypeOK, Ended
<1> QED BY <1>1, StayKeepsLine

LEMMA RestartKeepsLine ==
  ASSUME Restart
  PROVE  InLine' /\ WaitsInTurn'
<1>1. queue' = << >> /\ Len(queue') = 0 /\ \A c \in Calls : phase'[c] = "idle"
  BY DEF Restart
<1> QED BY <1>1 DEF InLine, WaitsInTurn

(* A tick passes only if the holder of the lock waits for HTTP, so what it   *)
(* takes and what the others wait grow together.                             *)
LEMMA TickKeepsLine ==
  ASSUME LineInv, Tick
  PROVE  InLine' /\ WaitsInTurn'
<1>1. StoveInv /\ InLine /\ WaitsInTurn
  BY DEF LineInv
<1>2. /\ Len(queue) \in Nat /\ \A i \in 1..Len(queue) : queue[i] \in Calls
      /\ queue # << >> => Head(queue) = queue[1]
      /\ Len(queue) > 0 => queue # << >>
  BY <1>1, LineTypes
<1>3. queue' = queue /\ phase' = phase
  BY DEF Tick
<1>4. ASSUME NEW d \in Calls
      PROVE  /\ busy[d] \in Nat /\ waited[d] \in Nat
             /\ busy'[d] = busy[d] + IF phase[d] \in InHTTP THEN 1 ELSE 0
             /\ waited'[d] = waited[d] + IF phase[d] = "queued" THEN 1 ELSE 0
  BY <1>1 DEF Tick, StoveInv, StoveTypeOK
<1>5. InLine'
  <2>1. \A d \in Calls : phase[d] = "queued" => busy'[d] = busy[d]
    BY <1>4 DEF InHTTP
  <2> QED BY <1>1, <1>3, <2>1 DEF InLine
<1>6. WaitsInTurn'
  <2> SUFFICES ASSUME NEW i \in 1..Len(queue), phase[queue[i]] = "queued"
      PROVE  waited'[queue[i]] <= Turn(i) + busy'[queue[1]]
    BY <1>3 DEF WaitsInTurn, Turn
  <2>1. 1 \in 1..Len(queue) /\ queue[1] \in Calls /\ Holds(queue[1])
    BY <1>2 DEF Holds
  <2>2. phase[queue[1]] \in {"fetching", "issued"}
    <3>1. phase[queue[1]] \in {"queued", "fetching", "issued"}
      BY <1>1, <2>1 DEF InLine
    <3>2. phase[queue[1]] # "queued"
      BY <2>1 DEF Tick
    <3> QED BY <3>1, <3>2
  <2>3. busy'[queue[1]] = busy[queue[1]] + 1 /\ busy[queue[1]] \in Nat
    BY <1>4, <2>1, <2>2 DEF InHTTP
  <2>4. waited'[queue[i]] = waited[queue[i]] + 1 /\ waited[queue[i]] \in Nat
    BY <1>2, <1>4
  <2>5. waited[queue[i]] <= Turn(i) + busy[queue[1]]
    BY <1>1 DEF WaitsInTurn
  <2>6. Turn(i) \in Int
    BY Turns
  <2> QED BY <2>3, <2>4, <2>5, <2>6
<1> QED BY <1>5, <1>6

LEMMA InitLineInv == Init => LineInv
<1> SUFFICES ASSUME Init PROVE LineInv
  OBVIOUS
<1>1. queue = << >> /\ Len(queue) = 0 /\ \A c \in Calls : phase[c] = "idle"
  BY DEF Init
<1>2. InLine /\ WaitsInTurn
  BY <1>1 DEF InLine, WaitsInTurn
<1> QED BY <1>2, InitStoveInv DEF LineInv

LEMMA NextKeepsLine == LineInv /\ [Next]_vars => LineInv'
<1> SUFFICES ASSUME LineInv, [Next]_vars PROVE LineInv'
  OBVIOUS
<1>1. StoveInv'
  BY NextKeeps DEF LineInv
<1>2. ASSUME NEW c \in Calls,
             SignIn(c) \/ Lookup(c) \/ Issue(c) \/ HTTPEnds(c)
      PROVE  InLine' /\ WaitsInTurn'
  <2>1. CASE SignIn(c) \/ Verified(c)
    BY <2>1, JoinKeepsLine DEF SignIn, Verified
  <2>2. CASE Lookup(c)
    BY <1>1, <2>2, LookupKeepsLine
  <2>3. CASE Issue(c)
    BY <2>3, IssueKeepsLine
  <2>4. CASE Fetched(c) \/ FetchFails(c)
    BY <1>1, <2>4, FetchedKeepsLine
  <2>5. CASE Ended(c)
    BY <2>5, EndedKeepsLine
  <2> QED BY <1>2, <2>1, <2>2, <2>3, <2>4, <2>5 DEF HTTPEnds
<1>3. ASSUME Revoke \/ UNCHANGED vars
      PROVE  InLine' /\ WaitsInTurn'
  <2>1. UNCHANGED <<queue, phase, busy, waited>>
    BY <1>3 DEF Revoke, vars
  <2>2. UNCHANGED queue
    BY <2>1
  <2>3. \A d \in Calls : phase'[d] = phase[d] /\ busy'[d] = busy[d]
                         /\ waited'[d] = waited[d]
    BY <2>1
  <2>4. /\ \A d \in Calls : phase[d] \in {"queued", "fetching", "issued"} =>
             \/ phase'[d] = phase[d]
             \/ Holds(d) /\ phase'[d] \in {"fetching", "issued"}
        /\ \A d \in Calls : phase'[d] = "queued" => phase[d] = "queued"
        /\ \A d \in Calls : phase[d] \in {"queued", "fetching", "issued"} =>
             busy'[d] = busy[d] /\ waited'[d] = waited[d]
    BY <2>3
  <2> QED BY <2>2, <2>4, StayKeepsLine
<1>4. InLine' /\ WaitsInTurn'
  <2>1. CASE Restart
    BY <2>1, RestartKeepsLine
  <2>2. CASE Tick
    BY <2>2, TickKeepsLine
  <2>3. Next \/ UNCHANGED vars
    OBVIOUS
  <2> QED BY <1>2, <1>3, <2>1, <2>2, <2>3 DEF Next
<1> QED BY <1>1, <1>4 DEF LineInv

(* The order of the queue at tokenMu, and what it costs to wait in it.       *)
THEOREM LineInvariance == Spec => []LineInv
BY InitLineInv, NextKeepsLine, PTL DEF Spec

(* However many players sign in while Stove does not answer, each waits for  *)
(* at most a timeout per sign-in before it.                                  *)
THEOREM WaitIsBounded == Spec => []WaitBound
<1>1. LineInv => WaitBound
  <2> SUFFICES ASSUME LineInv, NEW c \in Calls, phase[c] = "queued"
      PROVE  waited[c] <= Timeout * (Cardinality(Calls) - 1)
    BY DEF WaitBound
  <2>1. StoveInv /\ InLine /\ WaitsInTurn
    BY DEF LineInv
  <2>2. PICK i \in 1..Len(queue) : queue[i] = c
    BY <2>1 DEF InLine
  <2>3. waited[c] <= Turn(i) + busy[queue[1]] /\ busy[c] = 0
    BY <2>1, <2>2 DEF WaitsInTurn, InLine
  <2>4. Len(queue) \in Nat /\ 1 \in 1..Len(queue) /\ queue[1] \in Calls
        /\ busy[queue[1]] \in 0..Timeout /\ waited[c] \in Nat
    <3>1. Len(queue) \in Nat /\ 1 \in 1..Len(queue)
      BY <2>1, <2>2, LineTypes
    <3> QED BY <2>1, <3>1, LineTypes
  <2>5. waited[c] <= Turn(1)
    <3>1. CASE i = 1
      <4>1. waited[c] <= Turn(1) + 0
        BY <2>2, <2>3, <3>1
      <4>2. Turn(1) \in Int
        BY Turns
      <4> QED BY <4>1, <4>2
    <3>2. CASE i > 1
      <4>1. Turn(i) <= Turn(2) /\ Turn(1) = Turn(2) + Timeout
            /\ Turn(1) \in Int /\ Turn(2) \in Int /\ Turn(i) \in Int
        <5>1. 1 \in Int /\ 2 \in Int /\ i \in Int /\ 2 <= i /\ 1 + 1 = 2
          BY <3>2
        <5> QED BY <5>1, Turns
      <4> DEFINE w == waited[c]
                 b == busy[queue[1]]
                 t == Turn(i)
                 u == Turn(2)
                 v == Turn(1)
                 most == Timeout
      <4>2. w <= t + b /\ t <= u /\ v = u + most
            /\ t \in Int /\ u \in Int /\ v \in Int
        BY <2>3, <4>1
      <4>3. w \in Nat /\ most \in Nat /\ b \in 0..most
        BY <2>4, Numbers
      <4> HIDE DEF w, b, t, u, v, most
      <4>4. w <= v
        BY <4>2, <4>3
      <4> QED BY <4>4 DEF w, v
    <3> QED BY <2>4, <3>1, <3>2
  <2> QED BY <2>5 DEF Turn
<1> QED BY <1>1, LineInvariance, PTL
===============================================================================
