----------------------------- MODULE HmacProofs -----------------------------
(***************************************************************************)
(* HMAC verification: the gate that decides about requests, and the window *)
(* of time that makes one nonce pass it once. GateInv is inductive: every  *)
(* answer is given, and every request passed on, by one of two operators,  *)
(* so each action's share is to show that what it hands to them is in      *)
(* order. WindowInv is inductive: by the time that a nonce may be          *)
(* forgotten, the last copy that passed the clock has its answer from      *)
(* Redis.                                                                  *)
(***************************************************************************)
EXTENDS HmacGate, NonceWindow, TLAPS

LEMMA NoReqIsReq == NoReq \in Reqs
BY DEF NoReq, Reqs

\* At first there is no session and no request.
LEMMA InitKeeps == GateInit => GateInv
<1> SUFFICES ASSUME GateInit PROVE GateInv
  OBVIOUS
<1> USE NoReqIsReq DEF GateInit
<1>1. GateTypeOK
  BY DEF GateTypeOK, GateAnswers, NoReq
<1>2. VerifiedOnce /\ SignedHasSecret /\ NonceUnspent
  BY DEF VerifiedOnce, SignedHasSecret, NonceUnspent, NoReq
<1>3. SecretsInPairs /\ RefusedForCause
  BY DEF SecretsInPairs, RefusedForCause
<1> QED BY <1>1, <1>2, <1>3 DEF GateInv

\* An answer frees the client for its next request; if it is a refusal, the
\* cause has to be shown.
LEMMA AnsweredKeeps ==
  ASSUME GateInv, NEW u \in Users, NEW answer \in GateAnswers, NEW r \in Reqs,
         Answered(u, answer, r), UNCHANGED <<mode, session, key>>,
         answer = "refused" =>
           u \in Enforced /\ (r.signed => r.again \/ r.hurt)
  PROVE  GateInv'
<1> USE NoReqIsReq DEF GateInv
<1> DEFINE a == [answer |-> answer, req |-> IF answer = "refused" THEN r ELSE NoReq]
<1>1. /\ req' = [req EXCEPT ![u] = NoReq]
      /\ last' = [last EXCEPT ![u] = a]
      /\ tried' = [tried EXCEPT ![u] = TRUE]
  BY DEF Answered, ReqBecomes
<1>2. a \in [answer : GateAnswers, req : Reqs]
  OBVIOUS
<1>3. /\ NoReq.step = "idle"
      /\ NoReq.verified = 0
  BY DEF NoReq
<1>4. GateTypeOK'
  <2> HIDE DEF a
  <2> QED BY <1>1, <1>2, <1>3 DEF GateTypeOK
<1>5. VerifiedOnce' /\ SignedHasSecret' /\ NonceUnspent'
  BY <1>1, <1>3 DEF GateTypeOK, VerifiedOnce, SignedHasSecret, NonceUnspent
<1>6. SecretsInPairs'
  BY DEF SecretsInPairs
<1>7. RefusedForCause'
  BY <1>1 DEF GateTypeOK, RefusedForCause
<1> QED BY <1>4, <1>5, <1>6, <1>7

\* A request that goes on to the handler has been verified at most once, and
\* with its nonce spent.
LEMMA PassesKeeps ==
  ASSUME GateInv, NEW u \in Users, NEW r \in Reqs, Passes(u, r),
         UNCHANGED <<mode, session, key>>,
         r.signed <=> key[u],
         r.verified <= 1,
         r.verified > 0 => r.signed /\ r.spent
  PROVE  GateInv'
<1> USE DEF GateInv
<1> DEFINE q == [r EXCEPT !.step = "handle"]
<1>1. req' = [req EXCEPT ![u] = q] /\ UNCHANGED <<tried, last>>
  BY DEF Passes, ReqBecomes
<1>2. /\ q \in Reqs
      /\ q.step = "handle"
      /\ q.signed = r.signed /\ q.spent = r.spent /\ q.verified = r.verified
  BY DEF Reqs
<1> HIDE DEF q
<1>3. GateTypeOK'
  BY <1>1, <1>2 DEF GateTypeOK
<1>4. VerifiedOnce' /\ SignedHasSecret' /\ NonceUnspent'
  BY <1>1, <1>2 DEF GateTypeOK, VerifiedOnce, SignedHasSecret, NonceUnspent
<1>5. SecretsInPairs' /\ RefusedForCause'
  BY <1>1 DEF SecretsInPairs, RefusedForCause
<1> QED BY <1>3, <1>4, <1>5

\* A request that fails verification passes or is refused.
LEMMA FailsKeeps ==
  ASSUME GateInv, NEW u \in Users, NEW r \in Reqs, FailsVerification(u, r),
         UNCHANGED <<mode, session, key>>,
         r.signed <=> key[u],
         r.verified <= 1,
         r.verified > 0 => r.signed /\ r.spent,
         r.signed => r.again \/ r.hurt
  PROVE  GateInv'
<1>1. CASE ShouldEnforce(u)
  <2>1. Answered(u, "refused", r) /\ u \in Enforced
    BY <1>1 DEF FailsVerification, ShouldEnforce
  <2> QED BY <2>1, AnsweredKeeps DEF GateAnswers
<1>2. CASE ~ShouldEnforce(u)
  <2>1. Passes(u, r)
    BY <1>2 DEF FailsVerification
  <2> QED BY <2>1, PassesKeeps
<1> QED BY <1>1, <1>2

-----------------------------------------------------------------------------
\* Session and client get the secret together, and no request is under way.
LEMMA SignInKeeps ==
  ASSUME GateInv, NEW u \in Users, SignIn(u)
  PROVE  GateInv'
<1> USE DEF GateInv
<1> DEFINE k == IsIssuingSecret
<1>1. /\ req[u].step = "idle"
      /\ session' = [session EXCEPT ![u] = IF k THEN "keyed" ELSE "plain"]
      /\ key' = [key EXCEPT ![u] = k]
      /\ tried' = [tried EXCEPT ![u] = FALSE]
      /\ UNCHANGED <<mode, req, last>>
  BY DEF SignIn, Issued
<1>2. k \in BOOLEAN
  BY DEF IsIssuingSecret
<1> HIDE DEF k
<1>3. GateTypeOK'
  BY <1>1, <1>2 DEF GateTypeOK
<1>4. SecretsInPairs'
  BY <1>1, <1>2 DEF GateTypeOK, SecretsInPairs
<1>5. SignedHasSecret'
  BY <1>1 DEF GateTypeOK, SignedHasSecret
<1>6. VerifiedOnce' /\ NonceUnspent' /\ RefusedForCause'
  BY <1>1 DEF VerifiedOnce, NonceUnspent, RefusedForCause
<1> QED BY <1>3, <1>4, <1>5, <1>6

LEMMA ExpireKeeps ==
  ASSUME GateInv, NEW u \in Users, Expire(u)
  PROVE  GateInv'
<1> USE DEF GateInv
<1>1. /\ session' = [session EXCEPT ![u] = "none"]
      /\ UNCHANGED <<mode, key, tried, req, last>>
  BY DEF Expire
<1>2. GateTypeOK' /\ SecretsInPairs'
  BY <1>1 DEF GateTypeOK, SecretsInPairs
<1>3. VerifiedOnce' /\ SignedHasSecret' /\ NonceUnspent' /\ RefusedForCause'
  BY <1>1 DEF VerifiedOnce, SignedHasSecret, NonceUnspent, RefusedForCause
<1> QED BY <1>2, <1>3

\* A new request is signed if there is a key, with a nonce of its own.
LEMMA SendKeeps ==
  ASSUME GateInv, NEW u \in Users, Send(u)
  PROVE  GateInv'
<1> USE DEF GateInv
<1> DEFINE q == [NoReq EXCEPT !.step = "auth", !.signed = key[u]]
<1>1. /\ req' = [req EXCEPT ![u] = q]
      /\ UNCHANGED <<mode, session, key, tried, last>>
  BY DEF Send, ReqBecomes
<1>2. /\ q \in Reqs
      /\ q.step = "auth" /\ q.signed = key[u] /\ ~q.spent /\ q.verified = 0
  BY DEF NoReq, Reqs, GateTypeOK
<1> HIDE DEF q
<1>3. GateTypeOK'
  BY <1>1, <1>2 DEF GateTypeOK
<1>4. VerifiedOnce' /\ SignedHasSecret' /\ NonceUnspent'
  BY <1>1, <1>2 DEF GateTypeOK, VerifiedOnce, SignedHasSecret, NonceUnspent
<1>5. SecretsInPairs' /\ RefusedForCause'
  BY <1>1 DEF SecretsInPairs, RefusedForCause
<1> QED BY <1>3, <1>4, <1>5

\* The session check finds the secret of a request that is signed.
LEMMA AuthKeeps ==
  ASSUME GateInv, NEW u \in Users, Auth(u)
  PROVE  GateInv'
<1> USE DEF GateInv
<1>0. /\ req[u].step = "auth" /\ req[u] \in Reqs
      /\ UNCHANGED <<mode, session, key>>
  BY DEF Auth, GateTypeOK
<1>1. CASE Answered(u, "no_session", req[u]) \/ Answered(u, "error", req[u])
  BY <1>0, <1>1, AnsweredKeeps DEF GateAnswers
<1>2. ASSUME session[u] # "none",
             ReqBecomes(u, [req[u] EXCEPT !.step = "verify",
                                          !.secret = session[u] = "keyed"]),
             UNCHANGED <<tried, last>>
      PROVE  GateInv'
  <2> DEFINE q == [req[u] EXCEPT !.step = "verify", !.secret = session[u] = "keyed"]
  <2>1. req' = [req EXCEPT ![u] = q]
    BY <1>2 DEF ReqBecomes
  <2>2. /\ q \in Reqs
        /\ q.step = "verify" /\ q.secret = (session[u] = "keyed")
        /\ q.signed = req[u].signed /\ q.spent = req[u].spent
        /\ q.again = req[u].again /\ q.hurt = req[u].hurt
        /\ q.verified = req[u].verified
    BY <1>0 DEF Reqs
  <2> HIDE DEF q
  <2>3. GateTypeOK'
    BY <1>0, <1>2, <2>1, <2>2 DEF GateTypeOK
  <2>4. SignedHasSecret'
    <3>1. q.signed <=> key[u]
      BY <1>0, <2>2 DEF SignedHasSecret
    <3>2. q.signed => q.secret
      BY <1>2, <2>2, <3>1 DEF SecretsInPairs
    <3> QED BY <1>0, <2>1, <3>1, <3>2 DEF GateTypeOK, SignedHasSecret
  <2>5. VerifiedOnce' /\ NonceUnspent'
    BY <1>0, <2>1, <2>2 DEF GateTypeOK, VerifiedOnce, NonceUnspent
  <2>6. SecretsInPairs' /\ RefusedForCause'
    BY <1>0, <1>2 DEF SecretsInPairs, RefusedForCause
  <2> QED BY <2>3, <2>4, <2>5, <2>6
<1> QED BY <1>1, <1>2 DEF Auth

\* A signed request finds its secret and, the first time, its nonce unspent:
\* to fail, it has to have come again or to be hit by a fault.
LEMMA VerifyKeeps ==
  ASSUME GateInv, NEW u \in Users, Verify(u)
  PROVE  GateInv'
<1> DEFINE r == req[u]
           stored == [r EXCEPT !.spent = TRUE]
<1>0. /\ r.step = "verify" /\ r \in Reqs
      /\ UNCHANGED <<mode, session, key>>
      /\ r.signed <=> key[u]
      /\ r.signed => r.secret
      /\ r.verified <= 1
      /\ r.verified > 0 => r.signed /\ r.spent
      /\ r.again \/ r.hurt \/ ~r.spent
  BY DEF Verify, GateInv, GateTypeOK, SignedHasSecret, VerifiedOnce, NonceUnspent
<1>1. CASE Passes(u, r)
  BY <1>0, <1>1, PassesKeeps
<1>2. CASE ~r.signed /\ FailsVerification(u, r)
  BY <1>0, <1>2, FailsKeeps
<1>3. ASSUME NEW burnt \in BOOLEAN,
             FailsVerification(u, [r EXCEPT !.hurt = TRUE, !.spent = @ \/ burnt])
      PROVE  GateInv'
  <2> DEFINE q == [r EXCEPT !.hurt = TRUE, !.spent = @ \/ burnt]
  <2>1. /\ q \in Reqs /\ q.hurt
        /\ q.signed = r.signed /\ q.verified = r.verified
        /\ r.spent => q.spent
    BY <1>0 DEF Reqs
  <2> HIDE DEF q
  <2> QED BY <1>0, <1>3, <2>1, FailsKeeps DEF q
<1>4. CASE r.signed /\ r.spent /\ FailsVerification(u, r)
  BY <1>0, <1>4, FailsKeeps
<1>5. CASE /\ r.signed /\ ~r.spent /\ r.secret
           /\ Passes(u, [stored EXCEPT !.verified = @ + 1])
  <2> DEFINE q == [stored EXCEPT !.verified = @ + 1]
  <2>1. r.verified = 0
    BY <1>0, <1>5 DEF Reqs
  <2>2. stored \in Reqs /\ stored.signed = r.signed /\ stored.spent /\ stored.verified = 0
    BY <1>0, <2>1 DEF Reqs
  <2> HIDE DEF stored
  <2>3. q \in Reqs /\ q.signed = r.signed /\ q.spent /\ q.verified = 1
    BY <2>2 DEF Reqs
  <2> HIDE DEF q
  <2>4. q.signed <=> key[u]
    BY <1>0, <2>3
  <2>5. Passes(u, q)
    BY <1>5 DEF q
  <2>6. q.verified <= 1
    BY <2>3
  <2>7. q.verified > 0 => q.signed /\ q.spent
    BY <1>5, <2>3
  <2>8. q \in Reqs /\ UNCHANGED <<mode, session, key>>
    BY <1>0, <2>3
  <2> QED BY <2>4, <2>5, <2>6, <2>7, <2>8, PassesKeeps
<1>6. CASE r.signed /\ ~r.secret
  BY <1>0, <1>6
<1> HIDE DEF r, stored
<1> QED BY <1>1, <1>2, <1>3, <1>4, <1>5, <1>6 DEF Verify, r, stored

\* A request whose answer is lost is marked as one that comes again.
LEMMA HandleKeeps ==
  ASSUME GateInv, NEW u \in Users, Handle(u)
  PROVE  GateInv'
<1> USE DEF GateInv
<1>0. req[u].step = "handle" /\ req[u] \in Reqs /\ UNCHANGED <<mode, session, key>>
  BY DEF Handle, GateTypeOK
<1>1. CASE Answered(u, "served", req[u])
  BY <1>0, <1>1, AnsweredKeeps DEF GateAnswers
<1>2. CASE SentAgain(u)
  <2> DEFINE q == [req[u] EXCEPT !.step = "auth", !.again = TRUE]
  <2>1. req' = [req EXCEPT ![u] = q] /\ UNCHANGED <<tried, last>>
    BY <1>2 DEF SentAgain, ReqBecomes
  <2>2. /\ q \in Reqs
        /\ q.step = "auth" /\ q.again
        /\ q.signed = req[u].signed /\ q.spent = req[u].spent
        /\ q.verified = req[u].verified
    BY <1>0 DEF Reqs
  <2> HIDE DEF q
  <2>3. GateTypeOK'
    BY <1>0, <2>1, <2>2 DEF GateTypeOK
  <2>4. VerifiedOnce' /\ SignedHasSecret' /\ NonceUnspent'
    BY <1>0, <2>1, <2>2
       DEF GateTypeOK, VerifiedOnce, SignedHasSecret, NonceUnspent
  <2>5. SecretsInPairs' /\ RefusedForCause'
    BY <1>0, <2>1 DEF SecretsInPairs, RefusedForCause
  <2> QED BY <2>3, <2>4, <2>5
<1> QED BY <1>1, <1>2 DEF Handle

\* So are the requests that a deployment cuts off; the sessions outlive it.
LEMMA RedeployKeeps ==
  ASSUME GateInv, NEW m \in Modes, Redeploy(m)
  PROVE  GateInv'
<1> USE DEF GateInv
<1>1. /\ mode' = m
      /\ UNCHANGED <<session, key, tried, last>>
  BY DEF Redeploy
<1>2. ASSUME NEW u \in Users
      PROVE  /\ req'[u] \in Reqs
             /\ req'[u].step \in {"idle", "auth"}
             /\ req'[u].step # "idle" => req[u].step # "idle" /\ req'[u].again
             /\ req'[u].signed = req[u].signed /\ req'[u].spent = req[u].spent
             /\ req'[u].verified = req[u].verified
  <2>1. req[u] \in Reqs
    BY DEF GateTypeOK
  <2>2. CASE req[u].step = "idle"
    BY <2>1, <2>2 DEF Redeploy
  <2>3. CASE req[u].step # "idle"
    <3>1. req'[u] = [req[u] EXCEPT !.step = "auth", !.again = TRUE]
      BY <2>3 DEF Redeploy
    <3> QED BY <2>1, <2>3, <3>1 DEF Reqs
  <2> QED BY <2>2, <2>3
<1>0. req' \in [Users -> Reqs]
  BY <1>2 DEF Redeploy
<1>3. GateTypeOK'
  BY <1>0, <1>1, <1>2 DEF GateTypeOK
<1>4. VerifiedOnce' /\ SignedHasSecret' /\ NonceUnspent'
  BY <1>1, <1>2 DEF VerifiedOnce, SignedHasSecret, NonceUnspent
<1>5. SecretsInPairs' /\ RefusedForCause'
  BY <1>1 DEF SecretsInPairs, RefusedForCause
<1> QED BY <1>3, <1>4, <1>5

LEMMA NextKeeps == GateInv /\ [GateNext]_gateVars => GateInv'
<1> SUFFICES ASSUME GateInv, [GateNext]_gateVars PROVE GateInv'
  OBVIOUS
<1>1. CASE UNCHANGED gateVars
  BY <1>1 DEF gateVars, GateInv, GateTypeOK, VerifiedOnce, SecretsInPairs,
              SignedHasSecret, NonceUnspent, RefusedForCause
<1>2. ASSUME NEW u \in Users, SignIn(u) \/ Expire(u) \/ Send(u) PROVE GateInv'
  BY <1>2, SignInKeeps, ExpireKeeps, SendKeeps
<1>3. ASSUME NEW u \in Users, GateStep(u) PROVE GateInv'
  BY <1>3, AuthKeeps, VerifyKeeps, HandleKeeps DEF GateStep
<1>4. ASSUME NEW m \in Modes, Redeploy(m) PROVE GateInv'
  BY <1>4, RedeployKeeps
<1> QED BY <1>1, <1>2, <1>3, <1>4 DEF GateNext

-----------------------------------------------------------------------------
\* GateInv is an invariant: secrets come in pairs, nonces are spent once, and
\* no refusal is without a cause.
THEOREM GateInvariance == GateSpec => []GateInv
<1> QED BY InitKeeps, NextKeeps, PTL DEF GateSpec

\* Every variable of the gate keeps its type, for all users, modes and
\* sequences of deployments.
THEOREM GateTypeCorrect == GateSpec => []GateTypeOK
<1>1. GateInv => GateTypeOK
  BY DEF GateInv
<1> QED BY <1>1, GateInvariance, PTL

\* HMACMiddleware verifies a request once however often it is sent again, to
\* this deployment or the next.
THEOREM VerificationOnce == GateSpec => []VerifiedOnce
<1>1. GateInv => VerifiedOnce
  BY DEF GateInv
<1> QED BY <1>1, GateInvariance, PTL

\* HMACMiddleware refuses enforced users only, and a request that was signed
\* only if it came twice or a fault hit it.
THEOREM RefusalsHaveCauses == GateSpec => []RefusedForCause
<1>1. GateInv => RefusedForCause
  BY DEF GateInv
<1> QED BY <1>1, GateInvariance, PTL

(***************************************************************************)
(* The window of the nonce.                                                *)
(***************************************************************************)

\* What the proofs need of the constants.
LEMMA Numbers ==
  ASSUME WindowAssumption
  PROVE
  /\ Second \in Nat \ {0} /\ Window \in Nat /\ TTL \in Nat /\ Delay \in Nat
  /\ Ahead \in Nat /\ Ahead + Window + Second + Delay <= TTL
  /\ \A s \in Stamps : s \in Int /\ s <= Ahead
<1>1. /\ Second \in Nat \ {0} /\ Window \in Nat /\ TTL \in Nat /\ Delay \in Nat
      /\ Ahead \in Nat /\ Behind \in Nat /\ Ahead + Window + Second + Delay <= TTL
  BY DEF WindowAssumption
<1>2. \A s \in Stamps : s \in -Behind..Ahead
  BY DEF Stamps
<1> QED BY <1>1, <1>2

\* At first no copy has come in.
LEMMA InitKeepsWindow == WindowAssumption /\ WindowInit => WindowInv
<1> SUFFICES ASSUME WindowAssumption, WindowInit PROVE WindowInv
  OBVIOUS
<1>1. WindowTypeOK
  BY Numbers DEF WindowInit, WindowTypeOK, Steps
<1>2. CheckedInTime /\ KeptOnceVerified /\ NonceOutlivesWindow
  BY DEF WindowInit, CheckedInTime, KeptOnceVerified, NonceOutlivesWindow
<1> QED BY <1>1, <1>2 DEF WindowInv

\* A copy that passes the clock does so within the last second of the window.
LEMMA CheckKeepsWindow ==
  ASSUME WindowAssumption, WindowInv, NEW c \in Copies, CheckTimestamp(c)
  PROVE  WindowInv'
<1> USE DEF WindowInv
<1>1. /\ step[c] = "away"
      /\ UNCHANGED <<now, part, stamp, kept, age>>
      /\ \/ /\ step' = [step EXCEPT ![c] = "checked"]
            /\ Unix - stamp \in -Window..Window
         \/ step' = [step EXCEPT ![c] = "refused"]
  BY DEF CheckTimestamp, StepsTo
<1>2. WindowTypeOK'
  BY <1>1 DEF WindowTypeOK, Steps
<1>3. CheckedInTime'
  <2> SUFFICES ASSUME NEW d \in Copies, step'[d] = "checked"
               PROVE  now - age[d] < stamp + Window + Second
    BY <1>1 DEF CheckedInTime
  <2>1. CASE d # c
    BY <1>1, <2>1 DEF WindowTypeOK, CheckedInTime
  <2>2. CASE d = c
    <3>1. now - part - stamp <= Window
      BY <1>1, <2>2, Numbers DEF WindowTypeOK, Unix
    <3>2. now \in Nat /\ part < Second /\ part \in Nat /\ stamp \in Int /\ age[d] \in Nat
      BY Numbers DEF WindowTypeOK
    <3> QED BY <3>1, <3>2, Numbers
  <2> QED BY <2>1, <2>2
<1>4. KeptOnceVerified' /\ NonceOutlivesWindow'
  BY <1>1 DEF WindowTypeOK, KeptOnceVerified, NonceOutlivesWindow
<1> QED BY <1>2, <1>3, <1>4

\* A copy at Redis is there before TTL is over, counted from the moment the
\* request was sent.
LEMMA InTimeAtRedis ==
  ASSUME WindowAssumption, WindowInv, NEW c \in Copies, step[c] = "checked"
  PROVE  now < stamp + Window + Second + Delay /\ now < TTL
<1>1. now - age[c] < stamp + Window + Second
  BY DEF WindowInv, CheckedInTime
<1>2. now \in Nat /\ age[c] \in 0..Delay /\ stamp \in Int /\ stamp <= Ahead
  BY Numbers DEF WindowInv, WindowTypeOK
<1> QED BY <1>1, <1>2, Numbers

\* It finds the nonce of a verified copy.
LEMMA SetNXKeepsWindow ==
  ASSUME WindowAssumption, WindowInv, NEW c \in Copies, SetNX(c)
  PROVE  WindowInv'
<1> USE DEF WindowInv
<1>1. /\ step[c] = "checked"
      /\ UNCHANGED <<now, part, stamp, age>>
      /\ \/ now >= kept /\ kept' = now + TTL /\ step' = [step EXCEPT ![c] = "verified"]
         \/ now >= kept /\ kept' = now + TTL /\ step' = [step EXCEPT ![c] = "refused"]
         \/ step' = [step EXCEPT ![c] = "refused"] /\ UNCHANGED kept
  BY DEF SetNX, StepsTo
<1>2. /\ now \in Nat /\ kept \in Nat /\ TTL \in Nat /\ now < TTL
      /\ step \in [Copies -> Steps]
  BY <1>1, InTimeAtRedis, Numbers DEF WindowTypeOK
<1>3. ASSUME now >= kept, NEW d \in Copies PROVE step[d] # "verified"
  BY <1>2, <1>3 DEF KeptOnceVerified
<1>4. WindowTypeOK'
  BY <1>1, <1>2 DEF WindowTypeOK, Steps
<1>5. CheckedInTime'
  BY <1>1, <1>2 DEF CheckedInTime
<1>6. kept' >= kept
  BY <1>1, <1>2
<1>7. KeptOnceVerified'
  BY <1>1, <1>2, <1>6 DEF KeptOnceVerified
<1>8. NonceOutlivesWindow'
  BY <1>1, <1>2, <1>3 DEF NonceOutlivesWindow
<1> QED BY <1>4, <1>5, <1>7, <1>8

\* Time passes for the copies at Redis as well.
LEMMA TickKeepsWindow ==
  ASSUME WindowAssumption, WindowInv, Tick
  PROVE  WindowInv'
<1> USE DEF WindowInv
<1>1. /\ now' = now + 1
      /\ part' = IF part + 1 = Second THEN 0 ELSE part + 1
      /\ UNCHANGED <<stamp, kept, step>>
      /\ \A c \in Copies : step[c] = "checked" => age[c] < Delay /\ age'[c] = age[c] + 1
      /\ age' = [c \in Copies |-> IF step[c] = "checked" THEN age[c] + 1 ELSE age[c]]
  BY DEF Tick
<1>2. now \in Nat /\ part \in 0..(Second - 1) /\ age \in [Copies -> 0..Delay]
  BY DEF WindowTypeOK
<1>3. part' \in 0..(Second - 1) /\ now' \in Nat
  BY <1>1, <1>2, Numbers
<1>4. age' \in [Copies -> 0..Delay]
  <2> SUFFICES ASSUME NEW c \in Copies
               PROVE  (IF step[c] = "checked" THEN age[c] + 1 ELSE age[c]) \in 0..Delay
    BY <1>1
  <2> QED BY <1>1, <1>2, Numbers
<1>5. WindowTypeOK'
  BY <1>1, <1>3, <1>4 DEF WindowTypeOK
<1>6. CheckedInTime'
  <2> SUFFICES ASSUME NEW c \in Copies, step[c] = "checked"
               PROVE  now' - age'[c] < stamp + Window + Second
    BY <1>1 DEF CheckedInTime
  <2>1. now' = now + 1 /\ age'[c] = age[c] + 1 /\ age[c] \in 0..Delay
    BY <1>1, <1>2
  <2>2. now - age[c] < stamp + Window + Second
    BY DEF CheckedInTime
  <2> QED BY <1>2, <2>1, <2>2, Numbers
<1>7. KeptOnceVerified' /\ NonceOutlivesWindow'
  BY <1>1 DEF KeptOnceVerified, NonceOutlivesWindow
<1> QED BY <1>5, <1>6, <1>7

LEMMA NextKeepsWindow ==
  WindowAssumption /\ WindowInv /\ [WindowNext]_windowVars => WindowInv'
<1> SUFFICES ASSUME WindowAssumption, WindowInv, [WindowNext]_windowVars PROVE WindowInv'
  OBVIOUS
<1>1. CASE UNCHANGED windowVars
  BY <1>1 DEF windowVars, WindowInv, WindowTypeOK, CheckedInTime, KeptOnceVerified,
              NonceOutlivesWindow
<1>2. ASSUME NEW c \in Copies, CheckTimestamp(c) \/ SetNX(c) PROVE WindowInv'
  BY <1>2, CheckKeepsWindow, SetNXKeepsWindow
<1>3. CASE Tick
  BY <1>3, TickKeepsWindow
<1> QED BY <1>1, <1>2, <1>3 DEF WindowNext

-----------------------------------------------------------------------------
\* The inductive invariant of verifyRequest between its clock and Redis.
THEOREM WindowInvariance == WindowAssumption /\ WindowSpec => []WindowInv
<1> SUFFICES ASSUME WindowAssumption PROVE WindowSpec => []WindowInv
  OBVIOUS
<1> QED BY InitKeepsWindow, NextKeepsWindow, PTL DEF WindowSpec

\* verifyRequest passes one copy of a request at most, however many come in
\* and whenever, if the sender's clock is ahead by no more than the lifetime of
\* a nonce leaves beside the window, a second and the wait for Redis.
THEOREM OneCopyVerified == WindowAssumption /\ WindowSpec => []NonceOutlivesWindow
<1>1. WindowInv => NonceOutlivesWindow
  BY DEF WindowInv
<1> QED BY <1>1, WindowInvariance, PTL

\* No copy is verified later than the window, a second and the wait for Redis
\* after its timestamp.
THEOREM NoLateCopyVerified == WindowAssumption /\ WindowSpec => LateNeverVerified
<1> SUFFICES ASSUME WindowAssumption PROVE WindowSpec => LateNeverVerified
  OBVIOUS
<1> DEFINE A == \A c \in Copies :
                  step[c] # "verified" /\ step'[c] = "verified"
                    => now < stamp + Window + Second + Delay
<1>1. WindowInv /\ [WindowNext]_windowVars => [A]_windowVars
  <2> SUFFICES ASSUME WindowInv, WindowNext, NEW c \in Copies,
                      step[c] # "verified", step'[c] = "verified"
               PROVE  step[c] = "checked"
    BY InTimeAtRedis
  <2>1. step \in [Copies -> Steps]
    BY DEF WindowInv, WindowTypeOK
  <2>2. ASSUME NEW d \in Copies, CheckTimestamp(d) PROVE FALSE
    BY <2>1, <2>2 DEF CheckTimestamp, StepsTo
  <2>3. ASSUME NEW d \in Copies, SetNX(d) PROVE step[c] = "checked"
    BY <2>1, <2>3 DEF SetNX, StepsTo
  <2>4. ~Tick
    BY DEF Tick
  <2> QED BY <2>2, <2>3, <2>4 DEF WindowNext
<1>2. WindowSpec => [][A]_windowVars
  <2> HIDE DEF A
  <2> QED BY <1>1, WindowInvariance, PTL DEF WindowSpec
<1> QED BY <1>2 DEF LateNeverVerified
=============================================================================
