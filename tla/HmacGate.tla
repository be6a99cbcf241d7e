------------------------------ MODULE HmacGate ------------------------------
(***************************************************************************)
(* AuthMiddleware and HMACMiddleware in front of a route, and the sessions *)
(* they read, while HMAC_MODE is rolled out from deployment to deployment. *)
(* A session keeps what it got at sign-in: no secret if the mode was off.  *)
(* A client signs what it sends if it was given a secret, and sends the    *)
(* same request again, with the same nonce, when no answer comes.          *)
(*                                                                         *)
(* Signatures are modelled by what they depend on: one made with the       *)
(* session's secret is right, and clients sign what they send.  Time is    *)
(* left to NonceWindow: here a nonce is remembered for ever, and a request *)
(* that is too late for its timestamp is a fault.                          *)
(***************************************************************************)
EXTENDS Naturals

CONSTANTS
  Users,         \* each with one client
  Enforced,      \* users on the whitelist or in the percentage bucket, the
                 \* same in every deployment
  MaxRedeploys,  \* bound: deployments after the first
  MaxFaults      \* bound: failed Redis calls, late requests, lost answers

ASSUME GateAssumption ==
  /\ Enforced \subseteq Users
  /\ MaxRedeploys \in Nat
  /\ MaxFaults \in Nat

VARIABLES
  mode,      \* HMAC_MODE of the running deployment
  session,   \* session[u]: of the session u's client holds
  key,       \* key[u]: was the client given a secret with it?
  tried,     \* tried[u]: has a request been answered since the sign-in?
  req,       \* req[u]: the request of u under way
  last,      \* history: the last answer, and the request if it refused one
  redeploys, faults

gateVars == <<mode, session, key, tried, req, last, redeploys, faults>>

Modes == {"off", "shadow", "enforce"}

\* signed: with headers; spent: its nonce is in Redis; secret: found in the
\* session by AuthMiddleware.  again, hurt and verified are history: was it
\* sent again, did a fault hit it, how often did it pass verification?
NoReq == [step |-> "idle", signed |-> FALSE, spent |-> FALSE, secret |-> FALSE,
          again |-> FALSE, hurt |-> FALSE, verified |-> 0]

Reqs == [step : {"idle", "auth", "verify", "handle"}, signed : BOOLEAN,
         spent : BOOLEAN, secret : BOOLEAN, again : BOOLEAN, hurt : BOOLEAN,
         verified : Nat]

GateAnswers == {"none", "served", "no_session", "refused", "error"}

GateInit ==
  /\ mode \in Modes
  /\ session = [u \in Users |-> "none"]
  /\ key = [u \in Users |-> FALSE]
  /\ tried = [u \in Users |-> FALSE]
  /\ req = [u \in Users |-> NoReq]
  /\ last = [u \in Users |-> [answer |-> "none", req |-> NoReq]]
  /\ redeploys = 0
  /\ faults = 0

-----------------------------------------------------------------------------
GateFault == faults < MaxFaults /\ faults' = faults + 1
NoGateFault == UNCHANGED faults

ReqBecomes(u, r) == req' = [req EXCEPT ![u] = r]

Answered(u, answer, r) ==
  /\ ReqBecomes(u, NoReq)
  /\ last' = [last EXCEPT ![u] =
                [answer |-> answer, req |-> IF answer = "refused" THEN r ELSE NoReq]]
  /\ tried' = [tried EXCEPT ![u] = TRUE]

IsIssuingSecret == mode \in {"shadow", "enforce"}
ShouldEnforce(u) == mode = "enforce" /\ u \in Enforced

Issued(u, secretStored, secretGiven) ==
  /\ session[u] = "none"
  /\ req[u].step = "idle"
  /\ session' = [session EXCEPT ![u] = IF secretStored THEN "keyed" ELSE "plain"]
  /\ key' = [key EXCEPT ![u] = secretGiven]
  /\ tried' = [tried EXCEPT ![u] = FALSE]
  /\ UNCHANGED <<mode, req, last, redeploys, faults>>

\* Mutants: the secret is only issued in shadow mode; it is given to the
\* client but not stored with the session.
SignInShadowOnly(u) == Issued(u, mode = "shadow", mode = "shadow")
SignInUnstored(u) == Issued(u, FALSE, IsIssuingSecret)

\* The end of a sign-in: the secret goes to the session and to the client.
SignIn(u) == Issued(u, IsIssuingSecret, IsIssuingSecret)

\* A session lives for 24 hours, longer than its first request takes.
Expire(u) ==
  /\ session[u] # "none"
  /\ tried[u]
  /\ session' = [session EXCEPT ![u] = "none"]
  /\ UNCHANGED <<mode, key, tried, req, last, redeploys, faults>>

\* A client that thinks it is signed in; one told "no_session" signs in again.
Send(u) ==
  /\ req[u].step = "idle"
  /\ session[u] # "none" \/ (tried[u] /\ last[u].answer # "no_session")
  /\ ReqBecomes(u, [NoReq EXCEPT !.step = "auth", !.signed = key[u]])
  /\ UNCHANGED <<mode, session, key, tried, last, redeploys, faults>>

\* AuthMiddleware: the session with its secret, if Redis has it.
Auth(u) ==
  /\ req[u].step = "auth"
  /\ \/ /\ NoGateFault
        /\ session[u] # "none"
        /\ ReqBecomes(u, [req[u] EXCEPT !.step = "verify",
                                        !.secret = session[u] = "keyed"])
        /\ UNCHANGED <<tried, last>>
     \/ /\ NoGateFault
        /\ session[u] = "none"
        /\ Answered(u, "no_session", req[u])
     \/ /\ GateFault
        /\ Answered(u, "error", req[u])
  /\ UNCHANGED <<mode, session, key, redeploys>>

Passes(u, r) ==
  /\ ReqBecomes(u, [r EXCEPT !.step = "handle"])
  /\ UNCHANGED <<tried, last>>

FailsVerification(u, r) ==
  IF ShouldEnforce(u) THEN Answered(u, "refused", r) ELSE Passes(u, r)

\* Mutant: the nonce is looked up but not stored.
VerifyUnmarked(u) ==
  /\ req[u].step = "verify"
  /\ NoGateFault
  /\ IF req[u].signed /\ ~req[u].spent /\ req[u].secret /\ mode # "off"
     THEN Passes(u, [req[u] EXCEPT !.verified = @ + 1])
     ELSE IF mode = "off" THEN Passes(u, req[u]) ELSE FailsVerification(u, req[u])
  /\ UNCHANGED <<mode, session, key, redeploys>>

\* HMACMiddleware: nothing in mode off; missing headers and a late timestamp
\* fail before the nonce is stored, a session without a secret after it, and
\* a failed SetNX, with or without effect, fails too.  A failure is a 401 for
\* enforced users only.
Verify(u) ==
  /\ req[u].step = "verify"
  /\ LET r == req[u]
         stored == [r EXCEPT !.spent = TRUE] IN
     \/ mode = "off" /\ Passes(u, r) /\ NoGateFault
     \/ mode # "off" /\ ~r.signed /\ FailsVerification(u, r) /\ NoGateFault
     \/ /\ mode # "off" /\ r.signed
        /\ \/ /\ GateFault
              /\ \E kept \in BOOLEAN :
                   FailsVerification(u, [r EXCEPT !.hurt = TRUE,
                                                  !.spent = @ \/ kept])
           \/ r.spent /\ FailsVerification(u, r) /\ NoGateFault
           \/ /\ ~r.spent /\ NoGateFault
              /\ IF r.secret THEN Passes(u, [stored EXCEPT !.verified = @ + 1])
                 ELSE FailsVerification(u, stored)
  /\ UNCHANGED <<mode, session, key, redeploys>>

\* The same request comes once more.
SentAgain(u) ==
  /\ ReqBecomes(u, [req[u] EXCEPT !.step = "auth", !.again = TRUE])
  /\ UNCHANGED <<tried, last>>

\* The route's own handler, and the answer, which may get lost.
Handle(u) ==
  /\ req[u].step = "handle"
  /\ \/ NoGateFault /\ Answered(u, "served", req[u])
     \/ GateFault /\ SentAgain(u)
  /\ UNCHANGED <<mode, session, key, redeploys>>

\* The server is deployed anew; requests under way are sent again.
Redeploy(m) ==
  /\ redeploys < MaxRedeploys
  /\ redeploys' = redeploys + 1
  /\ mode' = m
  /\ req' = [u \in Users |->
               IF req[u].step = "idle" THEN req[u]
               ELSE [req[u] EXCEPT !.step = "auth", !.again = TRUE]]
  /\ UNCHANGED <<session, key, tried, last, faults>>

GateStep(u) == Auth(u) \/ Verify(u) \/ Handle(u)

GateNext ==
  \/ \E u \in Users : SignIn(u) \/ Expire(u) \/ Send(u) \/ GateStep(u)
  \/ \E m \in Modes : Redeploy(m)

\* Clients keep signing in and sending, sessions expire, and a request that
\* has arrived is served to its end.
GateSpec ==
  /\ GateInit
  /\ [][GateNext]_gateVars
  /\ \A u \in Users : /\ WF_gateVars(SignIn(u)) /\ WF_gateVars(Expire(u))
                      /\ WF_gateVars(Send(u)) /\ WF_gateVars(GateStep(u))

-----------------------------------------------------------------------------
\* Every variable has its type, and only a request that passed the session
\* check with the client's secret was verified.
GateTypeOK ==
  /\ mode \in Modes
  /\ session \in [Users -> {"none", "plain", "keyed"}]
  /\ key \in [Users -> BOOLEAN]
  /\ tried \in [Users -> BOOLEAN]
  /\ req \in [Users -> Reqs]
  /\ last \in [Users -> [answer : GateAnswers, req : Reqs]]
  /\ \A u \in Users : req[u].verified > 0 => req[u].signed /\ req[u].spent

\* A request that is sent again, also to the next deployment, passes
\* verification at most once: a save without idempotency key (POST /records)
\* is not repeated for enforced users.
VerifiedOnce == \A u \in Users : req[u].verified <= 1

\* Whatever the mode was at sign-in and is now, a client that signs as it was
\* told is refused only if its request came twice or a fault hit it; users
\* outside the enforced set, and all users in other modes, never are.
RefusedForCause ==
  \A u \in Users : last[u].answer = "refused" =>
    /\ u \in Enforced
    /\ last[u].req.signed => last[u].req.again \/ last[u].req.hurt

(***************************************************************************)
(* What keeps refusals to their causes: secrets are given out in pairs and *)
(* never change under a request, and a nonce is spent by coming back only. *)
(***************************************************************************)
\* A live session has the secret that its client was given.
SecretsInPairs ==
  \A u \in Users : session[u] # "none" => (session[u] = "keyed" <=> key[u])

\* A request under way is signed if its sender has a secret, whose other half
\* the session check finds.
SignedHasSecret ==
  \A u \in Users :
    /\ req[u].step # "idle" => (req[u].signed <=> key[u])
    /\ req[u].step = "verify" /\ req[u].signed => req[u].secret

\* Before its first verification a request has its nonce to itself.
NonceUnspent ==
  \A u \in Users :
    /\ req[u].step \in {"auth", "verify"}
    /\ ~req[u].again
    /\ ~req[u].hurt
    => ~req[u].spent

GateInv ==
  /\ GateTypeOK
  /\ VerifiedOnce
  /\ SecretsInPairs
  /\ SignedHasSecret
  /\ NonceUnspent
  /\ RefusedForCause

\* Sessions from before the roll-out may lock their users out, but not for
\* good: once deployments and faults end, every client is served again and
\* again.
LockoutEnds == \A u \in Users : []<>(last[u].answer = "served")
=============================================================================
