-------------------------- MODULE RequestPipeline --------------------------
(***************************************************************************)
(* The chains of middleware that router/v1 puts in front of the handlers,  *)
(* composed: the exhibition gate, the session, the ban check (BanCheck,    *)
(* whose actions are conjoined here), the signature, the handler.          *)
(*                                                                         *)
(*   records   "signed": exhibition gate, auth, ban, hmac                  *)
(*   events    "signed", but without the gate, which is nothing to players *)
(*   user/me   "profile": auth, ban                                        *)
(*   consents  "open": the handler looks up the session if there is a token*)
(*                                                                         *)
(* Clients are the players, who send the token of their last session, and  *)
(* the exhibition build, which sends the exhibition key and no token.      *)
(* What the handlers of records and events then do is in RecordIngest and  *)
(* ClientLog; when a signature is refused, in HmacGate: here verification  *)
(* fails for no visible reason, as a fault.                                *)
(***************************************************************************)
EXTENDS BanCheck

CONSTANTS
  Booth,        \* the account EXHIBITION_USER_ID names: a row like any other
  Consents,     \* client_consent_ids; each may be sent any number of times
  PlayerSlots,  \* bound: the slots of players' requests with a chain
  MaxFaults     \* bound: restarts, failed Redis calls and verifications

ASSUME PipelineAssumption ==
  /\ Booth \in Users
  /\ PlayerSlots \subseteq Requests
  /\ MaxFaults \in Nat

VARIABLES
  gate,     \* is ExhibitionGate enabled? Decided when the process starts
  session,  \* session[u]: "new" until a request has been let in by it
  req,      \* req[r]: the request in slot r, besides its BanCheck call
  consent,  \* consent[c]: the row of consent_logs, or NoRow
  faults

pipelineVars == <<banVars, gate, session, req, consent, faults>>

Chains == {"signed", "profile", "open"}
Sessions == {"none", "new", "used"}
NoConsent == "none"

\* A row of consent_logs: client_id, the device the consent was given on, here
\* the player it belongs to, and user_id, which may be NULL.
NoRow == [client |-> NoUser, user |-> NoUser]

\* user: the token's, or c.Locals("user").  keyed: with the exhibition key.
\* exhibition: c.Locals("is_exhibition").  unread: the ban check let it pass
\* because its read failed.  age: ticks since the ban check.  consent: what a
\* request to consents carries; client: the device it comes from.  lapse is
\* history: while it was under way its sender had no session, or a call to Redis
\* failed.
NoReq == [step |-> "idle", chain |-> "profile", user |-> NoUser, keyed |-> FALSE,
          exhibition |-> FALSE, unread |-> FALSE, age |-> 0,
          consent |-> NoConsent, client |-> NoUser, lapse |-> FALSE]

Steps == {"idle", "auth", "ban", "verify", "handle"}

Reqs == [step : Steps, chain : Chains, user : Users \cup {NoUser},
         keyed : BOOLEAN, exhibition : BOOLEAN, unread : BOOLEAN,
         age : 0..SlowestRead, consent : Consents \cup {NoConsent},
         client : Users \cup {NoUser}, lapse : BOOLEAN]

PipelineInit ==
  /\ BanInit
  /\ gate \in BOOLEAN
  /\ session = [u \in Users |-> "none"]
  /\ req = [r \in Requests |-> NoReq]
  /\ consent = [c \in Consents |-> NoRow]
  /\ faults = 0

-----------------------------------------------------------------------------
Fault == faults < MaxFaults /\ faults' = faults + 1
NoFault == UNCHANGED faults

ReqBecomes(r, q) == req' = [req EXCEPT ![r] = q]
GoesOn(r, step) == ReqBecomes(r, [req[r] EXCEPT !.step = step])

AtAuth(r) == req[r].step = "auth" /\ req[r].chain # "open"

\* The request is answered, and its slot free again.
Answer(r) == ReqBecomes(r, NoReq)

\* A player signs in (SignIn: not while banned) and sends with that token
\* until the client is told otherwise.
SignsIn(u) ==
  /\ session[u] = "none"
  /\ ~banned[u]
  /\ session' = [session EXCEPT ![u] = "new"]
  /\ UNCHANGED <<banVars, gate, req, consent, faults>>

\* The 24 hours are over: longer than it takes to use a session at all.
Expires(u) ==
  /\ session[u] = "used"
  /\ session' = [session EXCEPT ![u] = "none"]
  /\ req' = [r \in Requests |->
               IF req[r].user = u THEN [req[r] EXCEPT !.lapse = TRUE] ELSE req[r]]
  /\ UNCHANGED <<banVars, gate, consent, faults>>

Arrives(r, q) ==
  /\ req[r].step = "idle"
  /\ ReqBecomes(r, [q EXCEPT !.step = "auth"])
  /\ UNCHANGED <<banVars, gate, session, consent, faults>>

PlayerSends(r, u, chain) ==
  /\ chain # "open"
  /\ Arrives(r, [NoReq EXCEPT !.chain = chain, !.user = u])

ConsentSent(r, u, c) ==
  Arrives(r, [NoReq EXCEPT !.chain = "open", !.user = u, !.consent = c,
                           !.client = u, !.lapse = session[u] = "none"])

\* ExhibitionGate: an enabled gate marks the request with the right key and
\* makes it the exhibition account's.  The exhibition build reports single
\* plays and nothing else, and has no token to fall back on.
BoothSends(r) ==
  Arrives(r, [NoReq EXCEPT !.chain = "signed", !.keyed = TRUE, !.exhibition = gate,
                           !.user = IF gate THEN Booth ELSE NoUser])

\* Mutant: a marked request skips the session, but not the ban check.
AuthOfBoothBanned(r) ==
  /\ AtAuth(r) /\ req[r].keyed
  /\ IF req[r].exhibition
     THEN GoesOn(r, "ban") /\ Enter(r, Booth)
     ELSE Answer(r) /\ UNCHANGED banVars
  /\ UNCHANGED <<gate, session, consent, faults>>

\* AuthMiddleware passes a marked request on without a look at Redis, and so
\* do the ban check and the signature check after it.
AuthOfBooth(r) ==
  /\ AtAuth(r) /\ req[r].keyed
  /\ IF req[r].exhibition THEN GoesOn(r, "handle") ELSE Answer(r)
  /\ UNCHANGED <<banVars, gate, session, consent, faults>>

NoSessionFound(u) ==
  \/ session[u] = "none" /\ NoFault
  \/ Fault

\* AuthMiddleware for everyone else: with the session's user to the ban check,
\* 401 without a session, 500 without Redis.
AuthOfPlayer(r) ==
  LET u == req[r].user IN
  /\ AtAuth(r) /\ ~req[r].keyed
  /\ \/ /\ session[u] # "none" /\ NoFault
        /\ session' = [session EXCEPT ![u] = "used"]
        /\ Enter(r, u)
        /\ GoesOn(r, "ban")
     \/ /\ NoSessionFound(u)
        /\ Answer(r)
        /\ UNCHANGED <<banVars, session>>
  /\ UNCHANGED <<gate, consent>>

-----------------------------------------------------------------------------
\* Once the ban check has answered, in this very step: 403, or on to the
\* signature check, which the route of the profile does not have.
BanDecides(r) ==
  LET verdict == last'[req[r].user]
      next == IF req[r].chain = "profile" THEN "handle" ELSE "verify" IN
  IF call'[r].step # "idle" THEN UNCHANGED req
  ELSE IF verdict = "refused" THEN Answer(r)
  ELSE ReqBecomes(r, [req[r] EXCEPT !.step = next, !.unread = verdict = "open"])

\* BanCheckMiddleware, one of its steps.
BanStep(r) ==
  /\ req[r].step = "ban"
  /\ Lookup(r) \/ ReadRow(r) \/ Store(r)
  /\ BanDecides(r)
  /\ UNCHANGED <<gate, session, consent, faults>>

\* HMACMiddleware.
VerifyStep(r) ==
  /\ req[r].step = "verify"
  /\ \/ NoFault /\ GoesOn(r, "handle")
     \/ Fault /\ Answer(r)
  /\ UNCHANGED <<banVars, gate, session, consent>>

\* The handler of a route with a chain.
Handles(r) ==
  /\ req[r].step = "handle" /\ req[r].chain # "open"
  /\ Answer(r)
  /\ UNCHANGED <<banVars, gate, session, consent, faults>>

\* Mutant: the handler is built without the session store.
OptionalUserUnwired(r) ==
  /\ req[r].step = "auth" /\ req[r].chain = "open"
  /\ NoFault
  /\ ReqBecomes(r, [req[r] EXCEPT !.step = "handle", !.user = NoUser])
  /\ UNCHANGED <<banVars, gate, session, consent>>

\* optionalUserID: no session and no Redis are the same to it.
OptionalUser(r) ==
  /\ req[r].step = "auth" /\ req[r].chain = "open"
  /\ \/ session[req[r].user] # "none" /\ NoFault /\ GoesOn(r, "handle")
     \/ /\ NoSessionFound(req[r].user)
        /\ ReqBecomes(r, [req[r] EXCEPT !.step = "handle", !.user = NoUser,
                                        !.lapse = TRUE])
  /\ UNCHANGED <<banVars, gate, session, consent>>

\* consentLogUseCase.processItem: an id that is there is a duplicate and its
\* row stays as it is.  (ClientLog has the race of two inserts.)
KeepsConsent(r) ==
  LET new == [client |-> req[r].client, user |-> req[r].user] IN
  /\ req[r].step = "handle" /\ req[r].chain = "open"
  /\ consent' = [consent EXCEPT ![req[r].consent] = IF @ = NoRow THEN new ELSE @]
  /\ Answer(r)
  /\ UNCHANGED <<banVars, gate, session, faults>>

-----------------------------------------------------------------------------
\* The operator bans, or lifts a ban.
OperatorToggles(u) ==
  /\ Toggle(u)
  /\ UNCHANGED <<gate, session, req, consent, faults>>

Restarted(enabled) ==
  /\ Restart
  /\ Fault
  /\ gate' = enabled
  /\ req' = [r \in Requests |-> NoReq]
  /\ UNCHANGED <<session, consent>>

\* The process restarts.  LoadExhibitionUser reads the account once: a missing
\* setting, a missing row and a failed read all leave the gate disabled.
Restarts == \E enabled \in BOOLEAN : Restarted(enabled)

IsChecked(q) == q.step \in {"verify", "handle"} /\ q.chain # "open" /\ ~q.keyed

\* Time passes; what comes after the ban check takes SlowestRead at most.
TimePasses ==
  /\ Tick
  /\ \A r \in Requests : IsChecked(req[r]) => req[r].age < SlowestRead
  /\ req' = [r \in Requests |->
               IF IsChecked(req[r]) THEN [req[r] EXCEPT !.age = @ + 1] ELSE req[r]]
  /\ UNCHANGED <<gate, session, consent, faults>>

ServerStep(r) ==
  \/ AuthOfPlayer(r) \/ AuthOfBooth(r) \/ BanStep(r) \/ VerifyStep(r)
  \/ Handles(r) \/ OptionalUser(r) \/ KeepsConsent(r)

PlayerActs(u) == \E r \in PlayerSlots, chain \in Chains : PlayerSends(r, u, chain)

PipelineNext ==
  \/ \E u \in Users : SignsIn(u) \/ Expires(u) \/ OperatorToggles(u) \/ PlayerActs(u)
  \/ \E r \in Requests : ServerStep(r)
  \/ \E r \in Requests \ PlayerSlots :
       \/ BoothSends(r)
       \/ \E u \in Users, c \in Consents : ConsentSent(r, u, c)
  \/ Restarts
  \/ TimePasses

\* The server finishes what it has begun, players sign in and play on, and
\* time passes: strong fairness where the model makes the step wait for a free
\* slot or for the slowest call, which the world does not.
PipelineSpec ==
  /\ PipelineInit
  /\ [][PipelineNext]_pipelineVars
  /\ \A r \in Requests : WF_pipelineVars(ServerStep(r))
  /\ \A u \in Users : /\ SF_pipelineVars(SignsIn(u))
                      /\ SF_pipelineVars(PlayerActs(u))
  /\ SF_pipelineVars(TimePasses)

-----------------------------------------------------------------------------
\* The exhibition build hears the same from the start of a process to its end:
\* 401 if the account could not be read at the start, and otherwise no refusal,
\* though the account be banned and Redis gone (exhibition.go:70).
BoothDecidedAtBoot ==
  [][\A r \in Requests : req[r].keyed /\ ~req'[r].keyed =>
       \/ req[r].step = IF gate THEN "handle" ELSE "auth"
       \/ Restarts]_pipelineVars

\* The chain as a whole keeps what the ban check promises: no handler works for
\* a player whose ban has stood for longer than the cache, the slowest read and
\* the rest of the chain take, unless the check could not read the row.
BanReachesTheHandler ==
  \A r \in Requests :
    IsChecked(req[r]) /\ ~req[r].unread /\ banned[req[r].user]
      => calm[req[r].user] <= TTL + SlowestRead + req[r].age

\* A row of consent_logs is written for the device that sent the consent, and
\* for no other user than the one it belongs to; without a user only if the
\* session was gone, or Redis, while that request was under way: a player who
\* is signed in throughout has signed (optionalUserID).
ConsentNamesItsSender ==
  [][\A c \in Consents : consent'[c] # consent[c] =>
       \E r \in Requests :
         /\ req[r].consent = c
         /\ consent'[c].client = req[r].client
         /\ \/ consent'[c].user = req[r].client
            \/ consent'[c].user = NoUser /\ req[r].lapse]_pipelineVars

\* What the schema says of consents given before the sign-in (consent_log.go:37
\* and 45): their user_id is NULL, and the sign-in fills it in.  No code does.
SigninLinksConsents ==
  [][\A u \in Users : SignsIn(u) =>
       \A c \in Consents : consent[c].client = u => consent'[c].user = u]_pipelineVars

(***************************************************************************)
(* The invariant these rest on.                                            *)
(***************************************************************************)
\* Every variable has its type.
PipelineTypeOK ==
  /\ gate \in BOOLEAN
  /\ session \in [Users -> Sessions]
  /\ req \in [Requests -> Reqs]
  /\ faults \in Nat

\* A request with the key is at the auth check or past the whole chain, and
\* bears the mark if the gate of this process gives it.
MarkedAtGate ==
  \A r \in Requests : req[r].keyed =>
    /\ req[r].chain = "signed"
    /\ req[r].step \in {"auth", "handle"}
    /\ req[r].exhibition = gate
    /\ req[r].step = "handle" => gate

\* A request without a chain carries a consent from a device, and has the player
\* it belongs to for a user unless it lost the session.
CarriesConsent ==
  \A r \in Requests : req[r].chain = "open" =>
    /\ req[r].step \in {"auth", "handle"}
    /\ req[r].consent \in Consents
    /\ req[r].client \in Users
    /\ \/ req[r].user = req[r].client
       \/ req[r].user = NoUser /\ req[r].lapse

\* A request of a player with a chain has a user, and is in the ban check when
\* BanCheck says so.
InBanCheck ==
  \A r \in Requests :
    /\ (req[r].step = "ban") <=> (call[r].step # "idle")
    /\ req[r].step = "ban" => call[r].user = req[r].user
    /\ req[r].step # "idle" /\ req[r].chain # "open" /\ ~req[r].keyed
         => req[r].user \in Users

\* A row of consent_logs is there or not, with a user or without.
ConsentRows ==
  consent \in [Consents -> [client : Users \cup {NoUser}, user : Users \cup {NoUser}]]

PipelineInv ==
  /\ BanInv
  /\ PipelineTypeOK
  /\ MarkedAtGate
  /\ CarriesConsent
  /\ InBanCheck
  /\ BanReachesTheHandler

\* A ban that is lifted for good does not shut the player out: what the cache
\* holds of it runs out although the player keeps trying.
ReturnsAfterBan ==
  \A u \in Users :
    <>[](~banned[u]) =>
      []<>(\E r \in Requests : /\ req[r].step = "handle" /\ req[r].user = u
                               /\ req[r].chain # "open" /\ ~req[r].keyed)
=============================================================================
