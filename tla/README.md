# Verification of the Witch's Lounge backend

TLA+ models of the server in `src/` (Go, Fiber, ent on Postgres, Redis), the TLC
configurations that check them on small instances, and TLAPS proofs of the
properties that matter most for every instance. Paths below are relative to
`src/internal/` unless they start with `app/`, `ent/` or `docs/`, which are in
`src/`; `handler/`, `middleware/` and `router/` are in `delivery/http/`.

- [The system](#the-system): parts, state, operations, what is hard about them
- [The modules](#the-modules): which models what, and how it corresponds to the code
- [The runs](#the-runs): questions asked, bounds, fairness
- [The proofs](#the-proofs): theorems, assumptions, inductive invariants
- [Where code and documentation disagree](#where-code-and-documentation-disagree)
- [What is not modelled](#what-is-not-modelled) and [the plan](#the-plan)

Check a run with `tlc -config X.cfg M`, the proofs with `tlapm M.tla`;
`PROJECT.json` lists the module of every run and the lines of the code every
definition stands for.

## The system

One Go process serves a rhythm game. Fiber runs each request in a goroutine;
Postgres has the durable state, Redis the sessions and nonces, the process only
a ban cache and a token of the Stove platform. No code opens a transaction, so
every repository call is atomic by itself and nothing spans two of them. The
process has no graceful shutdown (`app/main.go`): a redeploy cuts whatever runs.

| Component | State | Operations | Hard about it | What makes it correct |
|---|---|---|---|---|
| Record ingest: `usecase/record.go`, `record_batch.go`, `repository/record.go`, `handler/record.go` | rows of `records`, unique index on `client_record_id` | `POST /records`, `POST /records/batch`; two GET routes read | find-then-insert, partial failures inside a batch, retries after lost answers, crashes between commit and response | an id is stored once, EXP is granted at most once for it, what the client is told is in the table |
| Progression: `usecase/record.go` (`applyExpGain`), `repository/progression.go`, `repository/user.go`, `entity/rank.go` | `users.exp`, `users.level`; the tables `t_level`, `t_rank` (read only) | EXP after each saved completed play | read-modify-write without a lock; floored float product; two spellings of ranks | EXP is the sum of what was earned, the level follows from it |
| Client logs: `usecase/event_log.go`, `consent_log.go` with handlers and repositories | rows of `event_logs`, `consent_logs`, unique keys | single and batch POST of each | as for record batches; consents come without a session as well | a key has one row; what a client may drop is stored |
| Sign-in: `usecase/steam.go`, `stove.go` | rows of `users`, sessions in Redis | `POST /steam/signin`, `POST /stove/signin` | several remote calls that may each fail; racing first sign-ins; bans meanwhile | one account per player, no session under a ban, failures leave nothing behind |
| Stove server token: `usecase/stove.go` (`getServerAccessToken`) | the token, its expiry, a mutex | asked for twice in each Stove sign-in | the mutex is held over an HTTP call; the token ages while its answer travels and after it is handed out | never sent expired, fetched by one, nobody waits for ever |
| Ban check: `middleware/ban.go` | a map from user to cached `is_banned`, with expiry | one check per request | the row is read outside the lock, so old reads overwrite newer ones | a ban takes hold within a bound |
| Sessions and HMAC: `middleware/auth.go`, `hmac.go`, `infrastructure/hmacauth`, `session` | sessions with a secret, nonces, the mode of the deployment | session lookup, verification | sessions outlive deployments; nonces meet honest retries | verified once; clients that do as told are refused only for cause |
| Sanity rules: `usecase/sanity_validator.go` | none | one evaluation per record | integer quotients, rounding, a tolerance | honest plays pass |
| Exhibition gate: `middleware/exhibition.go` | the exhibition account, read at boot | compares a key | one read at boot decides for the life of the process; plays reach routes that expect users | the booth is let in or not from boot to restart; its plays earn nothing |
| Chains: `router/v1/*.go` with `middleware/` | none of their own, `c.Locals` | gate, session, ban check, signature, handler, in an order that differs by route | what one middleware saw is old when the handler works | a ban reaches the handler within a bound; a consent names who sent it |
| Database access: `ent/` | rows and edges of fourteen entities; the mutation under a builder | create, update (two copies), delete, query | many calls in any order on one mutation; per entity, six files that must name the same columns | what was asked for is stored, nothing invalid is, what was stored is read back |

They meet as follows. A record route runs exhibition gate, session lookup, ban
check, HMAC verification and then the handler; events run the same chain, the
consent routes a rate limiter only. Sign-in writes the sessions and secrets the
middlewares read, and the user rows the ban check reads; Stove sign-ins share one
server token; ingest writes `exp` and `level` of these rows and takes the verdict
of the sanity rules. Every repository goes through the builders of `ent/`. The
operator bans by an UPDATE on the table and tells no one. The game client keeps
plays and log entries made offline and sends them until they are answered.

## The modules

| Module | Stands for |
|---|---|
| `RecordIngest` | both POST routes of records, one action per database call |
| `RecordHistory` | `RecordIngest` with a memory of what overlapping requests did |
| `RecordLedger` | abstract: what ingest promises about one `client_record_id` |
| `Progression` | the level lookup, used by `RecordIngest` |
| `OfflineQueue` | a client with a queue in front of `RecordIngest` |
| `ExpRule`, `Sanity` | EXP of a play with the rank spellings, and the sanity rules, as operators |
| `PlayRules` | the game that produces plays against these two |
| `ClientLog` | event and consent logs |
| `SignIn` | both sign-in routes |
| `StoveToken` | the cached server token of Stove under its mutex |
| `BanCheck` | the ban middleware and its cache |
| `HmacGate` | session lookup and HMAC verification across deployments |
| `NonceWindow` | the timestamp window of HMAC verification against the lifetime of a nonce |
| `RequestPipeline` | the chains of the routes, with `BanCheck` inside |
| `EntBuilder` | a row, a child row and the builders of `ent/` that write them |
| `EntSchema` | which entities there are |
| `EntAchievement` to `EntUserPurchase` | one per entity: what its generated files name |
| `ClientLogProofs`, `SignInProofs`, `StoveTokenProofs`, `EntBuilderProofs`, `PlayRulesProofs` | theorems about the module of that name |
| `RecordIngestProofs` | theorems about `RecordIngest`, `RecordHistory` and `OfflineQueue` |
| `HmacProofs` | theorems about `HmacGate` and `NonceWindow` |
| `RequestPipelineProofs` | theorems about `BanCheck` and `RequestPipeline` |
| `MC*` | instances for TLC, where a configuration file alone does not say them |

Definitions marked "Mutant" or "A bug", with names like `LookupUnlocked`, are wrong on purpose: put in place of the definition after them they make one
property fail, which shows that the property looks at that piece of code.

**RecordIngest.** `records` is the table, `profile` the two columns of `users`,
`task[h]` the locals of the handler in slot `h`. A handler goes through
`BeginBatch` (the user read of `CreateBatch`), then for each item `LookUp`
(in-batch repetition, `FindByClientRecordID`), `Screen` (sanity rules and the
music and stage lookups), `InsertSaved` or `InsertError`, `ReFind` (the fallback
lookup of `processBatchItem`), `ReadProgress` and `WriteProgress`
(`applyExpGain` up to and with `UpdateExpAndLevel`), and `Reply`. The single
route is a request of one item without id that skips the lookups; what differs
besides (exhibition plays, a 500 instead of the fallback) is in `ExpDue` and
`InsertError`. Each call may fail before it takes effect or after
(`Fault`); an insert may be refused by the index or a validator; `Crash` forgets
all handlers. `credits` and `replies` are history variables. The payload is a
constant `play`, of which the code only asks `Gain`, `Completed`, `Exhibition`,
`Storable` and `Verdict`.

**RecordHistory** EXTENDS `RecordIngest` with two variables that remember the rows a
batch's user has had since the last EXP gain that its answer reports (`shown`), and
which users had two EXP updates between read and write (`raced`). They follow the
steps of `RecordIngest` and hold none back.

**OfflineQueue** EXTENDS `RecordIngest`: a device plays (`made` counts its plays),
uploads the oldest plays it has not deleted, no more than the route takes
(`BatchLimit`, 100 in the code), deletes what was answered (`forgotten`), gives up
waiting (`Timeout`, the handler goes on) and uploads again; it also plays while it
waits. The client is not in the repository; it behaves as the batch route documents.
`Receive` of `RecordIngest` is used by `Upload`, the other actions as they are.

**PlayRules.** The game judges up to `MaxNotes` notes, reports, and starts over.
Accuracy is a quotient of integers (float64 in the code), ratios are tenths.
`ExpGainedOutcomes` gives the amounts `math.Floor` may return for the float64
product. The coefficient is a float32, up to one part in 2^24 off the tenths that
`t_rank` was filled with, so near a whole number the floor may be its neighbour, on
either side (`Inexact`).

**ClientLog.** A behaviour is about events or consents (`log`). The routes
differ in what becomes of the empty key (NULL; refused by `uuid.Parse`) and
of a request without a live session (401; `user_id` NULL).

**SignIn.** `flow[d]` is the sign-in of device `d`: `CheckTicket` (Steam tries
one app id after the other), `CheckOwnership`, `FetchProfile`, `FindUser`,
`CreateUser` or `UpdateProfile`, `Issue`. A name is only what the platform
reported or a placeholder.

**StoveToken.** `queue` is `tokenMu`, its head the holder, in the order of
arrival: a Go mutex hands itself over in that order once a waiter has waited for
a millisecond, and a tick is far longer. A sign-in `c` is `queued`, then `using`
the cached token, or `fetching` until Stove has issued one (`Issue`) and the
answer is in (`Fetched`). `left` is what remains of a token's life, known to
Stove; `fresh` is what remains until `tokenExpiry`, all the code knows. Stove
may state no lifetime, revoke tokens, or not answer; the process may restart.

**BanCheck.** `Lookup`, `ReadRow`, `Store` are the three steps of the middleware
between which other requests run; time is counted in ticks by ages (`calm`,
`age`) and remaining lifetimes (`left`), so that the state stays finite. An entry
is a hit at its expiry too (`now.After(expiresAt)`), hence `TTL + 1`.

**HmacGate.** `session[u]` is "plain" or "keyed" by the mode at sign-in,
`Redeploy` changes the mode, `Verify` goes through the checks of `verifyRequest`
in their order, among them the SetNX of the nonce before the secret is looked
at. `again`, `hurt` and `verified` are history. Its nonces are remembered for ever;
what that is worth is the question of `NonceWindow`.

**NonceWindow.** One request that comes in any number of times (`Copies`), in
fractions of a second (`Second` of them in each). A copy reads the clock and
compares the timestamp (`CheckTimestamp`), then waits for Redis for up to `Delay`
(`SetNX`). Redis forgets the nonce at `kept`. The window is closed at both ends and
counted in whole seconds, so it spans up to one second more than `2 * Window`, which is
the code's `nonceTTL`; how much of it can be left when the nonce is gone depends on
when the first copy came in. `WindowAssumption` is the condition
under which nothing is: `Ahead + Window + Second + Delay <= TTL`. With 300 s and
600 s it asks that the sender's clock and the slowest call to Redis together take
no more than 299 s. `NonceOutlivesWindow` says that one copy at most is verified,
`LateNeverVerified` that none is after the window, a second and the wait for Redis.
They are proved, for time without end, and have no run.

**RequestPipeline** EXTENDS `BanCheck` and conjoins its steps: `BanStep` is a
`Lookup`, `ReadRow` or `Store` of `BanCheck` and, when that answers, the move of
the request to the next middleware or its 403. `TimePasses` is `Tick`, `Restarts`
is `Restart` with a new value of the gate. `req[r]` is the request in slot `r`
with what the middlewares put into `c.Locals`: `user`, `exhibition`. Three chains
are told apart: "signed" (records and, without the gate, events), "profile"
(`/user/me`) and "open" (consents, where the handler looks the session up by
itself). A row of consents has the device that sent it (`client`; a device is
named by its player) and a `user`, or none. Sign-in is one step here, and
verification fails only by a fault; why either fails is in `SignIn` and
`HmacGate`.

**EntBuilder** and its entities. The 61 000 lines of `ent/` are the same few
files for each entity, so the model splits the same way: `EntBuilder` has the
logic of a builder once, and a module like `EntRecord` lists, file by file, which
columns and edges the generated code of that entity handles there: setters
offered, defaults filled, values checked, columns handed to sqlgraph by Create, by
Update and by UpdateOne, columns selected and scanned, edges loaded. All of it is
read off the generated code, not off `ent/schema`, so that a line missing from one
of the two updates is a column missing from one of two sets. A behaviour follows
one column or one-to-many edge (`focus`) of one entity through calls in any order
(`Set`, `Add`, `Clear`, `Unlink`, `Reset`, `ResetEdge`, and those on children),
`SaveCreate`, `SaveUpdate` and `Delete`; `wish` remembers what the calls asked
for. What PostgreSQL refuses (NULL in a required column, a dangling foreign key,
a column assigned twice) is modelled from how the code relies on it. A value is
"good" or "bad" as the schema's validators see it. An increment passes none, so the
sum of a validated column may be either (`Sums`).

## The runs

| Run | Shows |
|---|---|
| `ingest` | Two handlers, three requests, two faults, `SANITY_MODE=enforce`. An id is stored once (`UniqueClientIds`), EXP is written once for a record (`CreditedOnce`), answers are true and stay so (`AnswersAreDurable`), EXP is never invented (`ExpIsEarned`), the level never outruns it (`LevelIsEarned`). EXP is lost only where two updates of one user stand between read and write at once (`ExpLostOnlyByRaces`); a level the stored EXP pays for stays due only after a failed call (`LevelIsDue`), and `user_after` of a batch, old as it may be, is a row the user has had since the last gain reported (`UserAfterWasCurrent`). The handlers implement `RecordLedger` (`ImplementsLedger`). |
| `ingest_lost_exp` | violation: two requests of one user lose EXP without any fault (`ExpIsCumulative`) |
| `ingest_exhibition` | violation: the batch route pays EXP for an exhibition play (`ExhibitionEarnsNothing`) |
| `offline_queue` | Two devices that play while they upload, one with more plays than a batch may hold, two faults among crashes, timeouts, failed calls: what a queue forgets is stored or rejected (`ForgottenIsSettled`); every queue empties again and again (`QueueDrains`) |
| `play_and_ban` | A behaviour is one of `PlayRules` or one of `BanCheck` (`MCPlayAndBan`). Honest plays pass the sanity rules (`HonestPlaysPass`); stored rank and coefficient key mean the same rank (`RankSpellingsAgree`); a better judgment never earns less (`BetterNeverEarnsLess`). A ban or unban older than TTL plus the slowest read decides every answer given on evidence (`StalenessBounded`) |
| `client_logs` | One row per key (`OneRowPerKey`); "accepted", and the first "duplicate" of a key in a batch, mean a row (`DroppedIsStored`) |
| `signin` | `OneAccountPerPlayer`, `NoSessionUnderBan`, and whatever failed before, a player who is not banned gets sessions again and again (`SignInHeals`) |
| `stove_token` | A token of sufficient stated life is alive until the call that carries it ends (`TokenAliveOnArrival`); one fetch at a time, and none while the cached token is good (`NoFetchWhileFresh`); a wait for the mutex is bounded by the timeouts of the others (`WaitBound`) and every sign-in ends (`Answered`); a revoked token is given out for a while, not for ever (`RevokedTokenIsDropped`) |
| `hmac` | A signed request is verified once (`VerifiedOnce`); a signing client is refused only if its request came twice or met a fault (`RefusedForCause`); a lockout by an old session ends (`LockoutEnds`) |
| `pipeline` | No handler works for a player whose ban is older than the cache, the slowest read and the rest of the chain take (`BanReachesTheHandler`); a ban that is lifted for good lets the player back in (`ReturnsAfterBan`); the exhibition build hears the same from boot to restart, though its account be banned and Redis gone (`BoothDecidedAtBoot`); a consent is stored for the device and the player who sent it, without a user only if session or Redis was gone, and by no request but those that carry it (`ConsentNamesItsSender`) |
| `pipeline_consent` | violation: a sign-in does not link the consents given before it (`SigninLinksConsents`) |
| `ent_builder` | For every entity, column and one-to-many edge: a save does what its calls asked for (`CallsAreKept`) and touches nothing else (`OtherColumnsKept`); no builder sets a column to what the schema or the table forbids, so that only increments may leave an invalid value (`InvalidNeverStored`), `check` leaves only the listed cases to the database (`RefusalsAreExpected`), and a query returns what was saved (`SavedIsReadBack`) |

A type invariant that is proved is not checked again, unless reads of the table
depend on it (`ingest`, `play_and_ban`), or it says what cells a builder may store
(`EntTypeOK`).

**Bounds.** `MaxRequests`, `MaxFaults`, `MaxRedeploys` and `MaxNotes` are guards
and named as such. Three ingest requests with two handlers are enough for two
that overlap and a retry of one of them; two faults for a failure that meets the
failure of its own fallback, or a lost answer followed by a crash. Four record
ids: the requests of a run ask for at most that many rows (two ids and the rows
without one), so no insert waits for an id; two in `offline_queue`, whose devices
have two plays that can be stored. Requests overlap in an id across
users and within one batch, with payloads that earn, earn nothing, or cannot be
stored. Levels ask for 0, 2 and 3 EXP and plays give 1 or 2, so one play can
cross two thresholds and orders of updates differ in sum and level. In
`client_logs` two requests fill at most four rows. In `offline_queue` one device has
three plays and batches of two, so a second batch starts where the first ended; two of
its plays are refused by the database, and the play of the other device has an id the
first one uses too. In `play_and_ban`, `BanCheck` has two ticks of
TTL and one of delay, so a read can be stored after a later one. `hmac` takes two
roll-outs after the first mode, which covers every sequence of up to three modes.
Quotients by up to seven notes cover exact, rounded up and rounded down.

`stove_token` has three sign-ins, one holder and two that queue, a timeout of one
tick (as in the code, far below the margin of two), and tokens that state a life
of 4 (longer than the margin), 1 (shorter) or nothing. `pipeline` has one account
that is both the exhibition's and a player's, two requests at a time, of which one
slot is the player's (`PlayerSlots`), TTL and slowest read of one tick, and one
fault (none in `pipeline_consent`); an entry then outlives a ban by up to two ticks and the chain adds one.
Two requests are enough for an old read stored over a newer one. `ent_builder`
takes all fourteen entities with every column and edge as focus, three calls on a
builder (set, undo, and something else) and three saves (a create, an update, and
a second update or a delete); columns other than the focus get good values, which
is sound because the builders treat columns independently but for the checks of
Create, and these run over all of them.

**Symmetry** is used for uuids, for the handlers of `ingest` and, in `play_and_ban`,
for users and requests, in runs whose properties are all safety properties.
Neither the specifications nor the properties choose among the permuted values
(`OwnerOf` chooses from a set that never has two members).

**Deadlock** is checked except where the budget of requests or saves ends the
behaviour (`ingest*`, `client_logs`, `ent_builder`) or the last play of the last
device is answered (`offline_queue`).

**Fairness.** Handlers run to their response: database, Redis and HTTP calls
return or time out, and nothing in a handler waits for another request.
`OfflineQueue` assumes that clients with a queue try again (nobody has to play), `SignIn` that a
game without session asks for one, `HmacGate` that clients sign in, send, and
that sessions expire (24 h in Redis). Fairness is weak and per device or handler.
Failures are bounded, so liveness says: once they end, this happens. `SignInHeals`
asks moreover that the player stays unbanned. No fairness is assumed of faults,
deployments, bans or arrivals.

`StoveToken` assumes that the goroutine that holds the mutex runs, that every HTTP
call ends by answer or by the timeout its client sets (`HTTPEnds`), and that time
passes; it does not assume that Stove ever answers. `RequestPipeline` asks for
weak fairness of each request's steps in the server and for strong fairness of
three actions that the model makes wait now and then: a player signs in, and
sends, whenever that is possible again and again (a slot is not always free), and
time passes (a tick waits for calls that have used up theirs).

## The proofs

Constants are arbitrary sets and numbers with the assumptions named in the
modules. `IngestAssumption`, `LevelTableAssumption`: `NoId`, `NoUser`, `NoRecord`
are no proper values, a request has at least one item, a single request has one
without id, the level table is a function into Nat. `WindowAssumption`, a hypothesis of the theorems about
`NonceWindow`: the lead of the sender's clock, the window, a second and the wait for
Redis fit into the lifetime of a nonce. `BanAssumption`: TTL is
positive. `StoveAssumption`: twice the timeout of the HTTP client is at most the
margin (10 s and 5 min in the code). `PipelineAssumption`: the exhibition account
is a row of `users`. Those of the other modules are alike. Nothing is assumed
about the numbers of users, handlers, requests, deployments or faults.

| Theorem | Statement |
|---|---|
| `TypeCorrect` | `Spec => []TypeOK` (`RecordIngest`) |
| `OneRecordPerClientId` | `Spec => []UniqueClientIds` |
| `ExpOncePerRecord` | `Spec => []CreditedOnce` |
| `AnswersDurable` | `Spec => []AnswersAreDurable` |
| `LevelEarned` | `Spec => []LevelIsEarned` |
| `ExpEarnedByRecords` | `Spec => []ExpIsEarned` |
| `LevelDue` | `Spec => []LevelIsDue` |
| `LedgerRefinement` | `Spec => ImplementsLedger` |
| `OnlyRacesLoseExp` | `HistorySpec => []ExpLostOnlyByRaces` (`RecordHistory`) |
| `UserAfterReal` | `HistorySpec => []UserAfterWasCurrent` |
| `NoPlayIsDropped` | `QueueSpec => []ForgottenIsSettled` (`OfflineQueue`) |
| `LogInvariance`, `LogTypeCorrect` | `LogSpec => []LogInv`, `[]LogTypeOK` |
| `OneRowForAKey` | `LogSpec => []OneRowPerKey` |
| `AnswersAreStored` | `LogSpec => []DroppedIsStored` |
| `SignInInvariance`, `SignInTypeCorrect` | `SignInSpec => []SignInInv`, `[]SignInTypeOK` |
| `OneAccountEach` | `SignInSpec => []OneAccountPerPlayer` |
| `BannedGetNoSession` | `SignInSpec => []NoSessionUnderBan` |
| `StoveInvariance`, `StoveTypeCorrect` | `Spec => []StoveInv`, `[]StoveTypeOK` (`StoveToken`) |
| `FetchExclusion` | `Spec => []NoFetchWhileFresh` |
| `ServerTokenAlive` | `Spec => []TokenAliveOnArrival` |
| `LineInvariance`, `WaitIsBounded` | `Spec => []LineInv`, `[]WaitBound` |
| `BanInvariant`, `BanTypeCorrect` | `BanSpec => []BanInv`, `[]BanTypeOK` |
| `BanTakesHold` | `BanSpec => []StalenessBounded` |
| `GateInvariance`, `GateTypeCorrect` | `GateSpec => []GateInv`, `[]GateTypeOK` |
| `VerificationOnce` | `GateSpec => []VerifiedOnce` |
| `RefusalsHaveCauses` | `GateSpec => []RefusedForCause` |
| `WindowInvariance` | `WindowAssumption /\ WindowSpec => []WindowInv` |
| `OneCopyVerified`, `NoLateCopyVerified` | `WindowAssumption /\ WindowSpec => []NonceOutlivesWindow`, `LateNeverVerified` |
| `PipelineInvariance` | `PipelineSpec => []PipelineInv` |
| `PipelineChecksBans` | `PipelineSpec => BanSpec` |
| `BansReachHandlers` | `PipelineSpec => []BanReachesTheHandler` |
| `BoothIsDecidedAtBoot` | `PipelineSpec => BoothDecidedAtBoot` |
| `ConsentSigned` | `PipelineSpec => ConsentNamesItsSender` |
| `ClientCoherent` | `\A e \in DOMAIN Client : Coherent(Client[e])` (`EntSchema`) |
| `EntInvariant`, `EntTypeCorrect` | `Spec => []EntInv`, `[]EntTypeOK` (`EntBuilder`) |
| `InvalidStaysOut`, `SavedComesBack` | `Spec => []InvalidNeverStored`, `[]SavedIsReadBack` |
| `CallsKept`, `OthersKept` | `Spec => CallsAreKept`, `OtherColumnsKept` |
| `RefusalsExpected` | `Spec => RefusalsAreExpected` |
| `PlayInvariance` | `PlaySpec => []PlayInv` (`PlayRules`) |
| `HonestPass`, `SpellingsMeanOneRank` | `PlaySpec => []HonestPlaysPass`, `[]RankSpellingsAgree` |
| `BetterEarnsNoLess` | `PlaySpec => []BetterNeverEarnsLess` |

*Record ingest.* `CreditedOnce` is not inductive: a handler about to write EXP
could be in debt for a record that was credited already. `IInv` adds that a
handler that owes an update works on the row it saved itself, which nobody has
credited (`OwesItsOwn`), that no two owe for one row (`OwedApart`), and that only
rows in the table are credited (`UnsavedUncredited`), with ids of rows
distinct. `AnswersAreDurable` needs the same of the answers a handler has
collected (`ResultsAreBacked`), `LevelIsEarned` of the values computed
but not yet written (`SnapIsEarned`). The proof first classifies steps
(`StepShape`): a step leaves table and debts alone or shrinks them, saves one
row, or pays one debt; the identity part of `IInv` is shown for these three
cases instead of eleven actions. `LedgerRefinement` uses the same invariant:
a save is `Store`, a payment is `Credit`, a debtor that gives up or dies is
`Close`, everything else stutters.

*EXP and level.* What a user was credited with is a sum over a set, which the prover
cannot unfold. `Earned` is therefore the size of a set: `Points(u)` has one element
for every unit of EXP of every credit of the user's records, so a payment adds
a disjoint set of `Gain` elements (`PointsPaid`, by the library's facts on
cardinalities) and a new row adds none. `ExpIsEarned` needs the same of rows
computed but not yet written: they exceed what is earned by the play at hand at most
(`SnapIsBacked`), which holds at the read and stays true as others are paid. A
payment that is lost leaves `Points` growing and `exp` behind, never the reverse.
`LevelIsDue` needs `SnapIsDue`: exp and level of a row are written together from one
lookup, so an overwritten update takes its level with it. Only a failed call to the
level table may leave a level due, hence `faults = 0`; a user without EXP is left out,
since nothing has looked up the levels that cost none.

*Overlaps.* `RecordHistory` turns the inequality of `ExpIsEarned` into an equation. A
user not in `raced` has exp equal to `Earned`, because a handler about to write read the very
row it overwrites (`SnapIsCurrent`): had the row changed since, another writer of that
user would have stood between its read and its write at the same time, and
`RacedIsKept` would know. `UserAfterWasCurrent` needs to know in every step of a batch
what it needs at the end: that `shown` has the user's row of now, and `user_after`
since the first item (`ShownFollows`). A write that takes effect makes the row the one
that the answer mirrors; a write without effect must leave `user_after` alone.

*Offline queue.* `ForgottenIsSettled` needs to know what a response is about when it
comes: the one awaited answers a batch that starts right after the last play deleted
(`AwaitedIsOldest`; later plays are queued behind it), and its answers are in the
order of its items, each final or with a row under its id (`AnswersInOrder`). The
latter uses that the ids of a device differ, or an item would be answered as a
repetition of one before it. A response nobody waits for any more deletes nothing, so
that uploads may overlap as they please; rows and sent answers only grow.

*Ban check.* `StalenessBounded` needs to know how old the evidence in the cache
may be. `OldReads`: what a request read and contradicts the table was read
before the last change, so the time since that change is at most the age of the
read. `OldEntries`: for a stored entry, time since the change plus remaining
lifetime is at most `TTL + 1 + SlowestRead`. A hit has at least one tick left,
which gives the bound.

*The chain.* Every step of `RequestPipeline` is a step of `BanCheck` or leaves its
variables alone (`PipelineChecksBans`), so `BanInv` carries over. `InBanCheck`
ties the two together: a request is at its ban check just when `BanCheck` has a
call for it, of the same user. From there `BanReachesTheHandler` follows by
ageing: at the moment of the answer the ban is at most TTL and the slowest read
old, and a request past the check cannot be overtaken by more than `SlowestRead`
ticks. `calm` is capped at a horizon that the bound plus this age stays below;
that is why the horizon is `TTL + 2 * SlowestRead + 1`. `MarkedAtGate` (who has
the key is at the session check or past the whole chain) gives
`BoothDecidedAtBoot`, `CarriesConsent` (a request on its way to
the consents has the device and the player of its session, if it has any) gives
`ConsentNamesItsSender`.

*Stove token.* The code compares `tokenExpiry` with the clock, and never looks at
the token again. `CacheOutlives` says what that is worth: while the cached token
counts as fresh it lives for the margin longer than that, less one timeout, the
time its own answer took. `UsesOutlive` takes off the second timeout, of the call
that carries it. What remains is positive by `StoveAssumption`; both invariants
need `AnswersAge`, about a token under way. `WaitBound` counts places in the queue:
nobody is in it twice and all but the head wait (`InLine`), and at place `i` one has
waited at most a timeout per place before it plus what the holder has taken so far
(`WaitsInTurn`). A tick passes for the waiting and the holder alike; when the holder
leaves, everyone moves up, and its time is at most the one timeout this is worth.
The queue is no longer than the number of calls, which is finite, by the pigeonhole
principle.

*HMAC.* Secrets come in pairs (`SecretsInPairs`), a request signed by its sender
meets a session with the secret (`SignedHasSecret`), and a request that came
once, unharmed, finds its nonce unspent (`NonceUnspent`); so no check but the
intended ones is left to refuse it, in whatever order modes are deployed.

*Nonce window.* Whoever is at Redis read the clock before the window was over
(`CheckedInTime`) and has waited for `Delay` at most, so it is there before `TTL` is
over; a nonce that was stored is kept until then or longer (`KeptOnceVerified`).

*Sign-in.* `NoSessionUnderBan` speaks of the whole time a sign-in ran, so the proof
needs that wherever the code reads "not banned", there was such a moment:
`CleanWhenFree` for the row as it is, `IssuesClean` for the copy the handler
holds. `OneAccountPerPlayer` rests on the unique index alone.

*Client logs.* What a handler will answer must be true before it answers
(`CollectsTruth`), and `seen` holds just the keys judged (`SeenIsJudged`); since
rows are only added, collected truths stay true, across other handlers and
crashes.

*Builders.* What makes a builder correct is that the generated files of an entity
fit together. `Coherent` says how: for instance, what a caller may set and is not
immutable is a column or a parent that Update and UpdateOne write; a column that
the schema validates is checked by every builder that writes it; a default of an
update is a stamp. Nothing of this is assumed: `ClientCoherent` proves it from the
lists of each of the fourteen entities, one lemma each. The rest of the proof never
looks at a column by name. `EntInv` adds that a mutation asks for what the calls
asked for (`WishIsAsked`), that it does so by methods its entity has (`Fits`), and
that an update has a row (`BuilderFits`). So an update that is not refused sets,
links, clears or increments its column, and does just one of them, because a column
assigned twice is refused (`UpdateDone`). A set is checked, an increment is not: what
the sum is matters to the incremented column alone (`SumIsAside`), and
`InvalidNeverStored` says of it that it was incremented. The remaining refusals are traced back to
the mutation the same way.

*Rules of plays.* The prover divides by constants well and by variables hardly, so
the proof starts from division as the product it undoes (`Division`, `Quotient`):
an accuracy rounded in whichever way is at most one off the server's (`AccuracyNear`).
The score needs that the game's running score is the sum over the counts
(`ScoreIsTotal`). `BetterNeverEarnsLess` leaves the outcomes of two plays to choose
independently; they stay ordered because the multipliers 1, 1.05 and 1.1 are further
apart than the product is inexact (`MoreForBetter`). Coefficients are whole
numbers of tenths, play and music times whole seconds, of any size.

*Only model-checked.* Liveness under fairness is out of reach of the prover; so
`QueueDrains`, `SignInHeals`, `Answered`, `RevokedTokenIsDropped`, `LockoutEnds`,
`ReturnsAfterBan`.

## Where code and documentation disagree

The first three have a run that shows them.

1. EXP of overlapping requests is lost (`usecase/record.go:191-209`), while
   `repository/user.go:117` speaks of cumulative EXP (`ingest_lost_exp`). `ingest`
   shows that this is the only way to lose any that was credited.
2. Exhibition plays earn EXP in batches (`usecase/record_batch.go:150`), not in
   single requests (`usecase/record.go:107`) (`ingest_exhibition`). The router
   expects exhibition clients to use single requests only.
3. `consent_logs.user_id` is documented as NULL before the login and filled in later
   by an UPDATE at sign-in (`ent/schema/consent_log.go:37`, `:45`, `:74`). It is
   written when the row is created (`repository/consent_log.go:36`) and never again
   (`pipeline_consent`).
4. Reject reasons are documented as deterministic (`domain/repository/record.go:70`),
   but any failed insert or lookup gets one (`usecase/record_batch.go:141`;
   `InsertError` and `ReFind` in `RecordIngest`).
5. Stove sign-in goes on after a failed profile call and overwrites the nickname
   (`usecase/stove.go:76-113`; `FetchProfile` and `UpdateProfile` in `SignIn`).
6. Sessions without a secret are documented as skipped
   (`infrastructure/session/redis_session.go:97`), but refused for enforced users
   (`middleware/hmac.go`; `Verify` in `HmacGate`).

Noticed while modelling:

- A batch item with an empty `client_record_id` is stored as NULL, and again when
  resent (`repository/record.go:45`), although the id is tagged required.
- The last Steam app id decides between 401 and 500 (`usecase/steam.go:267-280`).
- The accuracy tolerance is not cut off at 0 and 10000
  (`usecase/sanity_validator.go:139-143`).
- The key of the exhibition build and the marker in `additional_info` are
  independent: a play with the first alone earns EXP for the exhibition account
  (`usecase/record.go:128`).
- A refusal of the server token by Stove leaves it in the cache until its expiry
  (`usecase/stove.go:266`).
- `AddPrice` passes no validator, so it may take a price below what `Positive()`
  allows (`ent/mutation.go:6394`); nothing in the server calls it. `InvalidNeverStored`
  shows that increments are the only source of invalid values in rows.
- `/user/me` is mounted below the prefix twice, at `/api/v1/api/v1/user/me`
  (`router/v1/user.go:11`), and a list of music at `/musics/actvie`
  (`router/v1/music.go:9`).

## What is not modelled

- Rate limiter of the consent routes (a library with counters of its own),
  request parsing, response wording, error log, validation helper: no state the
  properties are about.
- Signed bytes: a signature is right or absent. Redis losing a nonce before its
  time (eviction, a restart without its data), and clocks that jump.
- GET routes, music and stage lists: single queries. The profile has its chain in
  `RequestPipeline`; its handler reads nothing.
- `BanCache.Invalidate` and `SessionStore.Delete`: they have no caller.
- Of `ent/`: `CreateBulk`, upserts, paging and aggregation, queries along edges, hooks,
  interceptors and transactions, none of which the server uses; predicates
  (`where.go`) and orders, of which the repositories use a few comparisons of single
  columns, modelled where they are used (`Found`, the level lookup); the many-to-many
  view of `user_purchases` (`purchasers`, `purchased_products`), which is the same
  table as the edges modelled; the Go types of values.
- `docs/` (generated), dependency injection and configuration but for what other
  parts see of them: modes, the exhibition account, restarts.
- Queries on items, achievements, characters, products and purchases: tables that
  no code of the server uses. Their builders are modelled.

## The plan

Done: record ingest with its ledger, queue and proofs; the other writers (logs,
sign-in) and the readers with state of their own (ban cache, HMAC with its nonces, Stove token),
all with proofs; the chains around them, composed with the ban cache; the pure
rules and the builders of the database access layer, with proofs. What is left: an
abstract log that `ClientLog` and the batch route of `RecordIngest` implement.
