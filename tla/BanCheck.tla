------------------------------ MODULE BanCheck ------------------------------
(***************************************************************************)
(* BanCheckMiddleware and its cache.  The operator bans by updating the    *)
(* users table; nobody tells the cache, whose entries live for TTL.  A     *)
(* request looks its user up in the cache under the read lock; a miss      *)
(* reads the row (no lock held), then stores what it read under the write  *)
(* lock and answers: three steps with others between, so an old read may   *)
(* be stored over a newer one.  A failed read lets the request through and *)
(* stores nothing.  Requests here are those of signed-in users; exhibition *)
(* requests pass the middleware untouched.                                 *)
(*                                                                         *)
(* Time is counted in ticks, by ages and remaining lifetimes rather than   *)
(* by a clock.  The middleware sets no deadline on the read; SlowestRead   *)
(* bounds how long a read row may wait to be stored, so that a bound on    *)
(* the staleness of the answer can be stated.                              *)
(***************************************************************************)
EXTENDS Naturals

CONSTANTS
  Users,
  Requests,     \* slots for requests inside the middleware
  TTL,          \* BanCheckTTL, in ticks
  SlowestRead,  \* ticks from the read of a row to its Store, at most
  NoUser

ASSUME BanAssumption ==
  /\ NoUser \notin Users
  /\ TTL \in Nat \ {0}
  /\ SlowestRead \in Nat

VARIABLES
  banned,  \* users.is_banned
  calm,    \* calm[u]: ticks since is_banned last changed, capped
  cache,   \* cache[u]: the entry and for how many ticks it is a hit
  call,    \* what each request is doing
  last     \* history: the last answer of the present tick

banVars == <<banned, calm, cache, call, last>>

\* No evidence is this old, nor is what a request does by it once it has
\* waited for SlowestRead more: the counters of calm stop here.
Horizon == TTL + 2 * SlowestRead + 1

NoEntry == [banned |-> FALSE, left |-> 0]
IdleCall == [step |-> "idle", user |-> NoUser, banned |-> FALSE, age |-> 0]

Entries == [banned : BOOLEAN, left : 0..(TTL + 1)]
Calls == [step : {"idle", "lookup", "read", "store"}, user : Users \cup {NoUser},
          banned : BOOLEAN, age : 0..SlowestRead]

\* "let" through by evidence, "open" because the read failed, or "refused".
Verdicts == {"none", "let", "open", "refused"}

BanInit ==
  /\ banned \in [Users -> BOOLEAN]
  /\ calm = [u \in Users |-> Horizon]
  /\ cache = [u \in Users |-> NoEntry]
  /\ call = [r \in Requests |-> IdleCall]
  /\ last = [u \in Users |-> "none"]

-----------------------------------------------------------------------------
CallBecomes(r, c) == call' = [call EXCEPT ![r] = c]

Answers(r, verdict) ==
  /\ CallBecomes(r, IdleCall)
  /\ last' = [last EXCEPT ![call[r].user] = verdict]

AnswersBy(r, isBanned) == Answers(r, IF isBanned THEN "refused" ELSE "let")

\* Mutant: no check for a missing user.
EnterAnonymous(r, u) ==
  /\ call[r].step = "idle"
  /\ CallBecomes(r, [IdleCall EXCEPT !.step = "lookup"])
  /\ UNCHANGED <<banned, calm, cache, last>>

Enter(r, u) ==
  /\ call[r].step = "idle"
  /\ CallBecomes(r, [IdleCall EXCEPT !.step = "lookup", !.user = u])
  /\ UNCHANGED <<banned, calm, cache, last>>

IsHit(u) == cache[u].left > 0

Miss(r) ==
  /\ ~IsHit(call[r].user)
  /\ CallBecomes(r, [call[r] EXCEPT !.step = "read"])
  /\ UNCHANGED last

\* Mutant: a hit renews the entry.
LookupSlides(r) ==
  /\ call[r].step = "lookup"
  /\ \/ /\ IsHit(call[r].user)
        /\ AnswersBy(r, cache[call[r].user].banned)
        /\ cache' = [cache EXCEPT ![call[r].user].left = TTL + 1]
     \/ Miss(r) /\ UNCHANGED cache
  /\ UNCHANGED <<banned, calm>>

\* A hit answers at once and leaves the entry's expiry alone.
Lookup(r) ==
  /\ call[r].step = "lookup"
  /\ \/ /\ IsHit(call[r].user)
        /\ AnswersBy(r, cache[call[r].user].banned)
     \/ Miss(r)
  /\ UNCHANGED <<banned, calm, cache>>

\* Mutant: a failed read counts as "not banned" and is stored.
ReadRowCached(r) ==
  /\ call[r].step = "read"
  /\ \E b \in {banned[call[r].user], FALSE} :
       CallBecomes(r, [call[r] EXCEPT !.step = "store", !.banned = b])
  /\ UNCHANGED <<banned, calm, cache, last>>

ReadRow(r) ==
  /\ call[r].step = "read"
  /\ \/ /\ CallBecomes(r, [call[r] EXCEPT !.step = "store",
                                          !.banned = banned[call[r].user]])
        /\ UNCHANGED last
     \/ Answers(r, "open")
  /\ UNCHANGED <<banned, calm, cache>>

\* The entry goes in whatever is there by now.  It is a hit up to and at its
\* expiry (now.After(expiresAt) misses): in this tick and the TTL next ones.
Store(r) ==
  /\ call[r].step = "store"
  /\ cache' = [cache EXCEPT ![call[r].user] =
                 [banned |-> call[r].banned, left |-> TTL + 1]]
  /\ AnswersBy(r, call[r].banned)
  /\ UNCHANGED <<banned, calm>>

\* UPDATE users SET is_banned = ...
Toggle(u) ==
  /\ banned' = [banned EXCEPT ![u] = ~@]
  /\ calm' = [calm EXCEPT ![u] = 0]
  /\ UNCHANGED <<cache, call, last>>

\* The process restarts: the cache is empty again.
Restart ==
  /\ cache' = [u \in Users |-> NoEntry]
  /\ call' = [r \in Requests |-> IdleCall]
  /\ UNCHANGED <<banned, calm, last>>

InTime == \A r \in Requests : call[r].step = "store" => call[r].age < SlowestRead

Tick ==
  /\ InTime
  /\ calm' = [u \in Users |-> IF calm[u] < Horizon THEN calm[u] + 1 ELSE Horizon]
  /\ cache' = [u \in Users |->
                 [cache[u] EXCEPT !.left = IF @ = 0 THEN 0 ELSE @ - 1]]
  /\ call' = [r \in Requests |->
                IF call[r].step = "store"
                THEN [call[r] EXCEPT !.age = @ + 1] ELSE call[r]]
  /\ last' = [u \in Users |-> "none"]
  /\ UNCHANGED banned

BanNext ==
  \/ \E r \in Requests : \/ Lookup(r) \/ ReadRow(r) \/ Store(r)
                         \/ \E u \in Users : Enter(r, u)
  \/ \E u \in Users : Toggle(u)
  \/ Restart
  \/ Tick

BanSpec == BanInit /\ [][BanNext]_banVars

-----------------------------------------------------------------------------
\* Every variable has its type, and a request at work is some user's.
BanTypeOK ==
  /\ banned \in [Users -> BOOLEAN]
  /\ calm \in [Users -> 0..Horizon]
  /\ cache \in [Users -> Entries]
  /\ call \in [Requests -> Calls]
  /\ last \in [Users -> Verdicts]
  /\ \A r \in Requests : call[r].step # "idle" => call[r].user \in Users

\* However requests overlap with each other and with the operator's updates,
\* and whichever order their reads are stored in, a ban (or its end) that has
\* stood for longer than TTL and the slowest read decides every answer but
\* that of a request whose own read failed.
StalenessBounded ==
  \A u \in Users :
    calm[u] > TTL + SlowestRead =>
      last[u] \in {"none", "open", IF banned[u] THEN "refused" ELSE "let"}

(***************************************************************************)
(* The inductive invariant: what contradicts the table was read before its *)
(* last change, so the age of a read, and the part of its lifetime an      *)
(* entry has behind it, bound the time since that change.                  *)
(***************************************************************************)
OldReads ==
  \A r \in Requests :
    call[r].step = "store" /\ call[r].banned # banned[call[r].user]
      => calm[call[r].user] <= call[r].age

OldEntries ==
  \A u \in Users :
    IsHit(u) /\ cache[u].banned # banned[u]
      => calm[u] + cache[u].left <= TTL + 1 + SlowestRead

\* Inductive: a hit is as fresh as its entry, an entry as fresh as its read.
BanInv ==
  /\ BanTypeOK
  /\ OldReads
  /\ OldEntries
  /\ StalenessBounded
=============================================================================
