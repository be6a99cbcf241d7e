------------------------------ MODULE StoveToken ------------------------------
(*****************************************************************************)
(* The server token with which the backend calls Stove.  A sign-in asks for  *)
(* it twice, to verify the player's token and to read the player's profile.  *)
(* getServerAccessToken answers from its cache, or fetches a new token over  *)
(* HTTP with tokenMu held: every other sign-in queues behind the fetch.      *)
(*                                                                           *)
(* Time is counted in ticks, so short that no answer arrives within the tick *)
(* of its question; only waiting and HTTP take any.  The queue is            *)
(* first come, first served: a sync.Mutex hands itself over in that order    *)
(* once a waiter has waited for a millisecond.  Stove is modelled from how   *)
(* the code uses it: it says how long a token lives, or says nothing.        *)
(*****************************************************************************)
EXTENDS Integers, Sequences, FiniteSets

CONSTANTS
  Calls,       \* slots for sign-ins under way
  Lifetimes,   \* what Stove may say in expires_in, 0 for nothing
  Timeout,     \* of the HTTP client
  Margin,      \* refreshBefore
  Default      \* the lifetime assumed when Stove says nothing

ASSUME StoveAssumption ==
  /\ Lifetimes \subseteq Nat
  /\ Timeout \in Nat \ {0}
  /\ Margin \in Nat
  /\ 2 * Timeout <= Margin
  /\ Default \in Nat \ {0}
  /\ IsFiniteSet(Calls)

VARIABLES
  cache,    \* the cached token
  fresh,    \* ticks until tokenExpiry
  queue,    \* the calls at tokenMu; its head holds it
  phase,    \* phase[c]
  step,     \* step[c]: what the token is for
  token,    \* token[c]: the token the call was handed, or is fetching
  busy,     \* busy[c]: ticks spent in the present HTTP call
  waited    \* waited[c]: ticks spent at tokenMu without holding it

vars == <<cache, fresh, queue, phase, step, token, busy, waited>>

(* A token: what Stove said of its life, what is left of it, and whether     *)
(* Stove has revoked it.                                                     *)
NoToken == [stated |-> 0, left |-> 0, revoked |-> FALSE]
Tokens == [stated : Nat, left : Nat, revoked : BOOLEAN]
Phases == {"idle", "queued", "fetching", "issued", "using"}
InHTTP == {"fetching", "issued", "using"}

(* A bug: no margin before the end of the token's life.                      *)
FreshToTheEnd(stated) == IF stated = 0 THEN Default ELSE stated

(* tokenExpiry, counted from the answer.                                     *)
Fresh(stated) ==
  LET life == IF stated = 0 THEN Default ELSE stated
  IN IF life <= Margin THEN life ELSE life - Margin

Init ==
  /\ cache = NoToken
  /\ fresh = 0
  /\ queue = << >>
  /\ phase = [c \in Calls |-> "idle"]
  /\ step = [c \in Calls |-> "verify"]
  /\ token = [c \in Calls |-> NoToken]
  /\ busy = [c \in Calls |-> 0]
  /\ waited = [c \in Calls |-> 0]

-------------------------------------------------------------------------------
Enter(c) ==
  /\ phase' = [phase EXCEPT ![c] = "queued"]
  /\ queue' = Append(queue, c)
  /\ token' = [token EXCEPT ![c] = NoToken]
  /\ busy' = [busy EXCEPT ![c] = 0]
  /\ waited' = [waited EXCEPT ![c] = 0]
  /\ UNCHANGED <<cache, fresh>>

(* SignInWithStove begins: verifyAccessToken asks for the server token.      *)
SignIn(c) ==
  /\ phase[c] = "idle"
  /\ step' = [step EXCEPT ![c] = "verify"]
  /\ Enter(c)

Holds(c) == queue # << >> /\ Head(queue) = c

(* A bug: the lock is released for the time of the fetch.                    *)
LookupUnlocked(c) ==
  /\ phase[c] = "queued" /\ Holds(c)
  /\ token' = IF fresh > 0 THEN [token EXCEPT ![c] = cache] ELSE token
  /\ phase' = [phase EXCEPT ![c] = IF fresh > 0 THEN "using" ELSE "fetching"]
  /\ queue' = Tail(queue)
  /\ UNCHANGED <<cache, fresh, step, busy, waited>>

(* A bug: every use of the cached token extends its life.                    *)
LookupExtending(c) ==
  /\ phase[c] = "queued" /\ Holds(c)
  /\ IF fresh > 0
     THEN /\ token' = [token EXCEPT ![c] = cache]
          /\ phase' = [phase EXCEPT ![c] = "using"]
          /\ queue' = Tail(queue)
          /\ fresh' = Fresh(cache.stated)
     ELSE /\ phase' = [phase EXCEPT ![c] = "fetching"]
          /\ UNCHANGED <<token, queue, fresh>>
  /\ UNCHANGED <<cache, step, busy, waited>>

(* The cached token is good until tokenExpiry; otherwise the request for a   *)
(* new one goes out, the lock held.                                          *)
Lookup(c) ==
  /\ phase[c] = "queued" /\ Holds(c)
  /\ IF fresh > 0
     THEN /\ token' = [token EXCEPT ![c] = cache]
          /\ phase' = [phase EXCEPT ![c] = "using"]
          /\ queue' = Tail(queue)
     ELSE /\ phase' = [phase EXCEPT ![c] = "fetching"]
          /\ UNCHANGED <<token, queue>>
  /\ UNCHANGED <<cache, fresh, step, busy, waited>>

(* Stove issues the token: its life runs before the answer arrives.  A token *)
(* Stove says nothing about lives as long as Stove likes.                    *)
Issue(c) ==
  /\ phase[c] = "fetching"
  /\ \E stated \in Lifetimes : \E left \in Lifetimes :
       /\ stated # 0 => left = stated
       /\ token' = [token EXCEPT ![c] =
                      [stated |-> stated, left |-> left, revoked |-> FALSE]]
  /\ phase' = [phase EXCEPT ![c] = "issued"]
  /\ UNCHANGED <<cache, fresh, queue, step, busy, waited>>

Fetched(c) ==
  /\ phase[c] = "issued"
  /\ cache' = token[c]
  /\ fresh' = Fresh(token[c].stated)
  /\ phase' = [phase EXCEPT ![c] = "using"]
  /\ queue' = Tail(queue)
  /\ busy' = [busy EXCEPT ![c] = 0]
  /\ UNCHANGED <<step, token, waited>>

(* A bug: a client without a timeout, whose call ends with an answer only.   *)
FetchFailsUntimed(c) ==
  /\ phase[c] = "issued"
  /\ phase' = [phase EXCEPT ![c] = "idle"]
  /\ queue' = Tail(queue)
  /\ token' = [token EXCEPT ![c] = NoToken]
  /\ step' = [step EXCEPT ![c] = "verify"]
  /\ busy' = [busy EXCEPT ![c] = 0]
  /\ waited' = [waited EXCEPT ![c] = 0]
  /\ UNCHANGED <<cache, fresh>>

(* A bug: a fetch that fails is tried again with the lock held.              *)
FetchRetried(c) ==
  /\ phase[c] \in {"fetching", "issued"} /\ busy[c] > 0
  /\ phase' = [phase EXCEPT ![c] = "fetching"]
  /\ token' = [token EXCEPT ![c] = NoToken]
  /\ busy' = [busy EXCEPT ![c] = 0]
  /\ UNCHANGED <<cache, fresh, queue, step, waited>>

(* The caller goes on without a token: the sign-in fails when it was to      *)
(* verify, and ends with a placeholder for the nickname when it was to read  *)
(* the profile.                                                              *)
FetchFails(c) ==
  /\ phase[c] \in {"fetching", "issued"}
  /\ phase' = [phase EXCEPT ![c] = "idle"]
  /\ queue' = Tail(queue)
  /\ token' = [token EXCEPT ![c] = NoToken]
  /\ step' = [step EXCEPT ![c] = "verify"]
  /\ busy' = [busy EXCEPT ![c] = 0]
  /\ waited' = [waited EXCEPT ![c] = 0]
  /\ UNCHANGED <<cache, fresh>>

(* verifyAccessToken has its answer; getMemberInfo asks for the token again. *)
Verified(c) ==
  /\ phase[c] = "using" /\ step[c] = "verify" /\ busy[c] > 0
  /\ token[c].left > 0 /\ ~token[c].revoked
  /\ step' = [step EXCEPT ![c] = "profile"]
  /\ Enter(c)

(* Any other end of the call, a refused server token among them: nothing of  *)
(* the cache changes.                                                        *)
Ended(c) ==
  /\ phase[c] = "using" /\ busy[c] > 0
  /\ phase' = [phase EXCEPT ![c] = "idle"]
  /\ token' = [token EXCEPT ![c] = NoToken]
  /\ step' = [step EXCEPT ![c] = "verify"]
  /\ busy' = [busy EXCEPT ![c] = 0]
  /\ waited' = [waited EXCEPT ![c] = 0]
  /\ UNCHANGED <<cache, fresh, queue>>

(* Stove revokes every token it has issued.                                  *)
Gone(t) == [t EXCEPT !.revoked = @ \/ t.left > 0]
Revoke ==
  /\ cache' = Gone(cache)
  /\ token' = [c \in Calls |-> Gone(token[c])]
  /\ UNCHANGED <<fresh, queue, phase, step, busy, waited>>

Restart ==
  /\ cache' = NoToken /\ fresh' = 0
  /\ queue' = << >>
  /\ phase' = [c \in Calls |-> "idle"]
  /\ step' = [c \in Calls |-> "verify"]
  /\ token' = [c \in Calls |-> NoToken]
  /\ busy' = [c \in Calls |-> 0]
  /\ waited' = [c \in Calls |-> 0]

(* Time passes.  No HTTP call outlives its timeout, and a call that has the  *)
(* lock and is not waiting for HTTP takes no time.                           *)
Less(n) == IF n = 0 THEN 0 ELSE n - 1
Older(t) == [t EXCEPT !.left = Less(@)]
Tick ==
  /\ \A c \in Calls :
       /\ phase[c] \in InHTTP => busy[c] < Timeout
       /\ phase[c] = "queued" => ~Holds(c)
  /\ cache' = Older(cache)
  /\ fresh' = Less(fresh)
  /\ token' = [c \in Calls |-> Older(token[c])]
  /\ busy' = [c \in Calls |-> busy[c] + IF phase[c] \in InHTTP THEN 1 ELSE 0]
  /\ waited' =
       [c \in Calls |-> waited[c] + IF phase[c] = "queued" THEN 1 ELSE 0]
  /\ UNCHANGED <<queue, phase, step>>

HTTPEnds(c) == Fetched(c) \/ FetchFails(c) \/ Verified(c) \/ Ended(c)

Next ==
  \/ \E c \in Calls : SignIn(c) \/ Lookup(c) \/ Issue(c) \/ HTTPEnds(c)
  \/ Revoke \/ Restart \/ Tick

Spec == Init /\ [][Next]_vars

(* The goroutine that has the lock runs, the client's timeout ends every     *)
(* HTTP call, and time passes.                                               *)
FairSpec ==
  /\ Spec
  /\ \A c \in Calls : WF_vars(Lookup(c)) /\ WF_vars(HTTPEnds(c))
  /\ WF_vars(Tick)

-------------------------------------------------------------------------------
(* Every variable has its type; no HTTP call is older than the timeout.       *)
StoveTypeOK ==
  /\ cache \in Tokens
  /\ fresh \in Nat
  /\ queue \in Seq(Calls)
  /\ phase \in [Calls -> Phases]
  /\ step \in [Calls -> {"verify", "profile"}]
  /\ token \in [Calls -> Tokens]
  /\ busy \in [Calls -> 0..Timeout]
  /\ waited \in [Calls -> Nat]

(* A server token that is sent to Stove is alive until the call that carries *)
(* it ends, although its life began before the answer that brought it, and   *)
(* it may be taken from the cache in its last tick: the five minutes of      *)
(* refreshBefore cover both HTTP calls.  Not so when Stove gives it less     *)
(* life than that, says nothing of it, or revokes it.                        *)
TokenAliveOnArrival ==
  \A c \in Calls :
    phase[c] = "using" /\ token[c].stated > Margin /\ ~token[c].revoked
      => token[c].left > 0

(* No token is fetched while one in the cache is good, and never two at a    *)
(* time: the lock covers the lookup, the call and the store.                 *)
NoFetchWhileFresh ==
  \A c \in Calls :
    phase[c] \in {"fetching", "issued"} => fresh = 0 /\ Holds(c)

(* When Stove does not answer, a sign-in waits for the lock as long as every *)
(* other one may take to time out, one after the other, and no longer.       *)
WaitBound ==
  \A c \in Calls :
    phase[c] = "queued" => waited[c] <= Timeout * (Cardinality(Calls) - 1)

(* Every sign-in ends: none waits for the lock for ever.                     *)
Answered == \A c \in Calls : phase[c] # "idle" ~> phase[c] = "idle"

(* A revoked token is given out until tokenExpiry, since a refusal by Stove  *)
(* does not touch the cache, but not for ever.                               *)
RevokedTokenIsDropped ==
  (fresh > 0 /\ cache.revoked) ~> (fresh = 0 \/ ~cache.revoked)

(***************************** Inductive invariant ***************************)

Counted(t) == t.stated > Margin /\ ~t.revoked

(* The cached token outlives its expiry by the margin, less the time its own *)
(* answer took.                                                              *)
CacheOutlives ==
  fresh > 0 /\ Counted(cache) => cache.left >= fresh + Margin - Timeout

(* A token that is on its way has lost what its call has taken.              *)
AnswersAge ==
  \A c \in Calls :
    phase[c] = "issued" /\ Counted(token[c])
      => token[c].left >= token[c].stated - busy[c]

(* A token in use still has the margin, less the two calls.                  *)
UsesOutlive ==
  \A c \in Calls :
    phase[c] = "using" /\ Counted(token[c])
      => token[c].left >= 1 + Margin - Timeout - busy[c]

StoveInv ==
  /\ StoveTypeOK
  /\ NoFetchWhileFresh
  /\ CacheOutlives
  /\ AnswersAge
  /\ UsesOutlive

(* The queue, of which nobody is in twice, is of those who wait for the lock *)
(* and of its holder; all but the first wait.                                *)
InLine ==
  /\ \A i, j \in 1..Len(queue) : queue[i] = queue[j] => i = j
  /\ \A i \in 1..Len(queue) :
       phase[queue[i]] \in {"queued"} \cup (IF i = 1 THEN {"fetching", "issued"} ELSE {})
  /\ \A c \in Calls : phase[c] = "queued" =>
       /\ busy[c] = 0
       /\ \E i \in 1..Len(queue) : queue[i] = c

(* What a wait may last before the i-th place in the queue is reached.       *)
Turn(i) == Timeout * (Cardinality(Calls) - i)

(* Whoever is at the i-th place has waited for those who were before him, a  *)
(* timeout for each, and for what the holder of the lock has taken so far.   *)
WaitsInTurn ==
  \A i \in 1..Len(queue) :
    phase[queue[i]] = "queued"
      => waited[queue[i]] <= Turn(i) + busy[queue[1]]

LineInv ==
  /\ StoveInv
  /\ InLine
  /\ WaitsInTurn
===============================================================================
