------------------------------ MODULE ClientLog ------------------------------
(***************************************************************************)
(* Client logs: lobby events (POST /events/log, /events/log/batch) and     *)
(* consents (POST /consents/log, /consents/log/batch).  Both routes take   *)
(* entries with a key the client chose, answer each entry by itself, and   *)
(* run each request in a goroutine whose database calls interleave with    *)
(* those of the others.  A single POST is a batch of one entry.            *)
(*                                                                         *)
(* A behaviour is about one of the two.  They differ in this: an event log *)
(* stores the empty key as NULL, a consent log refuses it (it is no uuid); *)
(* an event has the user of the session, a consent is taken without one,   *)
(* and has a user only if a session was named and the session store could  *)
(* be read.                                                                *)
(***************************************************************************)
EXTENDS Naturals, Sequences

CONSTANTS
  Users,         \* each with a device of their own
  NoUser,        \* user_id NULL
  Handlers,
  RowIds,        \* primary keys the table may give
  Keys,          \* client_log_id or client_consent_id
  NoKey,         \* the empty one
  Entries,       \* payloads
  Storable,      \* payloads that pass validators and foreign keys
  Requests,      \* [device, session, items]: is a session named?
  MaxRequests,   \* bound: requests in a behaviour
  MaxFaults      \* bound: failed calls and crashes in a behaviour

LogItems == [key : Keys, entry : Entries]

ASSUME LogAssumption ==
  /\ NoUser \notin Users
  /\ NoKey \in Keys
  /\ Storable \subseteq Entries
  /\ Requests \subseteq [device : Users, session : BOOLEAN, items : Seq(LogItems)]
  /\ \A r \in Requests : r.items # <<>>
  /\ MaxRequests \in Nat
  /\ MaxFaults \in Nat

VARIABLES
  log,       \* "events" or "consents"
  sessions,  \* users whose device holds a live session
  rows,      \* the table
  job,       \* what each handler is doing
  told,      \* history: [req, results] of every response sent
  arrived,   \* requests received so far
  failures   \* faults so far

logVars == <<log, sessions, rows, job, told, arrived, failures>>

LogRows == [id : RowIds, device : Users, user : Users \cup {NoUser}, key : Keys,
            entry : Entries]
Statuses == {"accepted", "duplicate", "rejected"}
NoRequest == [device |-> NoUser, session |-> FALSE, items |-> <<>>]

\* A handler's locals: the request, the user_id its rows get, the keys seen
\* and the statuses so far.
IdleJob == [step |-> "idle", req |-> NoRequest, user |-> NoUser, seen |-> {},
            results |-> <<>>]

Jobs == [step : {"idle", "find", "create", "again", "answer"},
         req : Requests \cup {NoRequest}, user : Users \cup {NoUser},
         seen : SUBSET Keys, results : Seq(Statuses)]

LogInit ==
  /\ log \in {"events", "consents"}
  /\ sessions = {}
  /\ rows = {}
  /\ job = [h \in Handlers |-> IdleJob]
  /\ told = {}
  /\ arrived = 0
  /\ failures = 0

-----------------------------------------------------------------------------
LogFault == failures < MaxFaults /\ failures' = failures + 1
NoLogFault == UNCHANGED failures

Started(r, user) == [IdleJob EXCEPT !.step = "find", !.req = r, !.user = user]

JobBecomes(h, j) == job' = [job EXCEPT ![h] = j]
StepTo(h, step) == JobBecomes(h, [job[h] EXCEPT !.step = step])

ItemOf(h) == job[h].req.items[Len(job[h].results) + 1]

\* A key finds its row; NULL is no key, and in a consent log the empty key is
\* an error before any query.
RowsOf(key) == {r \in rows : r.key = key /\ key # NoKey}

Judged(h, status) ==
  JobBecomes(h,
    [job[h] EXCEPT
       !.step = IF Len(job[h].results) + 1 < Len(job[h].req.items)
                THEN "find" ELSE "answer",
       !.seen = @ \cup {ItemOf(h).key},
       !.results = Append(@, status)])

\* An event needs the session, a consent goes on without: no session named,
\* a session that is gone and a failed lookup all leave user_id NULL.
Accept(h, r) ==
  /\ job[h].step = "idle"
  /\ arrived < MaxRequests
  /\ arrived' = arrived + 1
  /\ \/ /\ r.session /\ r.device \in sessions
        /\ JobBecomes(h, Started(r, r.device))
        /\ NoLogFault
     \/ /\ log = "consents"
        /\ IF r.session /\ r.device \in sessions THEN LogFault ELSE NoLogFault
        /\ JobBecomes(h, Started(r, NoUser))
  /\ UNCHANGED <<sessions, rows, told>>

\* Signing in creates a session and touches no log; sessions expire.
SignIn(u) ==
  /\ u \notin sessions
  /\ sessions' = sessions \cup {u}
  /\ UNCHANGED <<rows, job, told, arrived, failures>>

Expire(u) ==
  /\ u \in sessions
  /\ sessions' = sessions \ {u}
  /\ UNCHANGED <<rows, job, told, arrived, failures>>

\* A key seen in this batch, or found in the table, is a duplicate; a failed
\* query counts as "not found".
Find(h) ==
  /\ job[h].step = "find"
  /\ \/ /\ \/ ItemOf(h).key \in job[h].seen
           \/ RowsOf(ItemOf(h).key) # {}
        /\ Judged(h, "duplicate")
        /\ NoLogFault
     \/ /\ ItemOf(h).key \notin job[h].seen
        /\ IF RowsOf(ItemOf(h).key) = {} THEN NoLogFault ELSE LogFault
        /\ StepTo(h, "create")
  /\ UNCHANGED <<sessions, rows, told, arrived>>

\* Mutant: the table has no unique key.
AdmissibleUnindexed(h) ==
  /\ log = "consents" => ItemOf(h).key # NoKey
  /\ ItemOf(h).entry \in Storable

\* What the repository and the database let in.
Admissible(h) ==
  /\ log = "consents" => ItemOf(h).key # NoKey
  /\ ItemOf(h).entry \in Storable
  /\ RowsOf(ItemOf(h).key) = {}

RowFor(h, id) ==
  [id |-> id, device |-> job[h].req.device, user |-> job[h].user,
   key |-> ItemOf(h).key, entry |-> ItemOf(h).entry]

Unused == RowIds \ {r.id : r \in rows}

CreateRow(h) ==
  /\ job[h].step = "create"
  /\ Admissible(h)
  /\ \E id \in Unused : rows' = rows \cup {RowFor(h, id)}
  /\ Judged(h, "accepted")
  /\ NoLogFault
  /\ UNCHANGED <<sessions, told, arrived>>

\* Refused, lost on the way, or saved with the answer lost.
CreateError(h) ==
  /\ job[h].step = "create"
  /\ \/ ~Admissible(h) /\ NoLogFault /\ UNCHANGED rows
     \/ LogFault /\ UNCHANGED rows
     \/ /\ Admissible(h)
        /\ LogFault
        /\ \E id \in Unused : rows' = rows \cup {RowFor(h, id)}
  /\ StepTo(h, "again")
  /\ UNCHANGED <<sessions, told, arrived>>

\* Mutant: the cause of a failed save is not looked into.
FindAgainTrusts(h) ==
  /\ job[h].step = "again"
  /\ Judged(h, "duplicate")
  /\ NoLogFault
  /\ UNCHANGED <<sessions, rows, told, arrived>>

FindAgain(h) ==
  /\ job[h].step = "again"
  /\ \/ /\ RowsOf(ItemOf(h).key) # {}
        /\ Judged(h, "duplicate")
        /\ NoLogFault
     \/ /\ IF RowsOf(ItemOf(h).key) = {} THEN NoLogFault ELSE LogFault
        /\ Judged(h, "rejected")
  /\ UNCHANGED <<sessions, rows, told, arrived>>

Respond(h) ==
  /\ job[h].step = "answer"
  /\ told' = told \cup {[req |-> job[h].req, results |-> job[h].results]}
  /\ JobBecomes(h, IdleJob)
  /\ UNCHANGED <<sessions, rows, arrived, failures>>

Killed ==
  /\ LogFault
  /\ \E h \in Handlers : job[h].step # "idle"
  /\ job' = [h \in Handlers |-> IdleJob]
  /\ UNCHANGED <<sessions, rows, told, arrived>>

JobStep(h) ==
  \/ Find(h)
  \/ CreateRow(h)
  \/ CreateError(h)
  \/ FindAgain(h)
  \/ Respond(h)

LogNext ==
  /\ \/ \E h \in Handlers : JobStep(h) \/ \E r \in Requests : Accept(h, r)
     \/ \E u \in Users : SignIn(u) \/ Expire(u)
     \/ Killed
  /\ UNCHANGED log

LogSpec == LogInit /\ [][LogNext]_logVars

-----------------------------------------------------------------------------
\* Every variable has its type, and a handler has an item at hand until the
\* last one is judged.
LogTypeOK ==
  /\ log \in {"events", "consents"}
  /\ sessions \subseteq Users
  /\ rows \subseteq LogRows
  /\ job \in [Handlers -> Jobs]
  /\ told \subseteq [req : Requests, results : Seq(Statuses)]
  /\ arrived \in 0..MaxRequests
  /\ failures \in 0..MaxFaults
  /\ \A h \in Handlers :
       /\ Len(job[h].results) <= Len(job[h].req.items)
       /\ job[h].step \in {"find", "create", "again"} <=>
            Len(job[h].results) < Len(job[h].req.items)
       /\ job[h].step # "idle" => job[h].req \in Requests

\* A key is stored once, whatever batches overlap and whichever retries come.
OneRowPerKey ==
  \A r, s \in rows : r.key = s.key /\ r.key # NoKey => r = s

\* An answer that lets the client drop an entry is true: "accepted", and the
\* first "duplicate" of a key in a batch, mean a row with that key.  A later
\* "duplicate" repeats the fate of the key's first entry, so it may stand for
\* an entry that was rejected.
Truthful(table, items, results) ==
  \A i \in DOMAIN results :
    LET key == items[i].key
        first == \A j \in 1..(i - 1) : items[j].key # key
    IN  /\ results[i] = "accepted" \/ (results[i] = "duplicate" /\ first)
             => \E r \in table : r.key = key
        /\ ~first => results[i] = "duplicate"

DroppedIsStored == \A t \in told : Truthful(rows, t.req.items, t.results)

(***************************************************************************)
(* What a handler must have right before it answers.                       *)
(***************************************************************************)
\* The answers a handler has collected are true already.
CollectsTruth ==
  \A h \in Handlers : Truthful(rows, job[h].req.items, job[h].results)

\* seen has the keys of the items judged, and none that is about to be stored.
SeenIsJudged ==
  \A h \in Handlers :
    /\ job[h].seen = {job[h].req.items[i].key : i \in DOMAIN job[h].results}
    /\ job[h].step \in {"create", "again"} => ItemOf(h).key \notin job[h].seen

LogInv ==
  /\ LogTypeOK
  /\ OneRowPerKey
  /\ CollectsTruth
  /\ SeenIsJudged
  /\ DroppedIsStored
=============================================================================
