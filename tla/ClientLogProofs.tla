--------------------------- MODULE ClientLogProofs --------------------------
(***************************************************************************)
(* LogInv is inductive.  Rows are never taken away, so an answer that is   *)
(* true stays true; what has to be shown of an action is that the status   *)
(* it adds is true of the table it leaves.                                 *)
(***************************************************************************)
EXTENDS ClientLog, TLAPS

\* The item the handler's locals j are about.
At(j) == j.req.items[Len(j.results) + 1]
KeysOf(items, n) == {items[i].key : i \in 1..n}
AtItem == {"find", "create", "again"}

\* What the invariant says of one handler's locals.
Good(table, j) ==
  /\ j \in Jobs
  /\ Len(j.results) <= Len(j.req.items)
  /\ j.step \in AtItem <=> Len(j.results) < Len(j.req.items)
  /\ j.step # "idle" => j.req \in Requests
  /\ Truthful(table, j.req.items, j.results)
  /\ j.seen = KeysOf(j.req.items, Len(j.results))
  /\ j.step \in {"create", "again"} => At(j).key \notin j.seen

Typed ==
  /\ log \in {"events", "consents"}
  /\ sessions \subseteq Users
  /\ rows \subseteq LogRows
  /\ told \subseteq [req : Requests, results : Seq(Statuses)]
  /\ arrived \in 0..MaxRequests
  /\ failures \in 0..MaxFaults

AllGood == job \in [Handlers -> Jobs] /\ \A h \in Handlers : Good(rows, job[h])

\* The invariant, handler by handler.
LEMMA InvGivesGood ==
  LogInv => Typed /\ OneRowPerKey /\ AllGood /\ DroppedIsStored
<1> SUFFICES ASSUME LogInv
             PROVE  Typed /\ OneRowPerKey /\ AllGood /\ DroppedIsStored
  OBVIOUS
<1>1. Typed /\ OneRowPerKey /\ DroppedIsStored /\ job \in [Handlers -> Jobs]
  BY DEF LogInv, LogTypeOK, Typed
<1>2. ASSUME NEW h \in Handlers PROVE Good(rows, job[h])
  <2>1. job[h] \in Jobs
    BY <1>1
  <2>2. DOMAIN job[h].results = 1..Len(job[h].results)
    BY <2>1 DEF Jobs
  <2>3. job[h].seen = KeysOf(job[h].req.items, Len(job[h].results))
    BY <2>2 DEF LogInv, SeenIsJudged, KeysOf
  <2>4. job[h].step \in {"create", "again"} => At(job[h]).key \notin job[h].seen
    BY DEF LogInv, SeenIsJudged, ItemOf, At
  <2>5. Truthful(rows, job[h].req.items, job[h].results)
    BY DEF LogInv, CollectsTruth
  <2> QED BY <2>1, <2>3, <2>4, <2>5 DEF LogInv, LogTypeOK, Good, AtItem
<1> QED BY <1>1, <1>2 DEF AllGood

LEMMA GoodGivesInv ==
  Typed /\ OneRowPerKey /\ AllGood /\ DroppedIsStored => LogInv
<1> SUFFICES ASSUME Typed, OneRowPerKey, AllGood, DroppedIsStored PROVE LogInv
  OBVIOUS
<1>1. LogTypeOK
  BY DEF Typed, AllGood, Good, AtItem, LogTypeOK
<1>2. CollectsTruth
  BY DEF AllGood, Good, CollectsTruth
<1>3. SeenIsJudged
  <2> SUFFICES ASSUME NEW h \in Handlers
      PROVE  /\ job[h].seen = {job[h].req.items[i].key : i \in DOMAIN job[h].results}
             /\ job[h].step \in {"create", "again"} => ItemOf(h).key \notin job[h].seen
    BY DEF SeenIsJudged
  <2>1. DOMAIN job[h].results = 1..Len(job[h].results)
    BY DEF AllGood, Jobs
  <2>2. job[h].seen = {job[h].req.items[i].key : i \in DOMAIN job[h].results}
    BY <2>1 DEF AllGood, Good, KeysOf
  <2> QED BY <2>2 DEF AllGood, Good, At, ItemOf
<1> QED BY <1>1, <1>2, <1>3 DEF LogInv

-----------------------------------------------------------------------------
\* True answers stay true when the table grows.
LEMMA TruthStays ==
  ASSUME NEW small, NEW large, small \subseteq large, NEW items, NEW results,
         Truthful(small, items, results)
  PROVE  Truthful(large, items, results)
BY DEF Truthful

LEMMA GoodStays ==
  ASSUME NEW small, NEW large, small \subseteq large, NEW j, Good(small, j)
  PROVE  Good(large, j)
BY TruthStays DEF Good

\* A handler without a request has nothing to answer for.
LEMMA IdleIsGood == ASSUME NEW table PROVE Good(table, IdleJob)
<1>1. /\ IdleJob.step = "idle" /\ IdleJob.req = NoRequest /\ IdleJob.seen = {}
      /\ IdleJob.results = << >> /\ IdleJob.user = NoUser
      /\ NoRequest.items = << >>
  BY DEF IdleJob, NoRequest
<1>2. IdleJob \in Jobs
  BY DEF IdleJob, Jobs
<1>3. Truthful(table, << >>, << >>)
  BY DEF Truthful
<1>4. KeysOf(<< >>, 0) = {}
  BY DEF KeysOf
<1> QED BY <1>1, <1>2, <1>3, <1>4 DEF Good, AtItem

\* One more status: an acceptance needs the row, a duplicate the row or an
\* earlier item with the key, and an item whose key came before is a duplicate.
LEMMA OneMoreTruth ==
  ASSUME NEW table, NEW items, NEW results \in Seq(Statuses), NEW status \in Statuses,
         Truthful(table, items, results),
         LET key == items[Len(results) + 1].key
             seen == KeysOf(items, Len(results))
             stored == \E r \in table : r.key = key
         IN  /\ status = "accepted" => stored
             /\ status = "duplicate" => key \in seen \/ stored
             /\ status # "duplicate" => key \notin seen
  PROVE  Truthful(table, items, Append(results, status))
<1> DEFINE n == Len(results)
           more == Append(results, status)
<1>1. n \in Nat /\ DOMAIN results = 1..n /\ DOMAIN more = 1..(n + 1)
  OBVIOUS
<1>2. more[n + 1] = status /\ \A i \in 1..n : more[i] = results[i]
  OBVIOUS
<1> SUFFICES ASSUME NEW i \in 1..(n + 1)
    PROVE  LET key == items[i].key
               first == \A j \in 1..(i - 1) : items[j].key # key
           IN  /\ more[i] = "accepted" \/ (more[i] = "duplicate" /\ first)
                    => \E r \in table : r.key = key
               /\ ~first => more[i] = "duplicate"
  BY <1>1 DEF Truthful
<1>3. CASE i \in 1..n
  BY <1>1, <1>2, <1>3 DEF Truthful
<1>4. CASE i = n + 1
  <2>1. (\A j \in 1..(i - 1) : items[j].key # items[i].key)
          <=> items[n + 1].key \notin KeysOf(items, n)
    BY <1>1, <1>4 DEF KeysOf
  <2> HIDE DEF n, more
  <2> QED BY <1>2, <1>4, <2>1 DEF n
<1> QED BY <1>1, <1>3, <1>4

-----------------------------------------------------------------------------
\* At first there is nothing.
LEMMA InitGood == LogInit => LogInv
<1> SUFFICES ASSUME LogInit PROVE LogInv
  OBVIOUS
<1> USE DEF LogInit
<1>1. Typed
  BY LogAssumption DEF Typed
<1>2. IdleJob \in Jobs
  BY IdleIsGood DEF Good
<1>3. AllGood
  BY <1>2, IdleIsGood DEF AllGood
<1>4. OneRowPerKey /\ DroppedIsStored
  BY DEF OneRowPerKey, DroppedIsStored
<1> QED BY <1>1, <1>3, <1>4, GoodGivesInv

\* A step keeps the invariant if it takes no row away, leaves every handler
\* good, and adds no answer but a true one.
LEMMA StepKeeps ==
  ASSUME LogInv, Typed', rows \subseteq rows', OneRowPerKey',
         job' \in [Handlers -> Jobs],
         \A h \in Handlers : Good(rows, job'[h]) \/ Good(rows', job'[h]),
         \A t \in told' \ told : Truthful(rows, t.req.items, t.results)
  PROVE  LogInv'
<1>1. AllGood'
  BY GoodStays DEF AllGood
<1>2. DroppedIsStored
  BY InvGivesGood
<1>3. ASSUME NEW t \in told' PROVE Truthful(rows', t.req.items, t.results)
  <2>1. Truthful(rows, t.req.items, t.results)
    BY <1>2 DEF DroppedIsStored
  <2> QED BY <2>1, TruthStays
<1>4. DroppedIsStored'
  BY <1>3 DEF DroppedIsStored
<1>5. (Typed /\ OneRowPerKey /\ AllGood /\ DroppedIsStored => LogInv)'
  BY GoodGivesInv, PTL
<1> QED BY <1>1, <1>4, <1>5

\* The same for one handler that moves on.
LEMMA JobKeeps ==
  ASSUME LogInv, NEW h \in Handlers, NEW j, JobBecomes(h, j),
         Typed', rows \subseteq rows', OneRowPerKey',
         Good(rows, j) \/ Good(rows', j),
         \A t \in told' \ told : Truthful(rows, t.req.items, t.results)
  PROVE  LogInv'
<1>1. AllGood
  BY InvGivesGood
<1>2. j \in Jobs
  BY DEF Good
<1>3. job' = [job EXCEPT ![h] = j]
  BY DEF JobBecomes
<1>4. job' \in [Handlers -> Jobs]
  BY <1>1, <1>2, <1>3 DEF AllGood
<1>5. ASSUME NEW g \in Handlers PROVE Good(rows, job'[g]) \/ Good(rows', job'[g])
  <2>1. job'[g] = IF g = h THEN j ELSE job[g]
    BY <1>1, <1>3 DEF AllGood
  <2> QED BY <1>1, <2>1 DEF AllGood
<1> QED BY <1>4, <1>5, StepKeeps

\* The budget of faults is one.
LEMMA FailuresBounded ==
  ASSUME LogInv, LogFault \/ NoLogFault
  PROVE  failures' \in 0..MaxFaults
BY LogAssumption DEF LogInv, LogTypeOK, LogFault, NoLogFault

\* A handler between "find" and the last item has one at hand.
LEMMA ItemAtHand ==
  ASSUME LogInv, NEW h \in Handlers, job[h].step \in AtItem
  PROVE  /\ job[h] \in Jobs /\ Good(rows, job[h])
         /\ job[h].req \in Requests /\ job[h].results \in Seq(Statuses)
         /\ job[h].req.items \in Seq(LogItems)
         /\ Len(job[h].results) + 1 \in 1..Len(job[h].req.items)
         /\ ItemOf(h) = At(job[h]) /\ ItemOf(h) \in LogItems
<1>1. job[h] \in Jobs /\ Good(rows, job[h])
  BY InvGivesGood DEF AllGood
<1>2. job[h].req \in Requests /\ job[h].results \in Seq(Statuses)
  BY <1>1 DEF Good, AtItem, Jobs
<1>3. job[h].req.items \in Seq(LogItems)
  BY <1>2, LogAssumption
<1>4. Len(job[h].results) + 1 \in 1..Len(job[h].req.items)
  <2>1. Len(job[h].results) < Len(job[h].req.items)
    BY <1>1 DEF Good
  <2> QED BY <1>2, <1>3, <2>1
<1>5. ItemOf(h) = At(job[h]) /\ ItemOf(h) \in LogItems
  BY <1>3, <1>4 DEF ItemOf, At
<1> QED BY <1>1, <1>2, <1>3, <1>4, <1>5

\* On to another step of the same item.
LEMMA StepToKeeps ==
  ASSUME LogInv, NEW h \in Handlers, NEW step \in {"create", "again"},
         job[h].step \in AtItem, StepTo(h, step),
         ItemOf(h).key \notin job[h].seen,
         Typed', rows \subseteq rows', OneRowPerKey', UNCHANGED told
  PROVE  LogInv'
<1> DEFINE j == [job[h] EXCEPT !.step = step]
<1>1. JobBecomes(h, j)
  BY DEF StepTo
<1>2. /\ job[h] \in Jobs /\ Good(rows, job[h]) /\ ItemOf(h) = At(job[h])
      /\ job[h].req \in Requests
  BY ItemAtHand
<1>3. /\ j \in Jobs /\ j.step = step /\ j.req = job[h].req
      /\ j.seen = job[h].seen /\ j.results = job[h].results
  BY <1>2 DEF Jobs
<1> HIDE DEF j
<1>4. At(j) = At(job[h])
  BY <1>3 DEF At
<1>5. Good(rows, j)
  BY <1>2, <1>3, <1>4 DEF Good, AtItem
<1> QED BY <1>1, <1>5, JobKeeps

\* On to the next item, or to the answer.
LEMMA JudgedKeeps ==
  ASSUME LogInv, NEW h \in Handlers, NEW status \in Statuses,
         job[h].step \in AtItem, Judged(h, status),
         Typed', rows \subseteq rows', OneRowPerKey', UNCHANGED told,
         LET key == ItemOf(h).key
             stored == \E r \in rows' : r.key = key
         IN  /\ status = "accepted" => stored
             /\ status = "duplicate" => key \in job[h].seen \/ stored
             /\ status # "duplicate" => key \notin job[h].seen
  PROVE  LogInv'
<1> DEFINE n == Len(job[h].results)
           items == job[h].req.items
           j == [job[h] EXCEPT
                   !.step = IF n + 1 < Len(items) THEN "find" ELSE "answer",
                   !.seen = @ \cup {ItemOf(h).key},
                   !.results = Append(@, status)]
<1>1. JobBecomes(h, j)
  BY DEF Judged
<1>2. /\ job[h] \in Jobs /\ Good(rows, job[h]) /\ job[h].req \in Requests
      /\ job[h].results \in Seq(Statuses)
      /\ items \in Seq(LogItems) /\ n + 1 \in 1..Len(items)
      /\ ItemOf(h) = items[n + 1] /\ ItemOf(h) \in LogItems
  BY ItemAtHand DEF At
<1> DEFINE more == Append(job[h].results, status)
           seen == job[h].seen \cup {ItemOf(h).key}
           next == IF n + 1 < Len(items) THEN "find" ELSE "answer"
           k == [job[h] EXCEPT !.step = next, !.seen = seen, !.results = more]
<1>0. more \in Seq(Statuses) /\ seen \in SUBSET Keys /\ next \in {"find", "answer"}
  BY <1>2 DEF Jobs, LogItems
<1>3. /\ j \in Jobs /\ j.req = job[h].req
      /\ j.step = IF n + 1 < Len(items) THEN "find" ELSE "answer"
      /\ j.seen = job[h].seen \cup {ItemOf(h).key}
      /\ j.results = Append(job[h].results, status)
  <2>1. j = k
    OBVIOUS
  <2> HIDE DEF more, seen, next, j
  <2>2. k \in Jobs /\ k.req = job[h].req /\ k.step = next /\ k.seen = seen
        /\ k.results = more
    BY <1>0, <1>2 DEF Jobs
  <2> QED BY <2>1, <2>2 DEF more, seen, next
<1> HIDE DEF j, k
<1>4. n \in Nat /\ Len(j.results) = n + 1
  BY <1>2, <1>3
<1>5. job[h].seen = KeysOf(items, n)
  BY <1>2 DEF Good
<1>6. j.seen = KeysOf(items, n + 1)
  <2>1. 1..(n + 1) = 1..n \cup {n + 1}
    BY <1>4
  <2> HIDE DEF n, items
  <2>2. KeysOf(items, n + 1) = KeysOf(items, n) \cup {items[n + 1].key}
    BY <2>1 DEF KeysOf
  <2> QED BY <1>2, <1>3, <1>5, <2>2
<1>7. Truthful(rows', items, j.results)
  <2>1. Truthful(rows', items, job[h].results)
    BY <1>2, TruthStays DEF Good
  <2> QED BY <1>2, <1>3, <1>5, <2>1, OneMoreTruth
<1>8. /\ Len(j.results) <= Len(j.req.items)
      /\ j.step \in AtItem <=> Len(j.results) < Len(j.req.items)
  BY <1>2, <1>3, <1>4 DEF AtItem
<1>9. j.step \notin {"create", "again"}
  BY <1>3
<1>10. Good(rows', j)
  BY <1>2, <1>3, <1>4, <1>6, <1>7, <1>8, <1>9 DEF Good
<1> QED BY <1>1, <1>10, JobKeeps

-----------------------------------------------------------------------------
\* A new request has judged nothing.
LEMMA AcceptKeeps ==
  ASSUME LogInv, NEW h \in Handlers, NEW r \in Requests, Accept(h, r), UNCHANGED log
  PROVE  LogInv'
<1>1. Typed /\ OneRowPerKey
  BY InvGivesGood
<1>2. failures' \in 0..MaxFaults
  <2>1. LogFault \/ NoLogFault
    BY DEF Accept
  <2> QED BY <2>1, FailuresBounded
<1>3. /\ arrived' = arrived + 1 /\ arrived < MaxRequests
      /\ UNCHANGED <<sessions, rows, told>>
  BY DEF Accept
<1>4. Typed' /\ OneRowPerKey' /\ rows \subseteq rows' /\ told' \ told = {}
  BY <1>1, <1>2, <1>3, LogAssumption DEF Typed, OneRowPerKey
<1>5. PICK user \in Users \cup {NoUser} : JobBecomes(h, Started(r, user))
  <2>1. r.device \in Users
    BY LogAssumption
  <2> QED BY <2>1 DEF Accept
<1> DEFINE j == Started(r, user)
<1>6. /\ j.step = "find" /\ j.req = r /\ j.user = user /\ j.seen = {}
      /\ j.results = << >>
  BY DEF Started, IdleJob
<1>7. j \in Jobs
  <2>1. IdleJob \in Jobs
    BY IdleIsGood DEF Good
  <2> QED BY <2>1, <1>5 DEF Started, Jobs
<1>8. JobBecomes(h, j)
  BY <1>5
<1> HIDE DEF j
<1>9. r.items \in Seq(LogItems) /\ r.items # << >>
  BY LogAssumption
<1>10. Len(j.results) = 0 /\ 0 < Len(r.items)
  BY <1>6, <1>9
<1>11. Truthful(rows, r.items, j.results)
  BY <1>6 DEF Truthful
<1>12. KeysOf(r.items, 0) = {}
  BY DEF KeysOf
<1>13. Good(rows, j)
  BY <1>6, <1>7, <1>9, <1>10, <1>11, <1>12 DEF Good, AtItem
<1> QED BY <1>4, <1>8, <1>13, JobKeeps

\* Sessions come and go.
LEMMA SessionKeeps ==
  ASSUME LogInv, NEW u \in Users, SignIn(u) \/ Expire(u), UNCHANGED log
  PROVE  LogInv'
<1>1. Typed /\ OneRowPerKey /\ AllGood
  BY InvGivesGood
<1>2. sessions' \subseteq Users /\ UNCHANGED <<log, rows, job, told, arrived, failures>>
  BY <1>1 DEF SignIn, Expire, Typed
<1>3. Typed' /\ OneRowPerKey' /\ rows \subseteq rows' /\ told' \ told = {}
  BY <1>1, <1>2 DEF Typed, OneRowPerKey
<1>4. job' \in [Handlers -> Jobs] /\ \A h \in Handlers : Good(rows, job'[h])
  BY <1>1, <1>2 DEF AllGood
<1> QED BY <1>3, <1>4, StepKeeps

\* A step of a handler that stores nothing keeps the table.
LEMMA TableStays ==
  ASSUME LogInv, failures' \in 0..MaxFaults,
         UNCHANGED <<log, sessions, rows, told, arrived>>
  PROVE  Typed' /\ OneRowPerKey' /\ rows \subseteq rows'
<1>1. Typed /\ OneRowPerKey
  BY InvGivesGood
<1> QED BY <1>1 DEF Typed, OneRowPerKey

LEMMA FindKeeps ==
  ASSUME LogInv, NEW h \in Handlers, Find(h), UNCHANGED log
  PROVE  LogInv'
<1>1. failures' \in 0..MaxFaults
  <2>1. LogFault \/ NoLogFault
    BY DEF Find
  <2> QED BY <2>1, FailuresBounded
<1>2. /\ Typed' /\ OneRowPerKey' /\ rows \subseteq rows' /\ UNCHANGED <<told, rows>>
      /\ job[h].step \in AtItem
  BY <1>1, TableStays DEF Find, AtItem
<1>3. CASE /\ ItemOf(h).key \in job[h].seen \/ RowsOf(ItemOf(h).key) # {}
           /\ Judged(h, "duplicate")
  <2>1. ItemOf(h).key \in job[h].seen \/ \E r \in rows' : r.key = ItemOf(h).key
    BY <1>2, <1>3 DEF RowsOf
  <2> QED BY <1>2, <1>3, <2>1, JudgedKeeps DEF Statuses
<1>4. CASE ItemOf(h).key \notin job[h].seen /\ StepTo(h, "create")
  BY <1>2, <1>4, StepToKeeps
<1> QED BY <1>3, <1>4 DEF Find

\* The row of an admissible item is the first with its key.
LEMMA RowAdded ==
  ASSUME LogInv, NEW h \in Handlers, job[h].step = "create", Admissible(h),
         NEW id \in Unused, rows' = rows \cup {RowFor(h, id)},
         UNCHANGED <<log, sessions, told, arrived>>, failures' \in 0..MaxFaults
  PROVE  /\ Typed' /\ OneRowPerKey' /\ rows \subseteq rows'
         /\ \E r \in rows' : r.key = ItemOf(h).key
<1> DEFINE new == RowFor(h, id)
<1>1. Typed /\ OneRowPerKey
  BY InvGivesGood
<1>2. /\ job[h] \in Jobs /\ job[h].req \in Requests /\ ItemOf(h) \in LogItems
  BY ItemAtHand DEF AtItem
<1>3. job[h].req.device \in Users /\ job[h].user \in Users \cup {NoUser}
  BY <1>2, LogAssumption DEF Jobs
<1>4. new \in LogRows /\ new.key = ItemOf(h).key
  BY <1>2, <1>3 DEF RowFor, LogRows, LogItems, Unused
<1> HIDE DEF new
<1>5. rows' = rows \cup {new}
  BY DEF new
<1>6. Typed'
  BY <1>1, <1>4, <1>5 DEF Typed
<1>7. OneRowPerKey'
  BY <1>1, <1>4, <1>5 DEF OneRowPerKey, Admissible, RowsOf
<1> QED BY <1>4, <1>5, <1>6, <1>7

\* What the handler has not seen by the time it creates is not a repetition.
LEMMA UnseenAtCreate ==
  ASSUME LogInv, NEW h \in Handlers, job[h].step \in {"create", "again"}
  PROVE  job[h].step \in AtItem /\ ItemOf(h).key \notin job[h].seen
BY DEF LogInv, SeenIsJudged, AtItem

LEMMA CreateRowKeeps ==
  ASSUME LogInv, NEW h \in Handlers, CreateRow(h), UNCHANGED log
  PROVE  LogInv'
<1>1. /\ job[h].step = "create" /\ Admissible(h) /\ Judged(h, "accepted")
      /\ UNCHANGED <<sessions, told, arrived>>
  BY DEF CreateRow
<1>2. failures' \in 0..MaxFaults
  BY FailuresBounded DEF CreateRow
<1>3. PICK id \in Unused : rows' = rows \cup {RowFor(h, id)}
  BY DEF CreateRow
<1>4. /\ Typed' /\ OneRowPerKey' /\ rows \subseteq rows'
      /\ \E r \in rows' : r.key = ItemOf(h).key
  BY <1>1, <1>2, <1>3, RowAdded
<1> QED BY <1>1, <1>4, UnseenAtCreate, JudgedKeeps DEF Statuses

LEMMA CreateErrorKeeps ==
  ASSUME LogInv, NEW h \in Handlers, CreateError(h), UNCHANGED log
  PROVE  LogInv'
<1>1. /\ job[h].step = "create" /\ StepTo(h, "again")
      /\ UNCHANGED <<sessions, told, arrived>>
  BY DEF CreateError
<1>2. failures' \in 0..MaxFaults
  <2>1. LogFault \/ NoLogFault
    BY DEF CreateError
  <2> QED BY <2>1, FailuresBounded
<1>3. Typed' /\ OneRowPerKey' /\ rows \subseteq rows'
  <2>1. CASE UNCHANGED rows
    BY <1>1, <1>2, <2>1, TableStays
  <2>2. CASE Admissible(h) /\ \E id \in Unused : rows' = rows \cup {RowFor(h, id)}
    BY <1>1, <1>2, <2>2, RowAdded
  <2> QED BY <2>1, <2>2 DEF CreateError
<1> QED BY <1>1, <1>3, UnseenAtCreate, StepToKeeps

LEMMA FindAgainKeeps ==
  ASSUME LogInv, NEW h \in Handlers, FindAgain(h), UNCHANGED log
  PROVE  LogInv'
<1>1. failures' \in 0..MaxFaults
  <2>1. LogFault \/ NoLogFault
    BY DEF FindAgain
  <2> QED BY <2>1, FailuresBounded
<1>2. /\ Typed' /\ OneRowPerKey' /\ rows \subseteq rows' /\ UNCHANGED <<told, rows>>
      /\ job[h].step = "again"
  BY <1>1, TableStays DEF FindAgain
<1>3. job[h].step \in AtItem /\ ItemOf(h).key \notin job[h].seen
  BY <1>2, UnseenAtCreate
<1>4. CASE RowsOf(ItemOf(h).key) # {} /\ Judged(h, "duplicate")
  <2>1. \E r \in rows' : r.key = ItemOf(h).key
    BY <1>2, <1>4 DEF RowsOf
  <2> QED BY <1>2, <1>3, <1>4, <2>1, JudgedKeeps DEF Statuses
<1>5. CASE Judged(h, "rejected")
  BY <1>2, <1>3, <1>5, JudgedKeeps DEF Statuses
<1> QED BY <1>4, <1>5 DEF FindAgain

\* The response says what the handler has collected.
LEMMA RespondKeeps ==
  ASSUME LogInv, NEW h \in Handlers, Respond(h), UNCHANGED log
  PROVE  LogInv'
<1> DEFINE t == [req |-> job[h].req, results |-> job[h].results]
<1>1. Typed /\ OneRowPerKey /\ Good(rows, job[h]) /\ job[h].step = "answer"
  BY InvGivesGood DEF AllGood, Respond
<1>2. t \in [req : Requests, results : Seq(Statuses)]
  BY <1>1 DEF Good, Jobs
<1>3. Truthful(rows, t.req.items, t.results)
  BY <1>1 DEF Good
<1>4. told' = told \cup {t} /\ UNCHANGED <<sessions, rows, arrived, failures>>
  BY DEF Respond
<1> HIDE DEF t
<1>5. Typed' /\ OneRowPerKey' /\ rows \subseteq rows'
  BY <1>1, <1>2, <1>4 DEF Typed, OneRowPerKey
<1>6. JobBecomes(h, IdleJob)
  BY DEF Respond
<1> QED BY <1>3, <1>4, <1>5, <1>6, IdleIsGood, JobKeeps

LEMMA KilledKeeps ==
  ASSUME LogInv, Killed, UNCHANGED log
  PROVE  LogInv'
<1>1. failures' \in 0..MaxFaults
  BY FailuresBounded DEF Killed
<1>2. Typed' /\ OneRowPerKey' /\ rows \subseteq rows' /\ UNCHANGED told
  BY <1>1, TableStays DEF Killed
<1>3. job' \in [Handlers -> Jobs] /\ \A h \in Handlers : Good(rows, job'[h])
  BY IdleIsGood DEF Killed, Good
<1> QED BY <1>2, <1>3, StepKeeps

LEMMA NextKeeps == LogInv /\ [LogNext]_logVars => LogInv'
<1> SUFFICES ASSUME LogInv, [LogNext]_logVars PROVE LogInv'
  OBVIOUS
<1>1. CASE UNCHANGED logVars
  BY <1>1 DEF logVars, LogInv, LogTypeOK, OneRowPerKey, CollectsTruth, SeenIsJudged,
              ItemOf, DroppedIsStored
<1>2. ASSUME NEW h \in Handlers, JobStep(h), UNCHANGED log PROVE LogInv'
  BY <1>2, FindKeeps, CreateRowKeeps, CreateErrorKeeps, FindAgainKeeps, RespondKeeps
     DEF JobStep
<1>3. ASSUME NEW h \in Handlers, NEW r \in Requests, Accept(h, r), UNCHANGED log
      PROVE  LogInv'
  BY <1>3, AcceptKeeps
<1>4. ASSUME NEW u \in Users, SignIn(u) \/ Expire(u), UNCHANGED log PROVE LogInv'
  BY <1>4, SessionKeeps
<1>5. CASE Killed /\ UNCHANGED log
  BY <1>5, KilledKeeps
<1> QED BY <1>1, <1>2, <1>3, <1>4, <1>5 DEF LogNext

-----------------------------------------------------------------------------
\* The invariant holds in every reachable state.
THEOREM LogInvariance == LogSpec => []LogInv
<1> QED BY InitGood, NextKeeps, PTL DEF LogSpec

\* Every variable of the log routes keeps its type, and a handler judges its
\* items one by one to the last.
THEOREM LogTypeCorrect == LogSpec => []LogTypeOK
<1>1. LogInv => LogTypeOK
  BY DEF LogInv
<1> QED BY <1>1, LogInvariance, PTL

\* The tables keep one row for a key, for all batches, retries and handlers.
THEOREM OneRowForAKey == LogSpec => []OneRowPerKey
<1>1. LogInv => OneRowPerKey
  BY DEF LogInv
<1> QED BY <1>1, LogInvariance, PTL

\* What processItem answers "accepted", or "duplicate" for the first time in a
\* batch, is in the table and stays there.
THEOREM AnswersAreStored == LogSpec => []DroppedIsStored
<1>1. LogInv => DroppedIsStored
  BY DEF LogInv
<1> QED BY <1>1, LogInvariance, PTL
=============================================================================
