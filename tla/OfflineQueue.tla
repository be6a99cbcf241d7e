---------------------------- MODULE OfflineQueue ----------------------------
(***************************************************************************)
(* RecordIngest together with the client the batch route is for: a game    *)
(* that keeps plays made offline in a queue, uploads what is queued in one *)
(* batch, deletes the items that were answered, and uploads the rest again *)
(* when no answer came.  The client is not in this repository; it follows  *)
(* what the batch route documents (idempotency key, one answer per item).  *)
(***************************************************************************)
EXTENDS RecordIngest

CONSTANTS
  Backlog,     \* Backlog[u]: the plays made on u's device, in this order
  BatchLimit,  \* items a batch may hold; the route refuses larger ones
  NoHandler    \* a client that waits for no response

\* A batch of plays that follow each other on u's device.
Batch(u, first, last) ==
  [user |-> u, kind |-> "batch", items |-> SubSeq(Backlog[u], first, last)]

\* Every play has an id of its own on its device.
ASSUME QueueAssumption ==
  /\ Backlog \in [Users -> Seq(Items)]
  /\ \A u \in Users :
       /\ \A i \in DOMAIN Backlog[u] : Backlog[u][i].cid # NoId
       /\ \A i, j \in DOMAIN Backlog[u] : Backlog[u][i].cid = Backlog[u][j].cid => i = j
       /\ \A i, j \in DOMAIN Backlog[u] : i <= j => Batch(u, i, j) \in Requests
  /\ \A r \in Requests : \E u \in Users : \E i, j \in DOMAIN Backlog[u] :
       i <= j /\ r = Batch(u, i, j)
  /\ BatchLimit \in Nat \ {0}
  /\ NoHandler \notin Handlers

VARIABLES
  made,        \* how many plays of Backlog[u] were made so far
  forgotten,   \* how many of those the device has deleted again, oldest first
  waiting      \* the handler whose response the client waits for

queueVars == <<vars, made, forgotten, waiting>>

QueueInit ==
  /\ Init
  /\ made = [u \in Users |-> 0]
  /\ forgotten = [u \in Users |-> 0]
  /\ waiting = [u \in Users |-> NoHandler]

Drained(u) == forgotten[u] = made[u]

\* A play ends; the device queues it, also while a response is awaited.
Play(u) ==
  /\ made[u] < Len(Backlog[u])
  /\ made' = [made EXCEPT ![u] = @ + 1]
  /\ UNCHANGED <<vars, forgotten, waiting>>

\* The last play of the next batch: all that is queued, or the limit.
LastOfBatch(u) ==
  IF made[u] <= forgotten[u] + BatchLimit THEN made[u] ELSE forgotten[u] + BatchLimit

Upload(u) ==
  /\ ~Drained(u)
  /\ waiting[u] = NoHandler
  /\ \E h \in Handlers :
       /\ Receive(h, Batch(u, forgotten[u] + 1, LastOfBatch(u)))
       /\ waiting' = [waiting EXCEPT ![u] = h]
  /\ UNCHANGED <<made, forgotten, received>>

\* A response that still has its reader: answers come in the order of the
\* items sent, so the i-th is about the i-th play that is not yet forgotten.
Respond(h) ==
  /\ Reply(h)
  /\ LET u == Caller(h) IN
     IF waiting[u] = h
     THEN /\ forgotten' = [forgotten EXCEPT ![u] = @ + Len(task[h].results)]
          /\ waiting' = [waiting EXCEPT ![u] = NoHandler]
     ELSE UNCHANGED <<forgotten, waiting>>
  /\ UNCHANGED made

Work(h) ==
  /\ HandlerStep(h)
  /\ task[h].step # "reply"
  /\ UNCHANGED <<made, forgotten, waiting>>

\* The client stops waiting; the handler it waited for goes on.
Timeout(u) ==
  /\ waiting[u] # NoHandler
  /\ Fault
  /\ waiting' = [waiting EXCEPT ![u] = NoHandler]
  /\ UNCHANGED <<records, profile, task, credits, replies, received,
                 made, forgotten>>

\* A dead process resets every connection.
CrashAndReset ==
  /\ Crash
  /\ waiting' = [u \in Users |-> NoHandler]
  /\ UNCHANGED <<made, forgotten>>

QueueNext ==
  \/ \E u \in Users : Play(u) \/ Upload(u) \/ Timeout(u)
  \/ \E h \in Handlers : Work(h) \/ Respond(h)
  \/ CrashAndReset

\* Handlers run to their response; a client with a queue tries again.  Nobody
\* has to play.
QueueSpec ==
  /\ QueueInit
  /\ [][QueueNext]_queueVars
  /\ \A h \in Handlers : WF_queueVars(Work(h)) /\ WF_queueVars(Respond(h))
  /\ \A u \in Users : WF_queueVars(Upload(u))

Stored(cid) == \E row \in records : row.cid = cid

Settled(u, item) ==
  \/ Stored(item.cid)
  \/ \E rep \in replies : /\ rep.user = u
                          /\ rep.answer.item = item
                          /\ rep.answer.status = "rejected"

\* What a queue forgot is either in the table under its id or was rejected:
\* timeouts, lost answers, crashes between save and answer and plays made
\* while an answer is awaited drop no play.
ForgottenIsSettled ==
  \A u \in Users : \A i \in 1..forgotten[u] : Settled(u, Backlog[u][i])

\* No item blocks a queue for good (the reason record_batch.go gives for
\* answering a different payload under a known id with "duplicate"): a queue
\* empties again and again.
QueueDrains == \A u \in Users : []<>Drained(u)

(***************************************************************************)
(* The inductive invariant behind ForgottenIsSettled.                      *)
(***************************************************************************)
QueueTypeOK ==
  /\ TypeOK
  /\ made \in [Users -> Nat]
  /\ forgotten \in [Users -> Nat]
  /\ waiting \in [Users -> Handlers \cup {NoHandler}]
  /\ \A u \in Users : forgotten[u] <= made[u] /\ made[u] <= Len(Backlog[u])

\* A batch answers its items in order, one by one; what it has answered it
\* has seen, and each answer is final or backed by a row.
InOrder(t) ==
  /\ Len(t.results) <= Len(t.req.items)
  /\ t.step # "reply" => Len(t.results) = t.pos - 1
  /\ t.seen = {t.req.items[i].cid : i \in 1..Len(t.results)}
  /\ \A i \in 1..Len(t.results) :
       /\ t.results[i].item = t.req.items[i]
       /\ t.results[i].status = "rejected" \/ Stored(t.req.items[i].cid)
  /\ Owes(t) => Stored(t.req.items[t.pos].cid)

AnswersInOrder == \A h \in Handlers : task[h].step # "idle" => InOrder(task[h])

\* The response a client waits for is about the oldest plays of its queue.
AwaitedIsOldest ==
  \A u \in Users : waiting[u] # NoHandler =>
    LET t == task[waiting[u]] IN
    /\ t.step # "idle"
    /\ \E last \in (forgotten[u] + 1)..made[u] :
         t.req = Batch(u, forgotten[u] + 1, last)

QueueInv ==
  /\ QueueTypeOK
  /\ AnswersInOrder
  /\ AwaitedIsOldest
  /\ ForgottenIsSettled
=============================================================================
