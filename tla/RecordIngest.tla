---------------------------- MODULE RecordIngest ----------------------------
(***************************************************************************)
(* Saving play records: POST /records and POST /records/batch.  Each       *)
(* request runs in a goroutine of its own (a handler); every call it makes *)
(* to Postgres is one atomic action here, because another handler's calls  *)
(* may fall between any two of them: no transaction spans two calls.       *)
(* (Reads of tables that nobody writes are part of the next action.)  A    *)
(* call may fail before the statement takes effect, or take effect and     *)
(* fail on the way back; the process may die between any two calls, which  *)
(* leaves the tables and forgets every handler.                            *)
(*                                                                         *)
(* A play (the payload) is a constant; what the code asks of it is given   *)
(* by Gain, Completed, Exhibition, Storable and Verdict.                   *)
(***************************************************************************)
EXTENDS Progression, Sequences, FiniteSetsExt

CONSTANTS
  Users,        \* rows of the users table
  Handlers,     \* slots for requests being served at the same time
  RecordIds,    \* the uuids the database may give to new records
  Ids,          \* client_record_ids, the idempotency keys clients choose
  NoId,         \* the empty client_record_id, stored as NULL
  NoUser,       \* of an idle handler
  NoRecord,     \* an answer without record_id
  Plays,        \* payloads
  Gain,         \* Gain[p]: EXP of p by the rule, 0 when the rule grants none
  Completed,    \* plays whose game_status is "" or "completed"
  Exhibition,   \* plays marked additional_info.is_exhibition = true
  Storable,     \* plays that pass ent's validators and the foreign keys
  Verdict,      \* Verdict[p]: reason the sanity screen finds, or Pass
  Pass,
  SanityMode,   \* SANITY_MODE of this deployment
  Requests,     \* requests clients may send
  MaxRequests,  \* bound: requests received in a behaviour
  MaxFaults     \* bound: failed calls and crashes in a behaviour

Items == [cid : Ids \cup {NoId}, play : Plays]

Reasons == {"invalid_payload", "unknown_music", "unknown_stage",
            "score_out_of_range", "payload_inconsistent",
            "duration_out_of_range"}

ASSUME IngestAssumption ==
  /\ NoId \notin Ids
  /\ NoUser \notin Users
  /\ NoRecord \notin RecordIds
  /\ Gain \in [Plays -> Nat]
  /\ Completed \subseteq Plays
  /\ Exhibition \subseteq Plays
  /\ Storable \subseteq Plays
  /\ Pass \notin Reasons
  /\ Verdict \in [Plays -> Reasons \cup {Pass}]
  /\ SanityMode \in {"off", "shadow", "enforce"}
  /\ Requests \subseteq [user : Users, kind : {"single", "batch"},
                         items : Seq(Items)]
  /\ \A r \in Requests :
       /\ r.items # <<>>
       /\ r.kind = "single" => Len(r.items) = 1 /\ r.items[1].cid = NoId
  /\ MaxRequests \in Nat
  /\ MaxFaults \in Nat

VARIABLES
  records,   \* the records table
  profile,   \* users.exp and users.level
  task,      \* what each handler is doing
  credits,   \* history: how often EXP was written for a record
  replies,   \* history: answers sent, with the user they were sent to
  received,  \* requests received so far
  faults     \* faults so far

vars == <<records, profile, task, credits, replies, received, faults>>

Rows == [id : RecordIds, user : Users, cid : Ids \cup {NoId}, play : Plays,
         valid : BOOLEAN]

Profiles == [exp : Nat, level : Nat]
NewUser == [exp |-> 0, level |-> 1]

Answers == [item : Items, status : {"accepted", "duplicate", "rejected", "failed"},
            reason : Reasons \cup {Pass}, rid : RecordIds \cup {NoRecord},
            exp : Nat]

Steps == {"idle", "begin", "lookup", "screen", "insert", "refind", "read",
          "write", "reply"}

NoRequest == [user |-> NoUser, kind |-> "none", items |-> <<>>]

\* A handler's locals: the request, the index of the item at hand, the ids
\* seen in this batch, the record just saved, the user row read for the EXP
\* update with the level looked up, the answers so far and user_after.
IdleTask == [step |-> "idle", req |-> NoRequest, pos |-> 1, seen |-> {},
             rid |-> NoRecord, snap |-> NewUser, results |-> <<>>,
             after |-> NewUser]

Tasks == [step : Steps, req : Requests \cup {NoRequest}, pos : Nat \ {0},
          seen : SUBSET (Ids \cup {NoId}), rid : RecordIds \cup {NoRecord},
          snap : Profiles, results : Seq(Answers), after : Profiles]

Init ==
  /\ records = {}
  /\ profile = [u \in Users |-> NewUser]
  /\ task = [h \in Handlers |-> IdleTask]
  /\ credits = [r \in RecordIds |-> 0]
  /\ replies = {}
  /\ received = 0
  /\ faults = 0

-----------------------------------------------------------------------------
(***************************************************************************)
(* What a handler works on, and how a call may go.                         *)
(***************************************************************************)
Item(h) == task[h].req.items[task[h].pos]
Caller(h) == task[h].req.user
IsSingle(h) == task[h].req.kind = "single"

Fault == faults < MaxFaults /\ faults' = faults + 1
NoFault == UNCHANGED faults

Become(h, t) == task' = [task EXCEPT ![h] = t]
Goto(h, step) == Become(h, [task[h] EXCEPT !.step = step])

\* The first step of an item once it is known not to be a duplicate.
FirstStep == IF SanityMode = "off" THEN "insert" ELSE "screen"

\* FindByClientRecordID: the empty id is stored as NULL, so it finds nothing.
Found(cid) == {r \in records : r.cid = cid /\ cid # NoId}

Answer(h, status, reason, rid, exp) ==
  [item |-> Item(h), status |-> status, reason |-> reason, rid |-> rid,
   exp |-> exp]

\* The task once the item at hand has its answer: the next item, or the
\* response; an accepted answer with an EXP gain moves user_after to it.
Finished(h, answer, after) ==
  LET more == task[h].pos < Len(task[h].req.items) IN
  [step |-> IF more THEN "lookup" ELSE "reply",
   req |-> task[h].req,
   pos |-> IF more THEN task[h].pos + 1 ELSE task[h].pos,
   seen |-> task[h].seen \cup {Item(h).cid},
   rid |-> NoRecord,
   snap |-> NewUser,
   results |-> Append(task[h].results, answer),
   after |-> after]

Finish(h, answer, after) == Become(h, Finished(h, answer, after))

Accept(h) == Finish(h, Answer(h, "accepted", Pass, task[h].rid, 0), task[h].after)
Duplicate(h, rid) == Finish(h, Answer(h, "duplicate", Pass, rid, 0), task[h].after)
Reject(h, reason) == Finish(h, Answer(h, "rejected", reason, NoRecord, 0), task[h].after)
Fail(h) == Finish(h, Answer(h, "failed", Pass, NoRecord, 0), task[h].after)

-----------------------------------------------------------------------------
\* A request arrives; the handlers of both routes check its shape first.
Receive(h, r) ==
  /\ task[h].step = "idle"
  /\ Become(h, [IdleTask EXCEPT
                  !.step = IF r.kind = "single" THEN FirstStep ELSE "begin",
                  !.req = r])
  /\ UNCHANGED <<records, profile, credits, replies, faults>>

\* CreateBatch reads the user for the initial user_after; an error ends the
\* request with a 500 before any item is looked at.
BeginBatch(h) ==
  /\ task[h].step = "begin"
  /\ \/ /\ NoFault
        /\ Become(h, [task[h] EXCEPT !.step = "lookup",
                                     !.after = profile[Caller(h)]])
     \/ /\ Fault
        /\ Goto(h, "reply")
  /\ UNCHANGED <<records, profile, credits, replies, received>>

\* An id seen before in this batch is a duplicate without a record id; else
\* the table is asked, and an error counts as "not found".
LookUp(h) ==
  /\ task[h].step = "lookup"
  /\ LET cid == Item(h).cid IN
     \/ /\ cid \in task[h].seen
        /\ Duplicate(h, NoRecord)
        /\ NoFault
     \/ /\ cid \notin task[h].seen
        /\ \E row \in Found(cid) : Duplicate(h, row.id)
        /\ NoFault
     \/ /\ cid \notin task[h].seen
        /\ IF Found(cid) = {} THEN NoFault ELSE Fault
        /\ Goto(h, FirstStep)
  /\ UNCHANGED <<records, profile, credits, replies, received>>

\* Music and stage lookup and the sanity rules.  Only "enforce" rejects, and
\* a failed lookup is taken for an unknown music or stage.
Screen(h) ==
  /\ task[h].step = "screen"
  /\ LET verdict == Verdict[Item(h).play] IN
     \/ /\ SanityMode = "shadow" \/ verdict = Pass
        /\ Goto(h, "insert")
        /\ NoFault
     \/ /\ SanityMode = "enforce" /\ verdict # Pass
        /\ Reject(h, verdict)
        /\ NoFault
     \/ /\ SanityMode = "enforce"
        /\ \E reason \in {"unknown_music", "unknown_stage"} : Reject(h, reason)
        /\ Fault
  /\ UNCHANGED <<records, profile, credits, replies, received>>

\* Mutant: no UNIQUE constraint; the lookup before the insert must do.
InsertableUnindexed(h) == Item(h).play \in Storable

\* The UNIQUE constraint on client_record_id, ent's validators, foreign keys.
Insertable(h) == Found(Item(h).cid) = {} /\ Item(h).play \in Storable

NewRow(h, id) ==
  [id |-> id, user |-> Caller(h), cid |-> Item(h).cid, play |-> Item(h).play,
   valid |-> Item(h).play \notin Exhibition]

FreshIds == RecordIds \ {r.id : r \in records}

\* Is EXP due after a successful save?  The two routes differ: the single one
\* leaves out exhibition plays.
ExpDue(h) ==
  /\ Item(h).play \in Completed
  /\ IsSingle(h) => Item(h).play \notin Exhibition

\* Mutant: the new record's id is not kept for the EXP step.
InsertSavedForgetful(h) ==
  /\ task[h].step = "insert"
  /\ Insertable(h)
  /\ \E id \in FreshIds : records' = records \cup {NewRow(h, id)}
  /\ Goto(h, "read")
  /\ NoFault
  /\ UNCHANGED <<profile, credits, replies, received>>

InsertSaved(h) ==
  /\ task[h].step = "insert"
  /\ Insertable(h)
  /\ \E id \in FreshIds :
       /\ records' = records \cup {NewRow(h, id)}
       /\ IF ExpDue(h)
          THEN Become(h, [task[h] EXCEPT !.step = "read", !.rid = id])
          ELSE Finish(h, Answer(h, "accepted", Pass, id, 0), task[h].after)
  /\ NoFault
  /\ UNCHANGED <<profile, credits, replies, received>>

\* Mutant: the error of the insert is ignored.
InsertErrorIgnored(h) ==
  /\ task[h].step = "insert"
  /\ \/ ~Insertable(h) /\ NoFault
     \/ Fault
  /\ \E id \in FreshIds :
       Finish(h, Answer(h, "accepted", Pass, id, 0), task[h].after)
  /\ UNCHANGED <<records, profile, credits, replies, received>>

\* The caller gets an error: refused by the database, lost on the way there,
\* or lost on the way back with the row in the table.  A batch asks the table
\* again, the single route answers 500.
InsertError(h) ==
  /\ task[h].step = "insert"
  /\ \/ ~Insertable(h) /\ NoFault /\ UNCHANGED records
     \/ Fault /\ UNCHANGED records
     \/ /\ Insertable(h)
        /\ Fault
        /\ \E id \in FreshIds : records' = records \cup {NewRow(h, id)}
  /\ IF IsSingle(h) THEN Fail(h) ELSE Goto(h, "refind")
  /\ UNCHANGED <<profile, credits, replies, received>>

\* Mutant: a record found by the fallback is taken for one just saved.
ReFindResumes(h) ==
  /\ task[h].step = "refind"
  /\ \/ /\ \E row \in Found(Item(h).cid) :
             Become(h, [task[h] EXCEPT !.step = "read", !.rid = row.id])
        /\ NoFault
     \/ /\ IF Found(Item(h).cid) = {} THEN NoFault ELSE Fault
        /\ Reject(h, "invalid_payload")
  /\ UNCHANGED <<records, profile, credits, replies, received>>

\* Mutant: every failed insert counts as transient and is tried again.
ReFindRetries(h) ==
  /\ task[h].step = "refind"
  /\ \/ /\ \E row \in Found(Item(h).cid) : Duplicate(h, row.id)
        /\ NoFault
     \/ /\ IF Found(Item(h).cid) = {} THEN NoFault ELSE Fault
        /\ Goto(h, "insert")
  /\ UNCHANGED <<records, profile, credits, replies, received>>

\* The fallback lookup of a batch item whose insert failed.
ReFind(h) ==
  /\ task[h].step = "refind"
  /\ LET cid == Item(h).cid IN
     \/ /\ \E row \in Found(cid) : Duplicate(h, row.id)
        /\ NoFault
     \/ /\ IF Found(cid) = {} THEN NoFault ELSE Fault
        /\ Reject(h, "invalid_payload")
  /\ UNCHANGED <<records, profile, credits, replies, received>>

\* Mutant: in a batch the row is not read again, user_after is trusted.
ReadProgressCached(h) ==
  /\ task[h].step = "read"
  /\ LET user == IF IsSingle(h) THEN profile[Caller(h)] ELSE task[h].after
         exp  == user.exp + Gain[Item(h).play]
     IN  \E level \in Levels \cup {user.level} :
           /\ LevelAfter(level, user.level, exp)
           /\ Become(h, [task[h] EXCEPT !.step = "write",
                                        !.snap = [exp |-> exp, level |-> level]])
  /\ NoFault
  /\ UNCHANGED <<records, profile, credits, replies, received>>

\* applyExpGain up to the write: stage, coefficient, user row, level table.
\* Any error but that of the level table gives up the gain silently.
ReadProgress(h) ==
  /\ task[h].step = "read"
  /\ LET user == profile[Caller(h)]
         exp  == user.exp + Gain[Item(h).play]
     IN
     \/ /\ IF Gain[Item(h).play] = 0 THEN NoFault ELSE Fault
        /\ Accept(h)
     \/ /\ Gain[Item(h).play] > 0
        /\ \E level \in Levels \cup {user.level} :
             /\ \/ LevelAfter(level, user.level, exp) /\ NoFault
                \/ level = user.level /\ Fault
             /\ Become(h, [task[h] EXCEPT !.step = "write",
                                          !.snap = [exp |-> exp, level |-> level]])
  /\ UNCHANGED <<records, profile, credits, replies, received>>

\* Mutants: the computed EXP is added to the column; the level column keeps
\* its greatest value although exp is set.
WriteProgressWith(h, row) ==
  /\ task[h].step = "write"
  /\ profile' = [profile EXCEPT ![Caller(h)] = row]
  /\ credits' = [credits EXCEPT ![task[h].rid] = @ + 1]
  /\ NoFault
  /\ Accept(h)
  /\ UNCHANGED <<records, replies, received>>

WriteProgressAdds(h) ==
  WriteProgressWith(h, [task[h].snap EXCEPT !.exp = @ + profile[Caller(h)].exp])

WriteProgressKeepsLevel(h) ==
  WriteProgressWith(h, [task[h].snap EXCEPT
                          !.level = Max({@, profile[Caller(h)].level})])

\* Mutant: the error of the update is ignored.
WriteProgressUnchecked(h) ==
  /\ task[h].step = "write"
  /\ \/ Fault /\ UNCHANGED <<profile, credits>>
     \/ /\ profile' = [profile EXCEPT ![Caller(h)] = task[h].snap]
        /\ credits' = [credits EXCEPT ![task[h].rid] = @ + 1]
        /\ NoFault
  /\ Finish(h, Answer(h, "accepted", Pass, task[h].rid, task[h].snap.exp),
            task[h].snap)
  /\ UNCHANGED <<records, replies, received>>

\* UpdateExpAndLevel sets both columns to what was computed from the row read
\* before; an error, with or without effect, leaves the gain unreported.
WriteProgress(h) ==
  /\ task[h].step = "write"
  /\ \/ /\ Fault
        /\ Accept(h)
        /\ UNCHANGED <<profile, credits>>
     \/ /\ profile' = [profile EXCEPT ![Caller(h)] = task[h].snap]
        /\ credits' = [credits EXCEPT ![task[h].rid] = @ + 1]
        /\ \/ /\ NoFault
              /\ Finish(h, Answer(h, "accepted", Pass, task[h].rid, task[h].snap.exp),
                        task[h].snap)
           \/ Fault /\ Accept(h)
  /\ UNCHANGED <<records, replies, received>>

\* The response is written.  Whether the client still listens changes nothing
\* on this side: a client that does not hear it sends the request again.
Reply(h) ==
  /\ task[h].step = "reply"
  /\ replies' = replies \cup
       {[user |-> Caller(h), answer |-> task[h].results[i]] :
          i \in DOMAIN task[h].results}
  /\ Become(h, IdleTask)
  /\ UNCHANGED <<records, profile, credits, received, faults>>

\* The process is killed (redeploy, OOM) and restarted by docker.
Crash ==
  /\ Fault
  /\ \E h \in Handlers : task[h].step # "idle"
  /\ task' = [h \in Handlers |-> IdleTask]
  /\ UNCHANGED <<records, profile, credits, replies, received>>

-----------------------------------------------------------------------------
HandlerStep(h) ==
  \/ BeginBatch(h)
  \/ LookUp(h)
  \/ Screen(h)
  \/ InsertSaved(h)
  \/ InsertError(h)
  \/ ReFind(h)
  \/ ReadProgress(h)
  \/ WriteProgress(h)
  \/ Reply(h)

Arrival(h) ==
  /\ received < MaxRequests
  /\ received' = received + 1
  /\ \E r \in Requests : Receive(h, r)

Next ==
  \/ \E h \in Handlers : Arrival(h) \/ HandlerStep(h)
  \/ Crash

Spec == Init /\ [][Next]_vars

-----------------------------------------------------------------------------
(***************************************************************************)
(* Properties.                                                             *)
(***************************************************************************)

\* A task between the save of a record and the write of its EXP.
Owes(t) == t.step \in {"read", "write"}

AtWork(t) ==
  /\ t.step # "idle" => t.req \in Requests /\ t.pos \in DOMAIN t.req.items
  /\ Owes(t) => t.rid \in RecordIds

\* Every variable has its type; a handler at work has a request and an item,
\* and one that owes an EXP update knows the record it owes it for.
TypeOK ==
  /\ records \subseteq Rows
  /\ profile \in [Users -> Profiles]
  /\ task \in [Handlers -> Tasks]
  /\ credits \in [RecordIds -> Nat]
  /\ replies \subseteq [user : Users, answer : Answers]
  /\ received \in Nat
  /\ faults \in Nat
  /\ \A h \in Handlers : AtWork(task[h])

\* record_batch.go looks an id up, then inserts, with other handlers between:
\* however requests are retried or overlap, an id names at most one record.
UniqueClientIds ==
  \A r, s \in records : r.cid = s.cid /\ r.cid # NoId => r = s

\* EXP is written at most once for a record: not twice by its handler, not by
\* a handler that found the record of another, not by a retry after a crash,
\* a failed call or a lost answer.
CreditedOnce ==
  \A row \in records : credits[row.id] <= 1

Backed(rows, user, answer) ==
  /\ answer.rid # NoRecord =>
       \E row \in rows : row.id = answer.rid /\ row.cid = answer.item.cid
  /\ answer.status = "accepted" =>
       \E row \in rows : /\ row.id = answer.rid
                        /\ row.user = user
                        /\ row.play = answer.item.play

\* A client that hears "accepted", or "duplicate" with a record_id, may delete
\* its copy: the record is in the table under its id, and an accepted one is
\* stored for that user with that payload.  Holds across crashes, since the
\* answer goes out after the commit.
AnswersAreDurable ==
  \A rep \in replies : Backed(records, rep.user, rep.answer)

\* The EXP a user has been credited with, a point for each unit of it: a sum
\* over the user's records, written as the size of a set.
PointsOf(row) == {row.id} \X ((1..credits[row.id]) \X (1..Gain[row.play]))
Points(u) == UNION {PointsOf(row) : row \in {r \in records : r.user = u}}
Earned(u) == Cardinality(Points(u))

\* Interleaved updates may lose EXP but never invent any: a user's exp is at
\* most what the records credited to that user are worth.
ExpIsEarned == \A u \in Users : profile[u].exp <= Earned(u)

EarnedLevel(p) == p.level = NewUser.level \/ p.level \in Reached(p.exp)

\* The level column never runs ahead of the exp column, although both are
\* computed from a row read earlier and other handlers write in between.
LevelIsEarned == \A u \in Users : EarnedLevel(profile[u])

\* The level is the highest one the EXP pays for, however that was split into
\* plays, however many thresholds one play crosses and whichever updates were
\* lost to another: both columns of a row come from one lookup, so no level is
\* left due unless a call failed.
LevelIsDue ==
  faults = 0 =>
    \A u \in Users : profile[u].exp > 0 =>
      \A l \in Levels : RequireExp[l] <= profile[u].exp => l <= profile[u].level

\* exp is the user's cumulative EXP: every credited record is in it.
ExpIsCumulative == \A u \in Users : profile[u].exp = Earned(u)

\* An exhibition record (is_valid = false) earns no EXP.
ExhibitionEarnsNothing ==
  \A row \in records : ~row.valid => credits[row.id] = 0

(***************************************************************************)
(* The inductive invariant behind UniqueClientIds, CreditedOnce,           *)
(* AnswersAreDurable, ExpIsEarned, LevelIsEarned and LevelIsDue.           *)
(***************************************************************************)
UniqueRecordIds == \A r, s \in records : r.id = s.id => r = s

UnsavedUncredited ==
  \A id \in RecordIds : (\A row \in records : row.id # id) => credits[id] = 0

\* A handler that owes an EXP update works on the row it saved itself, for
\* the item at hand, and nobody has written that row's EXP.
OwesItsOwn ==
  \A h \in Handlers : Owes(task[h]) =>
    /\ credits[task[h].rid] = 0
    /\ \E row \in records : /\ row.id = task[h].rid
                           /\ row.user = Caller(h)
                           /\ row.cid = Item(h).cid
                           /\ row.play = Item(h).play

OwedApart ==
  \A g, h \in Handlers :
    Owes(task[g]) /\ Owes(task[h]) /\ task[g].rid = task[h].rid => g = h

ResultsAreBacked ==
  \A h \in Handlers : \A i \in DOMAIN task[h].results :
    Backed(records, Caller(h), task[h].results[i])

SnapIsEarned ==
  \A h \in Handlers : task[h].step = "write" => EarnedLevel(task[h].snap)

\* A row about to be written exceeds what the user has earned by the play it
\* is written for.
SnapIsBacked ==
  \A h \in Handlers : task[h].step = "write" =>
    task[h].snap.exp <= Earned(Caller(h)) + Gain[Item(h).play]

PointsAreFinite == \A u \in Users : IsFiniteSet(Points(u))

SnapIsDue ==
  faults = 0 =>
    \A h \in Handlers : task[h].step = "write" =>
      \A l \in Levels : RequireExp[l] <= task[h].snap.exp => l <= task[h].snap.level

\* Inductive: each conjunct survives a step because the others hold before.
IInv ==
  /\ TypeOK
  /\ UniqueRecordIds
  /\ UniqueClientIds
  /\ UnsavedUncredited
  /\ CreditedOnce
  /\ OwesItsOwn
  /\ OwedApart
  /\ ResultsAreBacked
  /\ AnswersAreDurable
  /\ LevelIsEarned
  /\ SnapIsEarned
  /\ PointsAreFinite
  /\ ExpIsEarned
  /\ SnapIsBacked
  /\ LevelIsDue
  /\ SnapIsDue

(***************************************************************************)
(* Refinement: the fate of an id as the tables and handlers show it.       *)
(***************************************************************************)
Pending(id) ==
  \E h \in Handlers : Owes(task[h]) /\ task[h].rid = id

FateOf(k) ==
  IF Found(k) = {} THEN "absent"
  ELSE IF \E row \in Found(k) : credits[row.id] > 0 THEN "credited"
  ELSE IF \E row \in Found(k) : Pending(row.id) THEN "pending"
  ELSE "closed"

OwnerOf(k) ==
  IF Found(k) = {} THEN NoUser ELSE (CHOOSE row \in Found(k) : TRUE).user

Ledger == INSTANCE RecordLedger
  WITH fate <- [k \in Ids |-> FateOf(k)], owner <- [k \in Ids |-> OwnerOf(k)]

\* The handlers implement the ledger: one store, one decision per id.
ImplementsLedger == Ledger!LedgerSpec
=============================================================================
