------------------------- MODULE RecordIngestProofs -------------------------
(***************************************************************************)
(* Theorems about RecordIngest, for any users, handlers, requests, plays,  *)
(* level table, sanity mode and number of faults; in the second part about *)
(* what RecordHistory remembers of its steps, and in the third about the   *)
(* OfflineQueue of the client, for any devices, plays and batch limit.     *)
(***************************************************************************)
EXTENDS RecordHistory, OfflineQueue, FiniteSetTheorems, SequenceTheorems,
        TLAPS

\* What a busy handler works on is well typed.
LEMMA BusyType ==
  ASSUME TypeOK, NEW h \in Handlers, task[h].step # "idle"
  PROVE  /\ task[h] \in Tasks
         /\ task[h].req \in Requests
         /\ task[h].req.items \in Seq(Items)
         /\ task[h].pos \in 1..Len(task[h].req.items)
         /\ Item(h) \in Items
         /\ Item(h).cid \in Ids \cup {NoId}
         /\ Item(h).play \in Plays
         /\ Caller(h) \in Users
<1> USE IngestAssumption
<1>1. task[h] \in Tasks /\ AtWork(task[h])
  BY DEF TypeOK
<1>2. /\ task[h].req \in Requests
      /\ task[h].req.items \in Seq(Items)
      /\ task[h].pos \in DOMAIN task[h].req.items
  BY <1>1 DEF AtWork
<1>3. task[h].pos \in 1..Len(task[h].req.items)
  BY <1>2
<1>4. Item(h) \in Items
  BY <1>2, <1>3 DEF Item
<1> QED
  BY <1>1, <1>2, <1>3, <1>4 DEF Items, Caller

\* A handler that becomes a well typed task leaves all tasks well typed.
LEMMA BecomeType ==
  ASSUME TypeOK, NEW h \in Handlers, NEW t \in Tasks, AtWork(t), Become(h, t)
  PROVE  /\ task' \in [Handlers -> Tasks]
         /\ \A g \in Handlers : AtWork(task'[g])
  BY DEF TypeOK, Become

\* Finishing an item with an answer and a user_after of the right types keeps
\* the type of every handler's locals.
LEMMA FinishType ==
  ASSUME TypeOK, NEW h \in Handlers, task[h].step # "idle",
         NEW a \in Answers, NEW after \in Profiles
  PROVE  Finished(h, a, after) \in Tasks /\ AtWork(Finished(h, a, after))
<1> USE IngestAssumption
<1> DEFINE t == task[h]
<1>1. /\ t \in Tasks /\ t.req \in Requests /\ t.req.items \in Seq(Items)
      /\ t.pos \in 1..Len(t.req.items) /\ Len(t.req.items) \in Nat
      /\ Item(h).cid \in Ids \cup {NoId}
  BY BusyType
<1>2. Append(t.results, a) \in Seq(Answers)
  BY <1>1 DEF Tasks
<1>3. NewUser \in Profiles
  BY DEF NewUser, Profiles
<1>4. Finished(h, a, after) \in Tasks
  BY <1>1, <1>2, <1>3 DEF Finished, Tasks, Steps
<1>5. Finished(h, a, after).pos \in DOMAIN t.req.items
  BY <1>1 DEF Finished
<1> QED
  BY <1>1, <1>4, <1>5 DEF Finished, AtWork, Owes

\* Every answer a handler builds for the item at hand has its type.
LEMMA AnswerType ==
  ASSUME TypeOK, NEW h \in Handlers, task[h].step # "idle",
         NEW st \in {"accepted", "duplicate", "rejected", "failed"},
         NEW reason \in Reasons \cup {Pass},
         NEW rid \in RecordIds \cup {NoRecord}, NEW exp \in Nat
  PROVE  Answer(h, st, reason, rid, exp) \in Answers
  BY BusyType DEF Answer, Answers

\* The same for the four short forms, which leave user_after alone.
LEMMA ShortFinishType ==
  ASSUME TypeOK, NEW h \in Handlers, task[h].step # "idle",
         \/ Accept(h) \/ Fail(h)
         \/ \E rid \in RecordIds \cup {NoRecord} : Duplicate(h, rid)
         \/ \E reason \in Reasons \cup {Pass} : Reject(h, reason)
  PROVE  /\ task' \in [Handlers -> Tasks]
         /\ \A g \in Handlers : AtWork(task'[g])
<1>1. task[h].after \in Profiles /\ task[h].rid \in RecordIds \cup {NoRecord}
  BY BusyType DEF Tasks
<1>2. SUFFICES ASSUME NEW a \in Answers, Finish(h, a, task[h].after)
               PROVE  /\ task' \in [Handlers -> Tasks]
                      /\ \A g \in Handlers : AtWork(task'[g])
  <2>1. ASSUME Accept(h) PROVE \E a \in Answers : Finish(h, a, task[h].after)
    BY <1>1, <2>1, AnswerType DEF Accept
  <2>2. ASSUME Fail(h) PROVE \E a \in Answers : Finish(h, a, task[h].after)
    BY <2>2, AnswerType DEF Fail
  <2>3. ASSUME NEW rid \in RecordIds \cup {NoRecord}, Duplicate(h, rid)
        PROVE  \E a \in Answers : Finish(h, a, task[h].after)
    BY <2>3, AnswerType DEF Duplicate
  <2>4. ASSUME NEW reason \in Reasons \cup {Pass}, Reject(h, reason)
        PROVE  \E a \in Answers : Finish(h, a, task[h].after)
    BY <2>4, AnswerType DEF Reject
  <2> QED BY <1>2, <2>1, <2>2, <2>3, <2>4
<1>3. QED
  BY <1>1, <1>2, FinishType, BecomeType DEF Finish

\* A request of the clients' is one a handler can work on, however the number
\* of requests is counted.
LEMMA ReceiveType ==
  ASSUME TypeOK, NEW h \in Handlers, NEW r \in Requests, Receive(h, r),
         received' \in Nat
  PROVE  TypeOK'
<1> USE IngestAssumption
<1> DEFINE t == [IdleTask EXCEPT
                   !.step = IF r.kind = "single" THEN FirstStep ELSE "begin",
                   !.req = r]
<1>1. IdleTask \in Tasks
  BY DEF IdleTask, Tasks, Steps, NewUser, Profiles, NoRequest
<1>2. FirstStep \in Steps \ {"idle", "read", "write"}
  BY DEF FirstStep, Steps
<1>3. t \in Tasks
  BY <1>1, <1>2 DEF Tasks, Steps
<1>4. 1 \in DOMAIN r.items
  <2>1. r.items \in Seq(Items) /\ r.items # <<>>
    OBVIOUS
  <2> QED BY <2>1
<1>5. AtWork(t)
  BY <1>2, <1>4 DEF AtWork, Owes, IdleTask
<1>6. /\ task' \in [Handlers -> Tasks]
      /\ \A g \in Handlers : AtWork(task'[g])
  BY <1>3, <1>5, BecomeType DEF Receive
<1> QED BY <1>6 DEF Receive, TypeOK

\* TypeOK survives every step.
LEMMA TypeStep == TypeOK /\ [Next]_vars => TypeOK'
<1> USE IngestAssumption, LevelTableAssumption
<1> SUFFICES ASSUME TypeOK, [Next]_vars PROVE TypeOK'
  OBVIOUS
<1> DEFINE TasksOK == /\ task' \in [Handlers -> Tasks]
                      /\ \A g \in Handlers : AtWork(task'[g])
<1>idle. IdleTask \in Tasks /\ AtWork(IdleTask)
  BY DEF IdleTask, Tasks, Steps, AtWork, Owes, NewUser, Profiles, NoRequest
<1>goto. ASSUME NEW h \in Handlers, task[h].step # "idle",
                NEW st \in Steps \ {"idle", "read", "write"}, Goto(h, st)
         PROVE  TasksOK
  <2>1. [task[h] EXCEPT !.step = st] \in Tasks
    BY <1>goto, BusyType DEF Tasks
  <2>2. AtWork([task[h] EXCEPT !.step = st])
    BY <1>goto, BusyType DEF AtWork, Owes, Tasks
  <2> QED BY <1>goto, <2>1, <2>2, BecomeType DEF Goto
<1>first. FirstStep \in Steps \ {"idle", "read", "write"}
  BY DEF FirstStep, Steps
<1>row. ASSUME NEW h \in Handlers, task[h].step # "idle", NEW id \in FreshIds
        PROVE  id \in RecordIds /\ NewRow(h, id) \in Rows
  BY <1>row, BusyType DEF FreshIds, NewRow, Rows
<1>found. ASSUME NEW cid PROVE \A row \in Found(cid) : row.id \in RecordIds
  BY DEF Found, TypeOK, Rows
<1>1. ASSUME NEW h \in Handlers, Arrival(h) PROVE TypeOK'
  <2>1. received' \in Nat
    BY <1>1 DEF Arrival, TypeOK
  <2> QED BY <1>1, <2>1, ReceiveType DEF Arrival
<1>2. ASSUME NEW h \in Handlers, BeginBatch(h) PROVE TypeOK'
  <2>1. task[h].step # "idle" /\ faults' \in Nat
    BY <1>2 DEF BeginBatch, Fault, NoFault, TypeOK
  <2>2. CASE Goto(h, "reply")
    BY <1>2, <2>1, <2>2, <1>goto DEF BeginBatch, TypeOK, Steps
  <2>3. CASE Become(h, [task[h] EXCEPT !.step = "lookup", !.after = profile[Caller(h)]])
    <3>1. profile[Caller(h)] \in Profiles
      BY <2>1, BusyType DEF TypeOK
    <3>2. [task[h] EXCEPT !.step = "lookup", !.after = profile[Caller(h)]] \in Tasks
      BY <2>1, <3>1, BusyType DEF Tasks, Steps
    <3>3. AtWork([task[h] EXCEPT !.step = "lookup", !.after = profile[Caller(h)]])
      BY <2>1, BusyType DEF AtWork, Owes, Tasks
    <3>4. TasksOK
      BY <2>3, <3>2, <3>3, BecomeType
    <3> QED BY <1>2, <2>1, <3>4 DEF BeginBatch, TypeOK
  <2> QED BY <1>2, <2>2, <2>3 DEF BeginBatch
<1>3. ASSUME NEW h \in Handlers, LookUp(h) PROVE TypeOK'
  <2>1. task[h].step # "idle" /\ faults' \in Nat
    BY <1>3 DEF LookUp, Fault, NoFault, TypeOK
  <2>2. \/ \E rid \in RecordIds \cup {NoRecord} : Duplicate(h, rid)
        \/ Goto(h, FirstStep)
    BY <1>3, <1>found DEF LookUp
  <2>3. TasksOK
    BY <2>1, <2>2, <1>goto, <1>first, ShortFinishType
  <2> QED BY <1>3, <2>1, <2>3 DEF LookUp, TypeOK
<1>4. ASSUME NEW h \in Handlers, Screen(h) PROVE TypeOK'
  <2>1. task[h].step # "idle" /\ faults' \in Nat
    BY <1>4 DEF Screen, Fault, NoFault, TypeOK
  <2>2. Verdict[Item(h).play] \in Reasons \cup {Pass}
    BY <2>1, BusyType
  <2>3. \/ \E reason \in Reasons \cup {Pass} : Reject(h, reason)
        \/ Goto(h, "insert")
    BY <1>4, <2>2 DEF Screen, Reasons
  <2>4. TasksOK
    BY <2>1, <2>3, <1>goto, ShortFinishType DEF Steps
  <2> QED BY <1>4, <2>1, <2>4 DEF Screen, TypeOK
<1>5. ASSUME NEW h \in Handlers, InsertSaved(h) PROVE TypeOK'
  <2>1. task[h].step # "idle" /\ faults' \in Nat
    BY <1>5 DEF InsertSaved, NoFault, TypeOK
  <2>2. PICK id \in FreshIds :
          /\ records' = records \cup {NewRow(h, id)}
          /\ \/ Become(h, [task[h] EXCEPT !.step = "read", !.rid = id])
             \/ Finish(h, Answer(h, "accepted", Pass, id, 0), task[h].after)
    BY <1>5 DEF InsertSaved
  <2>3. records' \subseteq Rows /\ id \in RecordIds
    BY <2>1, <2>2, <1>row DEF TypeOK
  <2>4. CASE Become(h, [task[h] EXCEPT !.step = "read", !.rid = id])
    <3>1. [task[h] EXCEPT !.step = "read", !.rid = id] \in Tasks
      BY <2>1, <2>3, BusyType DEF Tasks, Steps
    <3>2. AtWork([task[h] EXCEPT !.step = "read", !.rid = id])
      BY <2>1, <2>3, BusyType DEF AtWork, Owes, Tasks
    <3>3. TasksOK
      BY <2>4, <3>1, <3>2, BecomeType
    <3> QED BY <1>5, <2>1, <2>3, <3>3 DEF InsertSaved, TypeOK
  <2>5. CASE Finish(h, Answer(h, "accepted", Pass, id, 0), task[h].after)
    <3>1. Answer(h, "accepted", Pass, id, 0) \in Answers
      BY <2>1, <2>3, AnswerType
    <3>2. task[h].after \in Profiles
      BY <2>1, BusyType DEF Tasks
    <3>3. TasksOK
      BY <2>1, <2>5, <3>1, <3>2, FinishType, BecomeType DEF Finish
    <3> QED BY <1>5, <2>1, <2>3, <3>3 DEF InsertSaved, TypeOK
  <2> QED BY <2>2, <2>4, <2>5
<1>6. ASSUME NEW h \in Handlers, InsertError(h) PROVE TypeOK'
  <2>1. task[h].step # "idle" /\ faults' \in Nat
    BY <1>6 DEF InsertError, Fault, NoFault, TypeOK
  <2>2. records' \subseteq Rows
    BY <1>6, <2>1, <1>row DEF InsertError, TypeOK
  <2>3. TasksOK
    BY <1>6, <2>1, <1>goto, ShortFinishType DEF InsertError, Steps
  <2> QED BY <1>6, <2>1, <2>2, <2>3 DEF InsertError, TypeOK
<1>7. ASSUME NEW h \in Handlers, ReFind(h) PROVE TypeOK'
  <2>1. task[h].step # "idle" /\ faults' \in Nat
    BY <1>7 DEF ReFind, Fault, NoFault, TypeOK
  <2>2. \/ \E rid \in RecordIds \cup {NoRecord} : Duplicate(h, rid)
        \/ \E reason \in Reasons \cup {Pass} : Reject(h, reason)
    BY <1>7, <1>found DEF ReFind, Reasons
  <2>3. TasksOK
    BY <2>1, <2>2, ShortFinishType
  <2> QED BY <1>7, <2>1, <2>3 DEF ReFind, TypeOK
<1>8. ASSUME NEW h \in Handlers, ReadProgress(h) PROVE TypeOK'
  <2>1. task[h].step # "idle" /\ faults' \in Nat
    <3>1. task[h].step = "read" /\ (Fault \/ NoFault)
      BY <1>8 DEF ReadProgress
    <3> QED BY <3>1 DEF Fault, NoFault, TypeOK
  <2>2. /\ profile[Caller(h)] \in Profiles
        /\ Gain[Item(h).play] \in Nat
        /\ task[h].rid \in RecordIds
    BY <1>8, <2>1, BusyType DEF TypeOK, ReadProgress, AtWork, Owes
  <2>3. CASE Accept(h)
    BY <1>8, <2>1, <2>3, ShortFinishType DEF ReadProgress, TypeOK
  <2>4. CASE ~Accept(h)
    <3>1. PICK level \in Levels \cup {profile[Caller(h)].level} :
            Become(h, [task[h] EXCEPT !.step = "write",
              !.snap = [exp |-> profile[Caller(h)].exp + Gain[Item(h).play],
                        level |-> level]])
      BY <1>8, <2>4 DEF ReadProgress
    <3> DEFINE t == [task[h] EXCEPT !.step = "write",
              !.snap = [exp |-> profile[Caller(h)].exp + Gain[Item(h).play],
                        level |-> level]]
    <3>2. t \in Tasks
      <4>1. level \in Nat
        BY <2>2 DEF Profiles
      <4>2. [exp |-> profile[Caller(h)].exp + Gain[Item(h).play],
             level |-> level] \in Profiles
        BY <2>2, <4>1 DEF Profiles
      <4>3. ASSUME NEW snap \in Profiles
            PROVE  [task[h] EXCEPT !.step = "write", !.snap = snap] \in Tasks
        <5>1. task[h] \in Tasks
          BY <2>1, BusyType
        <5> QED BY ONLY <5>1, <4>3 DEF Tasks, Steps
      <4> QED BY <4>2, <4>3
    <3>3. AtWork(t)
      BY <2>1, <2>2, BusyType DEF AtWork, Owes, Tasks
    <3>4. TasksOK
      BY <3>1, <3>2, <3>3, BecomeType
    <3> QED BY <1>8, <2>1, <3>4 DEF ReadProgress, TypeOK
  <2> QED BY <2>3, <2>4
<1>9. ASSUME NEW h \in Handlers, WriteProgress(h) PROVE TypeOK'
  <2>1. task[h].step # "idle" /\ faults' \in Nat
    BY <1>9 DEF WriteProgress, Fault, NoFault, TypeOK
  <2>2. /\ task[h].snap \in Profiles /\ Caller(h) \in Users
        /\ task[h].rid \in RecordIds
    BY <1>9, <2>1, BusyType DEF TypeOK, WriteProgress, AtWork, Owes, Tasks
  <2>3. profile' \in [Users -> Profiles] /\ credits' \in [RecordIds -> Nat]
    <3>1. \/ UNCHANGED <<profile, credits>>
          \/ /\ profile' = [profile EXCEPT ![Caller(h)] = task[h].snap]
             /\ credits' = [credits EXCEPT ![task[h].rid] = credits[task[h].rid] + 1]
      BY <1>9 DEF WriteProgress
    <3> QED BY <2>2, <3>1 DEF TypeOK
  <2>4. CASE Accept(h)
    BY <1>9, <2>1, <2>3, <2>4, ShortFinishType DEF WriteProgress, TypeOK
  <2>5. CASE Finish(h, Answer(h, "accepted", Pass, task[h].rid, task[h].snap.exp),
                    task[h].snap)
    <3>1. Answer(h, "accepted", Pass, task[h].rid, task[h].snap.exp) \in Answers
      BY <2>1, <2>2, AnswerType DEF Profiles
    <3>2. TasksOK
      BY <2>1, <2>2, <2>5, <3>1, FinishType, BecomeType DEF Finish
    <3> QED BY <1>9, <2>1, <2>3, <3>2 DEF WriteProgress, TypeOK
  <2> QED BY <1>9, <2>4, <2>5 DEF WriteProgress
<1>10. ASSUME NEW h \in Handlers, Reply(h) PROVE TypeOK'
  <2>1. task[h].step # "idle"
    BY <1>10 DEF Reply
  <2>2. task[h].results \in Seq(Answers) /\ Caller(h) \in Users
    BY <2>1, BusyType DEF Tasks
  <2>3. \A i \in DOMAIN task[h].results : task[h].results[i] \in Answers
    BY <2>2
  <2>4. replies' \subseteq [user : Users, answer : Answers]
    BY <1>10, <2>2, <2>3 DEF Reply, TypeOK
  <2>5. TasksOK
    BY <1>10, <1>idle, BecomeType DEF Reply
  <2> QED BY <1>10, <2>4, <2>5 DEF Reply, TypeOK
<1>11. ASSUME Crash PROVE TypeOK'
  BY <1>11, <1>idle DEF Crash, Fault, TypeOK
<1>12. ASSUME UNCHANGED vars PROVE TypeOK'
  BY <1>12 DEF vars, TypeOK
<1> QED
  BY <1>1, <1>2, <1>3, <1>4, <1>5, <1>6, <1>7, <1>8, <1>9, <1>10, <1>11, <1>12
     DEF Next, HandlerStep

\* The initial state is well typed.
LEMMA TypeInit == Init => TypeOK
  BY IngestAssumption
     DEF Init, TypeOK, AtWork, Owes, IdleTask, Tasks, Steps, NewUser, Profiles, NoRequest

\* The types hold in every reachable state: in particular no handler indexes
\* past its batch, and one that writes EXP always has the record it is for.
THEOREM TypeCorrect == Spec => []TypeOK
  BY TypeInit, TypeStep, PTL DEF Spec

(***************************************************************************)
(* What a step does to the table, the EXP history and the handlers that    *)
(* owe an EXP update is one of three things.                               *)
(***************************************************************************)
SameWork(s, t) == s.rid = t.rid /\ s.req = t.req /\ s.pos = t.pos

\* Nothing is saved or credited, no handler starts to owe.
Quiet ==
  /\ UNCHANGED <<records, credits>>
  /\ \A g \in Handlers :
       Owes(task'[g]) => Owes(task[g]) /\ SameWork(task'[g], task[g])

OthersKeepTask(h) == \A g \in Handlers : g # h => task'[g] = task[g]

\* Handler h saves the item at hand and may from now on owe its EXP.
Saves(h, id) ==
  /\ ~Owes(task[h])
  /\ id \in FreshIds
  /\ Found(Item(h).cid) = {}
  /\ records' = records \cup {NewRow(h, id)}
  /\ UNCHANGED credits
  /\ OthersKeepTask(h)
  /\ Owes(task'[h]) => /\ task'[h].rid = id
                       /\ task'[h].req = task[h].req
                       /\ task'[h].pos = task[h].pos

\* Handler h writes the EXP it owes and owes no more.
Pays(h) ==
  /\ Owes(task[h])
  /\ UNCHANGED records
  /\ credits' = [credits EXCEPT ![task[h].rid] = @ + 1]
  /\ OthersKeepTask(h)
  /\ ~Owes(task'[h])

\* Every step has one of the three shapes.
LEMMA StepShape ==
  ASSUME TypeOK, Next
  PROVE  \/ Quiet
         \/ \E h \in Handlers, id \in RecordIds : task[h].step # "idle" /\ Saves(h, id)
         \/ \E h \in Handlers : Pays(h)
<1> DEFINE Goal == \/ Quiet
                   \/ \E h \in Handlers, id \in RecordIds :
                        task[h].step # "idle" /\ Saves(h, id)
                   \/ \E h \in Handlers : Pays(h)
<1>task. task \in [Handlers -> Tasks]
  BY DEF TypeOK
<1>become. ASSUME NEW h \in Handlers, NEW t, Become(h, t)
           PROVE  task'[h] = t /\ OthersKeepTask(h)
  BY <1>become, <1>task DEF Become, OthersKeepTask
<1>quiet. ASSUME NEW h \in Handlers, NEW t, Become(h, t), ~Owes(t),
                 UNCHANGED <<records, credits>>
          PROVE  Quiet
  BY <1>quiet, <1>become DEF Quiet, OthersKeepTask, SameWork
<1>finished. ASSUME NEW h \in Handlers, NEW a, NEW after
             PROVE  ~Owes(Finished(h, a, after))
  BY DEF Finished, Owes
<1>finish. ASSUME NEW h \in Handlers, UNCHANGED <<records, credits>>,
                  \/ Accept(h) \/ Fail(h)
                  \/ \E rid : Duplicate(h, rid)
                  \/ \E reason : Reject(h, reason)
           PROVE  Quiet
  BY <1>finish, <1>quiet, <1>finished
     DEF Accept, Fail, Duplicate, Reject, Finish
<1>goto. ASSUME NEW h \in Handlers, UNCHANGED <<records, credits>>,
                NEW st \in Steps \ {"read", "write"}, Goto(h, st)
         PROVE  Quiet
  <2>1. [task[h] EXCEPT !.step = st].step = st
    BY <1>task DEF Tasks
  <2>2. ~Owes([task[h] EXCEPT !.step = st])
    BY <2>1 DEF Owes
  <2> QED BY <1>goto, <1>quiet, <2>2 DEF Goto
<1>first. FirstStep \in Steps \ {"read", "write"}
  BY DEF FirstStep, Steps
<1>1. ASSUME NEW h \in Handlers, Arrival(h) PROVE Quiet
  <2>1. PICK r \in Requests : Receive(h, r)
    BY <1>1 DEF Arrival
  <2> DEFINE t == [IdleTask EXCEPT
                     !.step = IF r.kind = "single" THEN FirstStep ELSE "begin",
                     !.req = r]
  <2>2. ~Owes(t)
    BY <1>first DEF Owes, IdleTask
  <2> QED BY <2>1, <2>2, <1>quiet DEF Receive
<1>2. ASSUME NEW h \in Handlers, BeginBatch(h) PROVE Quiet
  <2> DEFINE t == [task[h] EXCEPT !.step = "lookup", !.after = profile[Caller(h)]]
  <2>1. ~Owes(t)
    BY <1>task DEF Owes, Tasks
  <2>2. CASE Goto(h, "reply")
    BY <1>2, <2>2, <1>goto DEF BeginBatch, Steps
  <2>3. CASE Become(h, t)
    BY <1>2, <2>1, <2>3, <1>quiet DEF BeginBatch
  <2> QED BY <1>2, <2>2, <2>3 DEF BeginBatch
<1>3. ASSUME NEW h \in Handlers, LookUp(h) PROVE Quiet
  <2>1. (\E rid : Duplicate(h, rid)) \/ Goto(h, FirstStep)
    BY <1>3 DEF LookUp
  <2> QED BY <1>3, <2>1, <1>finish, <1>goto, <1>first DEF LookUp
<1>4. ASSUME NEW h \in Handlers, Screen(h) PROVE Quiet
  <2>1. (\E reason : Reject(h, reason)) \/ Goto(h, "insert")
    BY <1>4 DEF Screen
  <2> QED BY <1>4, <2>1, <1>finish, <1>goto DEF Screen, Steps
<1>5. ASSUME NEW h \in Handlers, InsertSaved(h) PROVE Goal
  <2>1. PICK id \in FreshIds :
          /\ records' = records \cup {NewRow(h, id)}
          /\ \/ Become(h, [task[h] EXCEPT !.step = "read", !.rid = id])
             \/ Finish(h, Answer(h, "accepted", Pass, id, 0), task[h].after)
    BY <1>5 DEF InsertSaved
  <2>2. OthersKeepTask(h)
    BY <2>1, <1>become DEF Finish
  <2>3. Owes(task'[h]) => /\ task'[h].rid = id
                          /\ task'[h].req = task[h].req
                          /\ task'[h].pos = task[h].pos
    <3>1. CASE Become(h, [task[h] EXCEPT !.step = "read", !.rid = id])
      <4>1. task'[h] = [task[h] EXCEPT !.step = "read", !.rid = id]
        BY <3>1, <1>become
      <4>2. task[h] \in Tasks
        BY <1>task
      <4> QED BY <4>1, <4>2 DEF Tasks
    <3>2. CASE Finish(h, Answer(h, "accepted", Pass, id, 0), task[h].after)
      BY <3>2, <1>become, <1>finished DEF Finish
    <3> QED BY <2>1, <3>1, <3>2
  <2>4. Saves(h, id)
    BY <1>5, <2>1, <2>2, <2>3 DEF InsertSaved, Insertable, Saves, Owes
  <2> QED BY <1>5, <2>4 DEF InsertSaved, FreshIds
<1>6. ASSUME NEW h \in Handlers, InsertError(h) PROVE Goal
  <2>1. Fail(h) \/ Goto(h, "refind")
    BY <1>6 DEF InsertError
  <2>2. task[h].step # "idle" /\ UNCHANGED credits
    BY <1>6 DEF InsertError
  <2>3. CASE UNCHANGED records
    BY <2>1, <2>2, <2>3, <1>finish, <1>goto DEF Steps
  <2>4. CASE ~UNCHANGED records
    <3>1. /\ Insertable(h)
          /\ \E id \in FreshIds : records' = records \cup {NewRow(h, id)}
      BY <1>6, <2>4 DEF InsertError
    <3>2. OthersKeepTask(h)
      BY <2>1, <1>become DEF Fail, Finish, Goto
    <3>3. ~Owes(task'[h])
      <4>1. CASE Fail(h)
        BY <4>1, <1>become, <1>finished DEF Fail, Finish
      <4>2. CASE Goto(h, "refind")
        <5>1. task'[h].step = "refind"
          BY <4>2, <1>become, <1>task DEF Goto, Tasks
        <5> QED BY <5>1 DEF Owes
      <4> QED BY <2>1, <4>1, <4>2
    <3>4. ~Owes(task[h])
      BY <1>6 DEF InsertError, Owes
    <3> QED BY <2>2, <3>1, <3>2, <3>3, <3>4 DEF Saves, Insertable, FreshIds
  <2> QED BY <2>3, <2>4
<1>7. ASSUME NEW h \in Handlers, ReFind(h) PROVE Quiet
  <2>1. (\E rid : Duplicate(h, rid)) \/ (\E reason : Reject(h, reason))
    BY <1>7 DEF ReFind
  <2> QED BY <1>7, <2>1, <1>finish DEF ReFind
<1>8. ASSUME NEW h \in Handlers, ReadProgress(h) PROVE Quiet
  <2>1. task[h].step = "read" /\ UNCHANGED <<records, credits>>
    BY <1>8 DEF ReadProgress
  <2>2. CASE Accept(h)
    BY <2>1, <2>2, <1>finish
  <2>3. CASE ~Accept(h)
    <3>1. PICK snap : Become(h, [task[h] EXCEPT !.step = "write", !.snap = snap])
      BY <1>8, <2>3 DEF ReadProgress
    <3>2. SameWork(task'[h], task[h]) /\ OthersKeepTask(h)
      <4>1. /\ task'[h] = [task[h] EXCEPT !.step = "write", !.snap = snap]
            /\ OthersKeepTask(h)
        BY <3>1, <1>become
      <4>2. task[h] \in Tasks
        BY <1>task
      <4> QED BY <4>1, <4>2 DEF Tasks, SameWork
    <3> QED BY <2>1, <3>2 DEF Quiet, OthersKeepTask, Owes, SameWork
  <2> QED BY <2>2, <2>3
<1>9. ASSUME NEW h \in Handlers, WriteProgress(h) PROVE Goal
  <2>1. task[h].step = "write" /\ UNCHANGED records
    BY <1>9 DEF WriteProgress
  <2>2. PICK a, after : Finish(h, a, after)
    BY <1>9 DEF WriteProgress, Accept
  <2>3. OthersKeepTask(h) /\ ~Owes(task'[h])
    BY <2>2, <1>become, <1>finished DEF Finish
  <2>4. CASE UNCHANGED credits
    BY <2>1, <2>2, <2>4, <1>quiet, <1>finished DEF Finish
  <2>5. CASE credits' = [credits EXCEPT ![task[h].rid] = @ + 1]
    BY <2>1, <2>3, <2>5 DEF Pays, Owes
  <2> QED BY <1>9, <2>4, <2>5 DEF WriteProgress
<1>10. ASSUME NEW h \in Handlers, Reply(h) PROVE Quiet
  <2>1. ~Owes(IdleTask)
    BY DEF Owes, IdleTask
  <2> QED BY <1>10, <2>1, <1>quiet DEF Reply
<1>11. ASSUME Crash PROVE Quiet
  BY <1>11 DEF Crash, Quiet, Owes, IdleTask
<1> QED
  BY <1>1, <1>2, <1>3, <1>4, <1>5, <1>6, <1>7, <1>8, <1>9, <1>10, <1>11
     DEF Next, HandlerStep

(***************************************************************************)
(* Identity: one record per id, one EXP write per record.                  *)
(***************************************************************************)
Identity ==
  /\ UniqueRecordIds
  /\ UniqueClientIds
  /\ UnsavedUncredited
  /\ CreditedOnce
  /\ OwesItsOwn
  /\ OwedApart

\* A quiet step leaves the tables alone and only ever frees debtors.
LEMMA IdentityQuiet ==
  ASSUME TypeOK, Identity, Quiet
  PROVE  Identity'
<1>1. records' = records /\ credits' = credits
  BY DEF Quiet
<1>2. \A g \in Handlers : Owes(task'[g]) =>
        /\ Owes(task[g]) /\ task'[g].rid = task[g].rid
        /\ Item(g)' = Item(g) /\ Caller(g)' = Caller(g)
  BY DEF Quiet, SameWork, Item, Caller
<1>3. (/\ UniqueRecordIds /\ UniqueClientIds /\ UnsavedUncredited /\ CreditedOnce)'
  BY <1>1 DEF Identity, UniqueRecordIds, UniqueClientIds, UnsavedUncredited, CreditedOnce
<1>4. OwesItsOwn'
  BY <1>1, <1>2 DEF Identity, OwesItsOwn
<1>5. OwedApart'
  BY <1>2 DEF Identity, OwedApart
<1> QED BY <1>3, <1>4, <1>5 DEF Identity

\* A save adds a row with a fresh record id and an unused client id, whose
\* only debtor is the handler that saved it.
LEMMA IdentitySaves ==
  ASSUME TypeOK, Identity, NEW h \in Handlers, NEW id \in RecordIds,
         task[h].step # "idle", Saves(h, id)
  PROVE  Identity'
<1> DEFINE new == NewRow(h, id)
<1>1. /\ records' = records \cup {new}
      /\ credits' = credits
      /\ \A row \in records : row.id # id
  BY DEF Saves, FreshIds
<1>2. /\ new.id = id /\ new.cid = Item(h).cid
      /\ new.user = Caller(h) /\ new.play = Item(h).play
  BY DEF NewRow
<1>3. \A row \in records : row.cid = Item(h).cid => row.cid = NoId
  BY DEF Saves, Found
<1>4. credits[id] = 0
  BY <1>1 DEF Identity, UnsavedUncredited
<1>5. UniqueRecordIds'
  BY <1>1, <1>2 DEF Identity, UniqueRecordIds
<1>6. UniqueClientIds'
  BY <1>1, <1>2, <1>3 DEF Identity, UniqueClientIds
<1>7. UnsavedUncredited'
  BY <1>1 DEF Identity, UnsavedUncredited
<1>8. CreditedOnce'
  BY <1>1, <1>2, <1>4 DEF Identity, CreditedOnce
<1>9. \A g \in Handlers : g # h => task'[g] = task[g]
  BY DEF Saves, OthersKeepTask
<1>10. Owes(task'[h]) => /\ task'[h].rid = id
                         /\ Item(h)' = Item(h) /\ Caller(h)' = Caller(h)
  BY DEF Saves, Item, Caller
<1>11. \A g \in Handlers : Owes(task[g]) => task[g].rid # id
  BY <1>1 DEF Identity, OwesItsOwn
<1>12. OwesItsOwn'
  <2> SUFFICES ASSUME NEW g \in Handlers, Owes(task'[g])
               PROVE  /\ credits'[task'[g].rid] = 0
                      /\ \E row \in records' : /\ row.id = task'[g].rid
                                              /\ row.user = Caller(g)'
                                              /\ row.cid = (Item(g)').cid
                                              /\ row.play = (Item(g)').play
    BY DEF OwesItsOwn
  <2>1. CASE g = h
    BY <2>1, <1>1, <1>2, <1>4, <1>10
  <2>2. CASE g # h
    <3>1. task'[g] = task[g] /\ Item(g)' = Item(g) /\ Caller(g)' = Caller(g)
      BY <2>2, <1>9 DEF Item, Caller
    <3> QED BY <3>1, <1>1 DEF Identity, OwesItsOwn
  <2> QED BY <2>1, <2>2
<1>13. OwedApart'
  BY <1>9, <1>10, <1>11 DEF Identity, OwedApart
<1> QED BY <1>5, <1>6, <1>7, <1>8, <1>12, <1>13 DEF Identity

\* Paying writes the EXP of a record that had none, and ends the debt; no
\* other handler owes for that record.
LEMMA IdentityPays ==
  ASSUME TypeOK, Identity, NEW h \in Handlers, Pays(h)
  PROVE  Identity'
<1> DEFINE id == task[h].rid
<1>1. /\ id \in RecordIds /\ credits[id] = 0
      /\ \E row \in records : row.id = id
  BY DEF Pays, Identity, OwesItsOwn, TypeOK, AtWork
<1>2. /\ records' = records
      /\ credits' = [credits EXCEPT ![id] = 1]
  <2>1. credits[id] + 1 = 1
    BY <1>1
  <2> QED BY <2>1 DEF Pays
<1>3. UniqueRecordIds' /\ UniqueClientIds'
  BY <1>2 DEF Identity, UniqueRecordIds, UniqueClientIds
<1>4. UnsavedUncredited'
  BY <1>1, <1>2 DEF Identity, UnsavedUncredited, TypeOK
<1>5. CreditedOnce'
  <2> SUFFICES ASSUME NEW row \in records PROVE credits'[row.id] <= 1
    BY <1>2 DEF CreditedOnce
  <2>1. credits \in [RecordIds -> Nat] /\ row.id \in RecordIds
    BY DEF TypeOK, Rows
  <2> QED BY <1>2, <2>1 DEF Identity, CreditedOnce
<1>6. \A g \in Handlers : Owes(task'[g]) =>
        /\ g # h /\ task'[g] = task[g]
        /\ Item(g)' = Item(g) /\ Caller(g)' = Caller(g)
  BY DEF Pays, OthersKeepTask, Item, Caller
<1>7. OwesItsOwn'
  <2> SUFFICES ASSUME NEW g \in Handlers, Owes(task'[g])
               PROVE  /\ credits'[task'[g].rid] = 0
                      /\ \E row \in records' : /\ row.id = task'[g].rid
                                              /\ row.user = Caller(g)'
                                              /\ row.cid = (Item(g)').cid
                                              /\ row.play = (Item(g)').play
    BY DEF OwesItsOwn
  <2>1. task[g].rid # id /\ task[g].rid \in RecordIds
    BY <1>6 DEF Identity, OwedApart, Pays, TypeOK, AtWork
  <2> QED BY <1>2, <1>6, <2>1 DEF Identity, OwesItsOwn, TypeOK
<1>8. OwedApart'
  BY <1>6 DEF Identity, OwedApart
<1> QED BY <1>3, <1>4, <1>5, <1>7, <1>8 DEF Identity

\* Identity survives every step.
LEMMA IdentityStep == TypeOK /\ Identity /\ [Next]_vars => Identity'
<1> SUFFICES ASSUME TypeOK, Identity, [Next]_vars PROVE Identity'
  OBVIOUS
<1>1. CASE UNCHANGED vars
  <2>1. Quiet
    BY <1>1 DEF vars, Quiet, SameWork
  <2> QED BY <2>1, IdentityQuiet
<1>2. CASE Next
  BY <1>2, StepShape, IdentityQuiet, IdentitySaves, IdentityPays
<1> QED BY <1>1, <1>2

\* The database and the handlers start out with nothing owed or credited.
LEMMA IdentityInit == Init => Identity
  BY DEF Init, Identity, UniqueRecordIds, UniqueClientIds, UnsavedUncredited,
         CreditedOnce, OwesItsOwn, OwedApart, Owes, IdleTask

\* An id names at most one record, whatever overlaps or is retried
\* (record_batch.go asks, then inserts).
THEOREM OneRecordPerClientId == Spec => []UniqueClientIds
<1>1. TypeOK /\ Identity /\ [Next]_vars => (TypeOK /\ Identity)'
  BY TypeStep, IdentityStep
<1>2. TypeOK /\ Identity => UniqueClientIds
  BY DEF Identity
<1>3. Init => TypeOK /\ Identity
  BY IdentityInit, TypeInit
<1> QED BY <1>1, <1>2, <1>3, PTL DEF Spec

\* EXP is written at most once for a record (record.go:applyExpGain), over
\* all retries, crashes and failed calls.
THEOREM ExpOncePerRecord == Spec => []CreditedOnce
<1>1. TypeOK /\ Identity /\ [Next]_vars => (TypeOK /\ Identity)'
  BY TypeStep, IdentityStep
<1>2. TypeOK /\ Identity => CreditedOnce
  BY DEF Identity
<1>3. Init => TypeOK /\ Identity
  BY IdentityInit, TypeInit
<1> QED BY <1>1, <1>2, <1>3, PTL DEF Spec

(***************************************************************************)
(* Answers are backed by rows.                                             *)
(***************************************************************************)

\* Rows are never deleted or changed, so a backed answer stays backed.
LEMMA BackedStays ==
  ASSUME NEW user, NEW a, records \subseteq records', Backed(records, user, a)
  PROVE  Backed(records', user, a)
  BY DEF Backed

\* A handler whose request stays and whose answers stay, or grow by a backed
\* one, keeps all results backed.
LEMMA ResultsStayBacked ==
  ASSUME TypeOK, ResultsAreBacked, records \subseteq records',
         NEW h \in Handlers, task[h].step # "idle", NEW t, Become(h, t),
         t.req = task[h].req,
         \/ t.results = task[h].results
         \/ \E a : t.results = Append(task[h].results, a) /\ Backed(records', Caller(h), a)
  PROVE  ResultsAreBacked'
<1>0. /\ task' = [task EXCEPT ![h] = t]
      /\ task'[h] = t
      /\ \A g \in Handlers : g # h => task'[g] = task[g]
  BY DEF TypeOK, Become
<1> SUFFICES ASSUME NEW g \in Handlers, NEW i \in DOMAIN task'[g].results
             PROVE  Backed(records', Caller(g)', task'[g].results[i])
  BY DEF ResultsAreBacked
<1>1. CASE g # h
  <2>1. task'[g] = task[g] /\ Caller(g)' = Caller(g)
    BY <1>0, <1>1 DEF Caller
  <2>2. i \in DOMAIN task[g].results /\ Backed(records, Caller(g), task[g].results[i])
    BY <2>1 DEF ResultsAreBacked
  <2> QED BY <2>1, <2>2, BackedStays
<1>2. CASE g = h
  <2>1. Caller(h)' = Caller(h) /\ task'[h].results = t.results
    BY <1>0 DEF Caller
  <2>2. task[h].results \in Seq(Answers)
    BY BusyType DEF Tasks
  <2>3. CASE t.results = task[h].results
    <3>1. Backed(records, Caller(h), task[h].results[i])
      BY <1>2, <2>1, <2>3 DEF ResultsAreBacked
    <3> QED BY <1>2, <2>1, <2>3, <3>1, BackedStays
  <2>4. CASE \E a : t.results = Append(task[h].results, a) /\ Backed(records', Caller(h), a)
    <3>1. PICK a : t.results = Append(task[h].results, a) /\ Backed(records', Caller(h), a)
      BY <2>4
    <3>2. i \in 1..Len(task[h].results) + 1
      BY <1>2, <2>1, <2>2, <3>1
    <3>3. CASE i = Len(task[h].results) + 1
      <4>1. task'[h].results[i] = a
        BY <2>1, <2>2, <3>1, <3>3
      <4> QED BY <1>2, <2>1, <3>1, <4>1
    <3>4. CASE i \in 1..Len(task[h].results)
      <4>1. /\ task'[h].results[i] = task[h].results[i]
            /\ i \in DOMAIN task[h].results
        BY <2>1, <2>2, <3>1, <3>4
      <4>2. Backed(records, Caller(h), task[h].results[i])
        BY <4>1 DEF ResultsAreBacked
      <4> QED BY <1>2, <2>1, <4>1, <4>2, BackedStays
    <3> QED BY <2>2, <3>2, <3>3, <3>4
  <2> QED BY <2>3, <2>4
<1> QED BY <1>1, <1>2

\* Answers without a record id, other than "accepted", promise nothing.
LEMMA EmptyAnswerBacked ==
  ASSUME NEW h \in Handlers, NEW st, st # "accepted", NEW reason
  PROVE  Backed(records', Caller(h), Answer(h, st, reason, NoRecord, 0))
  BY DEF Backed, Answer

\* A debtor's "accepted" is backed by the row it saved.
LEMMA DebtorAnswerBacked ==
  ASSUME OwesItsOwn, UNCHANGED records, NEW h \in Handlers, Owes(task[h]), NEW exp
  PROVE  Backed(records', Caller(h), Answer(h, "accepted", Pass, task[h].rid, exp))
  BY DEF Backed, Answer, OwesItsOwn

Durable == ResultsAreBacked /\ AnswersAreDurable

\* Every answer a handler adds is backed when it is added, and stays so.
LEMMA DurableStep == TypeOK /\ OwesItsOwn /\ Durable /\ [Next]_vars => Durable'
<1> SUFFICES ASSUME TypeOK, OwesItsOwn, Durable, [Next]_vars PROVE Durable'
  OBVIOUS
<1>grow. Next => records \subseteq records'
  <2>1. ASSUME NEW h \in Handlers, HandlerStep(h) PROVE records \subseteq records'
    BY <2>1 DEF HandlerStep, BeginBatch, LookUp, Screen, InsertSaved, InsertError,
                ReFind, ReadProgress, WriteProgress, Reply
  <2>2. ASSUME NEW h \in Handlers, Arrival(h) PROVE records \subseteq records'
    BY <2>2 DEF Arrival, Receive
  <2>3. ASSUME Crash PROVE records \subseteq records'
    BY <2>3 DEF Crash
  <2> QED BY <2>1, <2>2, <2>3 DEF Next
<1>old. ASSUME Next, UNCHANGED replies PROVE AnswersAreDurable'
  BY <1>grow, <1>old, BackedStays DEF Durable, AnswersAreDurable
<1>finish. ASSUME NEW h \in Handlers, Next, task[h].step # "idle", NEW a, NEW after,
                  Finish(h, a, after), Backed(records', Caller(h), a)
           PROVE  ResultsAreBacked'
  <2>1. /\ Finished(h, a, after).req = task[h].req
        /\ Finished(h, a, after).results = Append(task[h].results, a)
    BY DEF Finished
  <2> QED BY <1>finish, <1>grow, <2>1, ResultsStayBacked DEF Finish, Durable
<1>goto. ASSUME NEW h \in Handlers, Next, task[h].step # "idle", NEW t, Become(h, t),
                t.req = task[h].req, t.results = task[h].results
         PROVE  ResultsAreBacked'
  BY <1>goto, <1>grow, ResultsStayBacked DEF Durable
<1>step. ASSUME NEW h \in Handlers, Next, task[h].step # "idle", NEW st, Goto(h, st)
         PROVE  ResultsAreBacked'
  <2>1. /\ [task[h] EXCEPT !.step = st].req = task[h].req
        /\ [task[h] EXCEPT !.step = st].results = task[h].results
    BY <1>step, BusyType DEF Tasks
  <2> QED BY <1>step, <1>goto, <2>1 DEF Goto
<1>empty. ASSUME NEW h \in Handlers, Next, task[h].step # "idle",
                 Fail(h) \/ Duplicate(h, NoRecord) \/ \E reason : Reject(h, reason)
          PROVE  ResultsAreBacked'
  BY <1>empty, <1>finish, EmptyAnswerBacked DEF Fail, Duplicate, Reject
<1>known. ASSUME NEW h \in Handlers, Next, task[h].step # "idle", UNCHANGED records,
                 NEW row \in Found(Item(h).cid), Duplicate(h, row.id)
          PROVE  ResultsAreBacked'
  <2>1. Backed(records', Caller(h), Answer(h, "duplicate", Pass, row.id, 0))
    BY <1>known DEF Backed, Answer, Found
  <2> QED BY <1>known, <1>finish, <2>1 DEF Duplicate
<1>accept. ASSUME NEW h \in Handlers, Next, Owes(task[h]), UNCHANGED records, Accept(h)
           PROVE  ResultsAreBacked'
  <2>1. task[h].step # "idle"
    BY <1>accept DEF Owes
  <2> QED BY <1>accept, <2>1, <1>finish, DebtorAnswerBacked DEF Accept
<1>idle. ASSUME NEW h \in Handlers, Next, NEW t, Become(h, t), t.results = << >>
         PROVE  ResultsAreBacked'
  <2>1. /\ task'[h] = t
        /\ \A g \in Handlers : g # h => task'[g] = task[g] /\ Caller(g)' = Caller(g)
    BY <1>idle DEF TypeOK, Become, Caller
  <2>2. ASSUME NEW g \in Handlers, NEW i \in DOMAIN task'[g].results
        PROVE  Backed(records', Caller(g)', task'[g].results[i])
    <3>1. g # h /\ i \in DOMAIN task[g].results
      BY <1>idle, <2>1, <2>2
    <3>2. Backed(records, Caller(g), task[g].results[i])
      BY <3>1 DEF Durable, ResultsAreBacked
    <3> QED BY <1>idle, <1>grow, <2>1, <3>1, <3>2, BackedStays
  <2> QED BY <2>2 DEF ResultsAreBacked
<1>1. ASSUME Next, NEW h \in Handlers, Arrival(h) PROVE Durable'
  <2>1. PICK r \in Requests : Receive(h, r)
    BY <1>1 DEF Arrival
  <2> DEFINE t == [IdleTask EXCEPT
                     !.step = IF r.kind = "single" THEN FirstStep ELSE "begin",
                     !.req = r]
  <2>2. t.results = << >> /\ Become(h, t) /\ UNCHANGED replies
    BY <2>1 DEF IdleTask, Receive
  <2> QED BY <1>1, <2>2, <1>idle, <1>old DEF Durable
<1>2. ASSUME Next, NEW h \in Handlers, BeginBatch(h) PROVE Durable'
  <2> DEFINE t == [task[h] EXCEPT !.step = "lookup", !.after = profile[Caller(h)]]
  <2>1. task[h].step # "idle" /\ UNCHANGED replies /\ (Become(h, t) \/ Goto(h, "reply"))
    BY <1>2 DEF BeginBatch
  <2>2. t.req = task[h].req /\ t.results = task[h].results
    BY <2>1, BusyType DEF Tasks
  <2> QED BY <1>2, <2>1, <2>2, <1>goto, <1>step, <1>old DEF Durable
<1>3. ASSUME Next, NEW h \in Handlers, LookUp(h) PROVE Durable'
  <2>1. /\ task[h].step # "idle" /\ UNCHANGED <<replies, records>>
        /\ \/ Duplicate(h, NoRecord)
           \/ \E row \in Found(Item(h).cid) : Duplicate(h, row.id)
           \/ Goto(h, FirstStep)
    BY <1>3 DEF LookUp
  <2> QED BY <1>3, <2>1, <1>empty, <1>known, <1>step, <1>old DEF Durable
<1>4. ASSUME Next, NEW h \in Handlers, Screen(h) PROVE Durable'
  <2>1. /\ task[h].step # "idle" /\ UNCHANGED replies
        /\ (\E reason : Reject(h, reason)) \/ Goto(h, "insert")
    BY <1>4 DEF Screen
  <2> QED BY <1>4, <2>1, <1>empty, <1>step, <1>old DEF Durable
<1>5. ASSUME Next, NEW h \in Handlers, InsertSaved(h) PROVE Durable'
  <2>1. task[h].step # "idle" /\ UNCHANGED replies
    BY <1>5 DEF InsertSaved
  <2>2. PICK id \in FreshIds :
          /\ records' = records \cup {NewRow(h, id)}
          /\ \/ Become(h, [task[h] EXCEPT !.step = "read", !.rid = id])
             \/ Finish(h, Answer(h, "accepted", Pass, id, 0), task[h].after)
    BY <1>5 DEF InsertSaved
  <2>3. CASE Become(h, [task[h] EXCEPT !.step = "read", !.rid = id])
    <3> DEFINE t == [task[h] EXCEPT !.step = "read", !.rid = id]
    <3>1. t.req = task[h].req /\ t.results = task[h].results
      BY <2>1, BusyType DEF Tasks
    <3> QED BY <1>5, <2>1, <2>3, <3>1, <1>goto, <1>old DEF Durable
  <2>4. CASE Finish(h, Answer(h, "accepted", Pass, id, 0), task[h].after)
    <3>1. Backed(records', Caller(h), Answer(h, "accepted", Pass, id, 0))
      <4>1. /\ NewRow(h, id) \in records'
            /\ NewRow(h, id).id = id /\ NewRow(h, id).user = Caller(h)
            /\ NewRow(h, id).cid = Item(h).cid /\ NewRow(h, id).play = Item(h).play
        BY <2>2 DEF NewRow
      <4>2. /\ Answer(h, "accepted", Pass, id, 0).rid = id
            /\ Answer(h, "accepted", Pass, id, 0).item = Item(h)
        BY DEF Answer
      <4> QED BY <4>1, <4>2 DEF Backed
    <3> QED BY <1>5, <2>1, <2>4, <3>1, <1>finish, <1>old DEF Durable
  <2> QED BY <2>2, <2>3, <2>4
<1>6. ASSUME Next, NEW h \in Handlers, InsertError(h) PROVE Durable'
  <2>1. /\ task[h].step # "idle" /\ UNCHANGED replies
        /\ Fail(h) \/ Goto(h, "refind")
    BY <1>6 DEF InsertError
  <2> QED BY <1>6, <2>1, <1>empty, <1>step, <1>old DEF Durable
<1>7. ASSUME Next, NEW h \in Handlers, ReFind(h) PROVE Durable'
  <2>1. /\ task[h].step # "idle" /\ UNCHANGED <<replies, records>>
        /\ \/ \E row \in Found(Item(h).cid) : Duplicate(h, row.id)
           \/ \E reason : Reject(h, reason)
    BY <1>7 DEF ReFind
  <2> QED BY <1>7, <2>1, <1>empty, <1>known, <1>old DEF Durable
<1>8. ASSUME Next, NEW h \in Handlers, ReadProgress(h) PROVE Durable'
  <2>1. task[h].step = "read" /\ UNCHANGED <<replies, records>>
    BY <1>8 DEF ReadProgress
  <2>2. CASE Accept(h)
    BY <1>8, <2>1, <2>2, <1>accept, <1>old DEF Owes, Durable
  <2>3. CASE ~Accept(h)
    <3>1. PICK snap : Become(h, [task[h] EXCEPT !.step = "write", !.snap = snap])
      BY <1>8, <2>3 DEF ReadProgress
    <3> DEFINE t == [task[h] EXCEPT !.step = "write", !.snap = snap]
    <3>2. t.req = task[h].req /\ t.results = task[h].results
      BY <2>1, BusyType DEF Tasks
    <3> QED BY <1>8, <2>1, <3>1, <3>2, <1>goto, <1>old DEF Durable
  <2> QED BY <2>2, <2>3
<1>9. ASSUME Next, NEW h \in Handlers, WriteProgress(h) PROVE Durable'
  <2>1. task[h].step = "write" /\ UNCHANGED <<replies, records>>
    BY <1>9 DEF WriteProgress
  <2>2. PICK exp, after : Finish(h, Answer(h, "accepted", Pass, task[h].rid, exp), after)
    BY <1>9 DEF WriteProgress, Accept
  <2>3. Backed(records', Caller(h), Answer(h, "accepted", Pass, task[h].rid, exp))
    BY <2>1, DebtorAnswerBacked DEF Owes
  <2> QED BY <1>9, <2>1, <2>2, <2>3, <1>finish, <1>old DEF Durable
<1>10. ASSUME Next, NEW h \in Handlers, Reply(h) PROVE Durable'
  <2>1. /\ UNCHANGED records
        /\ Become(h, IdleTask) /\ IdleTask.results = << >>
        /\ replies' = replies \cup
             {[user |-> Caller(h), answer |-> task[h].results[i]] :
                i \in DOMAIN task[h].results}
    BY <1>10 DEF Reply, IdleTask
  <2>2. ASSUME NEW rep \in replies' PROVE Backed(records, rep.user, rep.answer)
    BY <2>1 DEF Durable, AnswersAreDurable, ResultsAreBacked
  <2>3. AnswersAreDurable'
    BY <2>1, <2>2, BackedStays DEF AnswersAreDurable
  <2> QED BY <1>10, <2>1, <2>3, <1>idle DEF Durable
<1>11. ASSUME Crash PROVE Durable'
  <2>1. ResultsAreBacked'
    BY <1>11 DEF Crash, ResultsAreBacked, IdleTask
  <2>2. Next
    BY <1>11 DEF Next
  <2> QED BY <1>11, <2>1, <2>2, <1>old DEF Crash, Durable
<1>12. CASE UNCHANGED vars
  BY <1>12 DEF vars, Durable, ResultsAreBacked, AnswersAreDurable, Backed, Caller
<1> QED
  BY <1>1, <1>2, <1>3, <1>4, <1>5, <1>6, <1>7, <1>8, <1>9, <1>10, <1>11, <1>12
     DEF Next, HandlerStep

\* What a client is told survives: an answer that names a record is backed by
\* that record in the table, for ever (record.go, record_batch.go).
THEOREM AnswersDurable == Spec => []AnswersAreDurable
<1> DEFINE Inv == TypeOK /\ Identity /\ Durable
<1>1. Init => Inv
  BY TypeInit, IdentityInit
     DEF Init, Durable, ResultsAreBacked, AnswersAreDurable, IdleTask
<1>2. Inv /\ [Next]_vars => Inv'
  BY TypeStep, IdentityStep, DurableStep DEF Identity
<1>3. Inv => AnswersAreDurable
  BY DEF Durable
<1> QED BY <1>1, <1>2, <1>3, PTL DEF Spec

(***************************************************************************)
(* Levels never run ahead of EXP.                                          *)
(***************************************************************************)
LevelsEarned == LevelIsEarned /\ SnapIsEarned

\* More EXP reaches no fewer levels.
LEMMA ReachedGrows ==
  ASSUME NEW e \in Nat, NEW f \in Nat, e <= f
  PROVE  Reached(e) \subseteq Reached(f)
<1>1. ASSUME NEW l \in Levels, RequireExp[l] <= e
      PROVE  RequireExp[l] <= f
  <2>1. RequireExp[l] \in Nat
    BY LevelTableAssumption
  <2> QED BY <1>1, <2>1
<1> QED BY <1>1 DEF Reached

\* The level that goes with a gain is earned by the new EXP.
LEMMA LevelStep == TypeOK /\ LevelsEarned /\ [Next]_vars => LevelsEarned'
<1> USE IngestAssumption
<1> SUFFICES ASSUME TypeOK, LevelsEarned, [Next]_vars PROVE LevelsEarned'
  OBVIOUS
<1>task. task \in [Handlers -> Tasks]
  BY DEF TypeOK
<1>become. ASSUME NEW h \in Handlers, NEW t, Become(h, t),
                  t.step = "write" => EarnedLevel(t.snap)
           PROVE  SnapIsEarned'
  <2>1. ASSUME NEW g \in Handlers
        PROVE  task'[g] = (IF g = h THEN t ELSE task[g])
    BY <1>become, <1>task DEF Become
  <2>2. \A g \in Handlers : task[g].step = "write" => EarnedLevel(task[g].snap)
    BY DEF LevelsEarned, SnapIsEarned
  <2> QED BY <1>become, <2>1, <2>2 DEF SnapIsEarned, EarnedLevel, Reached
<1>finish. ASSUME NEW h \in Handlers,
                  \/ Accept(h) \/ Fail(h) \/ \E rid : Duplicate(h, rid)
                  \/ \E reason : Reject(h, reason)
                  \/ \E a, after : Finish(h, a, after)
           PROVE  SnapIsEarned'
  <2>1. PICK a, after : Become(h, Finished(h, a, after))
    BY <1>finish DEF Accept, Fail, Duplicate, Reject, Finish
  <2>2. Finished(h, a, after).step # "write"
    BY DEF Finished
  <2> QED BY <2>1, <2>2, <1>become
<1>goto. ASSUME NEW h \in Handlers, NEW st, st # "write", Goto(h, st)
         PROVE  SnapIsEarned'
  <2>1. [task[h] EXCEPT !.step = st].step # "write"
    BY <1>goto, <1>task DEF Tasks
  <2> QED BY <1>goto, <2>1, <1>become DEF Goto
<1>same. ASSUME UNCHANGED profile PROVE LevelIsEarned'
  BY <1>same DEF LevelsEarned, LevelIsEarned
<1>1. ASSUME NEW h \in Handlers, Arrival(h) PROVE LevelsEarned'
  <2>1. PICK r \in Requests : Receive(h, r)
    BY <1>1 DEF Arrival
  <2>2. [IdleTask EXCEPT !.step = IF r.kind = "single" THEN FirstStep ELSE "begin",
                         !.req = r].step # "write"
    BY DEF IdleTask, FirstStep
  <2> QED BY <2>1, <2>2, <1>become, <1>same DEF Receive, LevelsEarned
<1>2. ASSUME NEW h \in Handlers, BeginBatch(h) PROVE LevelsEarned'
  <2>1. [task[h] EXCEPT !.step = "lookup", !.after = profile[Caller(h)]].step # "write"
    BY <1>task DEF Tasks
  <2> QED BY <1>2, <2>1, <1>become, <1>goto, <1>same DEF BeginBatch, LevelsEarned
<1>3. ASSUME NEW h \in Handlers, LookUp(h) PROVE LevelsEarned'
  <2>1. UNCHANGED profile /\ ((\E rid : Duplicate(h, rid)) \/ Goto(h, FirstStep))
    BY <1>3 DEF LookUp
  <2>2. FirstStep # "write"
    BY DEF FirstStep
  <2> QED BY <2>1, <2>2, <1>finish, <1>goto, <1>same DEF LevelsEarned
<1>4. ASSUME NEW h \in Handlers, Screen(h) PROVE LevelsEarned'
  <2>1. UNCHANGED profile /\ ((\E reason : Reject(h, reason)) \/ Goto(h, "insert"))
    BY <1>4 DEF Screen
  <2> QED BY <2>1, <1>finish, <1>goto, <1>same DEF LevelsEarned
<1>5. ASSUME NEW h \in Handlers, InsertSaved(h) PROVE LevelsEarned'
  <2>1. PICK id :
          \/ Become(h, [task[h] EXCEPT !.step = "read", !.rid = id])
          \/ Finish(h, Answer(h, "accepted", Pass, id, 0), task[h].after)
    BY <1>5 DEF InsertSaved
  <2>2. [task[h] EXCEPT !.step = "read", !.rid = id].step # "write"
    BY <1>task DEF Tasks
  <2>3. SnapIsEarned'
    BY <2>1, <2>2, <1>become, <1>finish
  <2> QED BY <1>5, <2>3, <1>same DEF InsertSaved, LevelsEarned
<1>6. ASSUME NEW h \in Handlers, InsertError(h) PROVE LevelsEarned'
  <2>1. UNCHANGED profile /\ (Fail(h) \/ Goto(h, "refind"))
    BY <1>6 DEF InsertError
  <2> QED BY <2>1, <1>finish, <1>goto, <1>same DEF LevelsEarned
<1>7. ASSUME NEW h \in Handlers, ReFind(h) PROVE LevelsEarned'
  <2>1. /\ UNCHANGED profile
        /\ (\E rid : Duplicate(h, rid)) \/ (\E reason : Reject(h, reason))
    BY <1>7 DEF ReFind
  <2> QED BY <2>1, <1>finish, <1>same DEF LevelsEarned
<1>8. ASSUME NEW h \in Handlers, ReadProgress(h) PROVE LevelsEarned'
  <2>1. task[h].step = "read" /\ UNCHANGED profile
    BY <1>8 DEF ReadProgress
  <2>2. CASE Accept(h)
    BY <2>1, <2>2, <1>finish, <1>same DEF LevelsEarned
  <2>3. CASE ~Accept(h)
    <3> DEFINE user == profile[Caller(h)]
               exp == user.exp + Gain[Item(h).play]
    <3>1. PICK level \in Levels \cup {user.level} :
            /\ LevelAfter(level, user.level, exp) \/ level = user.level
            /\ Become(h, [task[h] EXCEPT !.step = "write",
                                         !.snap = [exp |-> exp, level |-> level]])
      BY <1>8, <2>3 DEF ReadProgress
    <3>2. /\ Caller(h) \in Users /\ user \in Profiles
          /\ Gain[Item(h).play] \in Nat
      BY <2>1, BusyType DEF TypeOK
    <3>3. EarnedLevel(user) /\ user.exp \in Nat /\ exp \in Nat /\ user.exp <= exp
      BY <3>2 DEF LevelsEarned, LevelIsEarned, Profiles
    <3>4. level = user.level \/ level \in Reached(exp)
      BY <3>1 DEF LevelAfter, IsHighestLevelFor
    <3>5. level = NewUser.level \/ level \in Reached(exp)
      BY <3>3, <3>4, ReachedGrows DEF EarnedLevel
    <3>6. EarnedLevel([exp |-> exp, level |-> level])
      BY <3>5 DEF EarnedLevel
    <3>7. [task[h] EXCEPT !.step = "write",
                          !.snap = [exp |-> exp, level |-> level]].snap
            = [exp |-> exp, level |-> level]
      BY <1>task DEF Tasks
    <3> QED BY <2>1, <3>1, <3>6, <3>7, <1>become, <1>same DEF LevelsEarned
  <2> QED BY <2>2, <2>3
<1>9. ASSUME NEW h \in Handlers, WriteProgress(h) PROVE LevelsEarned'
  <2>1. SnapIsEarned'
    BY <1>9, <1>finish DEF WriteProgress
  <2>2. EarnedLevel(task[h].snap) /\ Caller(h) \in Users
    BY <1>9, BusyType DEF WriteProgress, LevelsEarned, SnapIsEarned
  <2>3. UNCHANGED profile \/ profile' = [profile EXCEPT ![Caller(h)] = task[h].snap]
    BY <1>9 DEF WriteProgress
  <2>4. LevelIsEarned'
    BY <2>2, <2>3 DEF TypeOK, LevelsEarned, LevelIsEarned
  <2> QED BY <2>1, <2>4 DEF LevelsEarned
<1>10. ASSUME NEW h \in Handlers, Reply(h) PROVE LevelsEarned'
  <2>1. IdleTask.step # "write"
    BY DEF IdleTask
  <2> QED BY <1>10, <2>1, <1>become, <1>same DEF Reply, LevelsEarned
<1>11. ASSUME Crash PROVE LevelsEarned'
  BY <1>11, <1>same DEF Crash, SnapIsEarned, IdleTask, LevelsEarned
<1>12. CASE UNCHANGED vars
  BY <1>12 DEF vars, LevelsEarned, LevelIsEarned, SnapIsEarned
<1> QED
  BY <1>1, <1>2, <1>3, <1>4, <1>5, <1>6, <1>7, <1>8, <1>9, <1>10, <1>11, <1>12
     DEF Next, HandlerStep

(***************************************************************************)
(* EXP: what a step does to the users' rows and to updates under way.      *)
(***************************************************************************)

\* Handler h has read its user's row and computed the new one.
Reads(h) ==
  LET user == profile[Caller(h)]
      exp  == user.exp + Gain[Item(h).play]
  IN
  /\ task[h].step = "read"
  /\ UNCHANGED <<records, profile, credits>>
  /\ OthersKeepTask(h)
  /\ \E level :
       /\ task'[h] = [task[h] EXCEPT !.step = "write",
                                     !.snap = [exp |-> exp, level |-> level]]
       /\ LevelAfter(level, user.level, exp) \/ Fault

\* Handler h writes the row it computed.
Writes(h) ==
  /\ task[h].step = "write"
  /\ UNCHANGED records
  /\ profile' = [profile EXCEPT ![Caller(h)] = task[h].snap]
  /\ credits' = [credits EXCEPT ![task[h].rid] = @ + 1]
  /\ OthersKeepTask(h)
  /\ task'[h].step # "write"

\* No row is written, and updates under way stay as they are or are given up.
Rests ==
  /\ UNCHANGED <<profile, credits>>
  /\ \A g \in Handlers : task'[g].step = "write" => task'[g] = task[g]

\* Every step has one of the three shapes.
LEMMA ExpShape ==
  ASSUME TypeOK, Next
  PROVE  \/ \E h \in Handlers : Reads(h)
         \/ \E h \in Handlers : Writes(h)
         \/ Rests
<1>task. task \in [Handlers -> Tasks]
  BY DEF TypeOK
<1>become. ASSUME NEW h \in Handlers, NEW t, Become(h, t)
           PROVE  task'[h] = t /\ OthersKeepTask(h)
  BY <1>become, <1>task DEF Become, OthersKeepTask
<1>rests. ASSUME NEW h \in Handlers, NEW t, Become(h, t), t.step # "write",
                 UNCHANGED <<profile, credits>>
          PROVE  Rests
  BY <1>rests, <1>become DEF Rests, OthersKeepTask
<1>finish. ASSUME NEW h \in Handlers, UNCHANGED <<profile, credits>>,
                  \/ Accept(h) \/ Fail(h)
                  \/ \E rid : Duplicate(h, rid)
                  \/ \E reason : Reject(h, reason)
                  \/ \E a, after : Finish(h, a, after)
           PROVE  Rests
  <2>1. PICK a, after : Become(h, Finished(h, a, after))
    BY <1>finish DEF Accept, Fail, Duplicate, Reject, Finish
  <2>2. Finished(h, a, after).step # "write"
    BY DEF Finished
  <2> QED BY <2>1, <2>2, <1>finish, <1>rests
<1>goto. ASSUME NEW h \in Handlers, UNCHANGED <<profile, credits>>,
                NEW st, st # "write", Goto(h, st)
         PROVE  Rests
  <2>1. [task[h] EXCEPT !.step = st].step # "write"
    BY <1>goto, <1>task DEF Tasks
  <2> QED BY <1>goto, <2>1, <1>rests DEF Goto
<1>1. ASSUME NEW h \in Handlers, Arrival(h) PROVE Rests
  <2>1. PICK r \in Requests : Receive(h, r)
    BY <1>1 DEF Arrival
  <2>2. [IdleTask EXCEPT !.step = IF r.kind = "single" THEN FirstStep ELSE "begin",
                         !.req = r].step # "write"
    BY DEF IdleTask, FirstStep
  <2> QED BY <2>1, <2>2, <1>rests DEF Receive
<1>2. ASSUME NEW h \in Handlers, BeginBatch(h) PROVE Rests
  <2>1. [task[h] EXCEPT !.step = "lookup", !.after = profile[Caller(h)]].step # "write"
    BY <1>task DEF Tasks
  <2> QED BY <1>2, <2>1, <1>rests, <1>goto DEF BeginBatch
<1>3. ASSUME NEW h \in Handlers, LookUp(h) PROVE Rests
  <2>1. FirstStep # "write"
    BY DEF FirstStep
  <2>2. (\E rid : Duplicate(h, rid)) \/ Goto(h, FirstStep)
    BY <1>3 DEF LookUp
  <2> QED BY <1>3, <2>1, <2>2, <1>finish, <1>goto DEF LookUp
<1>4. ASSUME NEW h \in Handlers, Screen(h) PROVE Rests
  <2>1. (\E reason : Reject(h, reason)) \/ Goto(h, "insert")
    BY <1>4 DEF Screen
  <2> QED BY <1>4, <2>1, <1>finish, <1>goto DEF Screen
<1>5. ASSUME NEW h \in Handlers, InsertSaved(h) PROVE Rests
  <2>1. PICK id \in FreshIds :
          \/ Become(h, [task[h] EXCEPT !.step = "read", !.rid = id])
          \/ Finish(h, Answer(h, "accepted", Pass, id, 0), task[h].after)
    BY <1>5 DEF InsertSaved
  <2>2. [task[h] EXCEPT !.step = "read", !.rid = id].step # "write"
    BY <1>task DEF Tasks
  <2> QED BY <1>5, <2>1, <2>2, <1>rests, <1>finish DEF InsertSaved
<1>6. ASSUME NEW h \in Handlers, InsertError(h) PROVE Rests
  BY <1>6, <1>finish, <1>goto DEF InsertError
<1>7. ASSUME NEW h \in Handlers, ReFind(h) PROVE Rests
  <2>1. (\E rid : Duplicate(h, rid)) \/ (\E reason : Reject(h, reason))
    BY <1>7 DEF ReFind
  <2> QED BY <1>7, <2>1, <1>finish DEF ReFind
<1>8. ASSUME NEW h \in Handlers, ReadProgress(h) PROVE Rests \/ Reads(h)
  <2>1. task[h].step = "read" /\ UNCHANGED <<records, profile, credits>>
    BY <1>8 DEF ReadProgress
  <2>2. CASE Accept(h)
    BY <2>1, <2>2, <1>finish
  <2>3. CASE ~Accept(h)
    <3> DEFINE exp == profile[Caller(h)].exp + Gain[Item(h).play]
    <3>1. PICK level \in Levels \cup {profile[Caller(h)].level} :
            /\ LevelAfter(level, profile[Caller(h)].level, exp) \/ Fault
            /\ Become(h, [task[h] EXCEPT !.step = "write",
                                         !.snap = [exp |-> exp, level |-> level]])
      BY <1>8, <2>3 DEF ReadProgress
    <3>2. /\ task'[h] = [task[h] EXCEPT !.step = "write",
                                       !.snap = [exp |-> exp, level |-> level]]
          /\ OthersKeepTask(h)
      BY <3>1, <1>become
    <3> QED BY <2>1, <3>1, <3>2, Zenon DEF Reads
  <2> QED BY <2>2, <2>3
<1>9. ASSUME NEW h \in Handlers, WriteProgress(h) PROVE Rests \/ Writes(h)
  <2>1. task[h].step = "write" /\ UNCHANGED records
    BY <1>9 DEF WriteProgress
  <2>2. PICK a, after : Finish(h, a, after)
    BY <1>9 DEF WriteProgress, Accept
  <2>3. OthersKeepTask(h) /\ task'[h].step # "write"
    <3>1. Finished(h, a, after).step # "write"
      BY DEF Finished
    <3> QED BY <2>2, <3>1, <1>become DEF Finish
  <2> QED BY <1>9, <2>1, <2>2, <2>3, <1>finish DEF WriteProgress, Writes
<1>10. ASSUME NEW h \in Handlers, Reply(h) PROVE Rests
  <2>1. IdleTask.step # "write"
    BY DEF IdleTask
  <2> QED BY <1>10, <2>1, <1>rests DEF Reply
<1>11. ASSUME Crash PROVE Rests
  BY <1>11 DEF Crash, Rests, IdleTask
<1> QED
  BY <1>1, <1>2, <1>3, <1>4, <1>5, <1>6, <1>7, <1>8, <1>9, <1>10, <1>11
     DEF Next, HandlerStep

\* Every step leaves the count of faults alone or raises it.
LEMMA FaultsGrow ==
  ASSUME TypeOK, [Next]_vars, faults' = 0
  PROVE  faults = 0 /\ ~Fault
<1>1. faults \in Nat
  BY DEF TypeOK
<1>2. Fault => faults' # 0
  BY <1>1 DEF Fault
<1>3. \/ Fault \/ NoFault
      \/ UNCHANGED faults
  <2>1. ASSUME NEW h \in Handlers, HandlerStep(h) PROVE Fault \/ NoFault
    <3>1. BeginBatch(h) \/ LookUp(h) \/ Screen(h) => Fault \/ NoFault
      BY DEF BeginBatch, LookUp, Screen
    <3>2. InsertSaved(h) \/ InsertError(h) \/ ReFind(h) => Fault \/ NoFault
      BY DEF InsertSaved, InsertError, ReFind
    <3>3. ReadProgress(h) => Fault \/ NoFault
      BY DEF ReadProgress
    <3>4. WriteProgress(h) => Fault \/ NoFault
      BY DEF WriteProgress
    <3>5. Reply(h) => NoFault
      BY DEF Reply, NoFault
    <3> QED BY <2>1, <3>1, <3>2, <3>3, <3>4, <3>5 DEF HandlerStep
  <2>2. ASSUME NEW h \in Handlers, Arrival(h) PROVE UNCHANGED faults
    BY <2>2 DEF Arrival, Receive
  <2> QED BY <2>1, <2>2 DEF Next, Crash, vars
<1> QED BY <1>2, <1>3 DEF NoFault

\* A row's points only depend on its credits.
LEMMA PointsDepend ==
  ASSUME NEW u \in Users, {r \in records' : r.user = u} = {r \in records : r.user = u},
         \A row \in records : row.user = u => credits'[row.id] = credits[row.id]
  PROVE  Points(u)' = Points(u)
<1>1. \A row \in {r \in records : r.user = u} : PointsOf(row)' = PointsOf(row)
  BY DEF PointsOf
<1> QED BY <1>1 DEF Points

\* A step that writes no EXP moves nobody's total: a saved row has no credit.
LEMMA PointsKept ==
  ASSUME TypeOK, Identity, [Next]_vars, UNCHANGED credits, NEW u \in Users
  PROVE  Points(u)' = Points(u)
<1>1. CASE UNCHANGED records
  BY <1>1, PointsDepend
<1>2. ASSUME NEW h \in Handlers, NEW id \in RecordIds, Saves(h, id)
      PROVE  Points(u)' = Points(u)
  <2> DEFINE new == NewRow(h, id)
  <2>1. records' = records \cup {new} /\ new.id = id
    BY <1>2 DEF Saves, NewRow
  <2>2. credits[id] = 0
    BY <1>2 DEF Saves, FreshIds, Identity, UnsavedUncredited
  <2>3. \A row : PointsOf(row)' = PointsOf(row)
    BY DEF PointsOf
  <2>4. PointsOf(new) = {}
    <3>1. 1..credits[new.id] = {}
      BY <2>1, <2>2
    <3> QED BY <3>1 DEF PointsOf
  <2>5. \A x : x \in Points(u)' <=> x \in Points(u)
    BY <2>1, <2>3, <2>4 DEF Points
  <2> QED BY <2>5
<1>3. ASSUME NEW h \in Handlers, Pays(h) PROVE UNCHANGED records
  BY <1>3 DEF Pays
<1>4. CASE UNCHANGED vars
  BY <1>1, <1>4 DEF vars
<1>5. CASE Next
  BY <1>1, <1>2, <1>3, <1>5, StepShape DEF Quiet
<1> QED BY <1>4, <1>5

\* One write for a record is worth as many points as its play has EXP.
LEMMA PointsOfOneWrite ==
  ASSUME NEW id, NEW n \in Nat
  PROVE  /\ IsFiniteSet({id} \X ((1..1) \X (1..n)))
         /\ Cardinality({id} \X ((1..1) \X (1..n))) = n
<1> DEFINE A == 1..1
           B == 1..n
           C == {id}
           AB == A \X B
<1>1. IsFiniteSet(A) /\ Cardinality(A) = 1
  <2>1. A = {1}
    OBVIOUS
  <2> QED BY <2>1, FS_Singleton
<1>2. IsFiniteSet(B) /\ Cardinality(B) = n
  BY FS_Interval
<1>3. IsFiniteSet(C) /\ Cardinality(C) = 1
  BY FS_Singleton
<1>4. IsFiniteSet(AB) /\ Cardinality(AB) = n
  <2> HIDE DEF A, B
  <2> QED BY <1>1, <1>2, FS_Product
<1> HIDE DEF AB, C
<1>5. IsFiniteSet(C \X AB) /\ Cardinality(C \X AB) = n
  BY <1>3, <1>4, FS_Product
<1> QED BY <1>5 DEF AB, C

\* A write adds to its user's total what its record is worth, and nothing to
\* anybody else's.
LEMMA PointsPaid ==
  ASSUME TypeOK, Identity, PointsAreFinite, NEW h \in Handlers, Writes(h),
         NEW u, u = Caller(h)
  PROVE  /\ Earned(u)' = Earned(u) + Gain[Item(h).play]
         /\ IsFiniteSet(Points(u)')
         /\ \A v \in Users \ {u} : Points(v)' = Points(v)
<1> USE IngestAssumption
<1>0. /\ u \in Users /\ Item(h) \in Items
      /\ Gain[Item(h).play] \in Nat /\ task[h].rid \in RecordIds
  BY BusyType DEF Writes, TypeOK, AtWork, Owes, Items
<1>1. PICK paid \in records : /\ paid.id = task[h].rid
                              /\ paid.user = u
                              /\ paid.play = Item(h).play
  BY DEF Writes, Owes, Identity, OwesItsOwn
<1>2. \A row \in records : row.id = paid.id => row = paid
  BY DEF Identity, UniqueRecordIds
<1>3. credits[paid.id] = 0
  BY <1>1 DEF Writes, Owes, Identity, OwesItsOwn
<1>4. credits' = [credits EXCEPT ![paid.id] = 1] /\ records' = records
  <2>1. credits[paid.id] + 1 = 1
    BY <1>3
  <2> QED BY <1>1, <2>1 DEF Writes
<1>5. \A row \in records : row # paid => credits'[row.id] = credits[row.id]
  BY <1>2, <1>4 DEF TypeOK, Rows
<1>6. credits'[paid.id] = 1
  BY <1>0, <1>1, <1>4 DEF TypeOK
<1>7. \A v \in Users \ {u} : Points(v)' = Points(v)
  BY <1>1, <1>4, <1>5, PointsDepend
<1> DEFINE won == {paid.id} \X ((1..1) \X (1..Gain[paid.play]))
<1>8. PointsOf(paid) = {} /\ PointsOf(paid)' = won
  <2>1. 1..credits[paid.id] = {}
    BY <1>3
  <2> QED BY <1>6, <2>1 DEF PointsOf
<1>9. \A row \in records : row # paid => PointsOf(row)' = PointsOf(row)
  BY <1>5 DEF PointsOf
<1>10. Points(u)' = Points(u) \cup won
  <2> DEFINE own == {r \in records : r.user = u}
  <2>1. Points(u)' = UNION {PointsOf(row)' : row \in own}
    BY <1>4 DEF Points
  <2>2. \A row \in own : PointsOf(row)' =
          IF row = paid THEN won ELSE PointsOf(row)
    BY <1>8, <1>9
  <2>3. paid \in own
    BY <1>1
  <2> QED BY <1>8, <2>1, <2>2, <2>3 DEF Points
<1>11. Points(u) \cap won = {}
  <2>1. \A row \in records : row # paid => PointsOf(row) \cap won = {}
    BY <1>2 DEF PointsOf
  <2> QED BY <1>8, <2>1 DEF Points
<1>12. IsFiniteSet(won) /\ Cardinality(won) = Gain[Item(h).play]
  <2>1. Gain[paid.play] \in Nat /\ Gain[paid.play] = Gain[Item(h).play]
    BY <1>0, <1>1
  <2> QED BY <2>1, PointsOfOneWrite
<1>13. IsFiniteSet(Points(u))
  BY <1>0 DEF PointsAreFinite
<1>14. /\ IsFiniteSet(Points(u)')
       /\ Cardinality(Points(u)') =
            Cardinality(Points(u)) + Gain[Item(h).play]
  <2> HIDE DEF won
  <2>1. /\ IsFiniteSet(Points(u) \cup won)
        /\ Cardinality(Points(u) \cup won) =
             Cardinality(Points(u)) + Gain[Item(h).play] - Cardinality({})
    BY <1>11, <1>12, <1>13, FS_Union
  <2>2. Cardinality({}) = 0 /\ Cardinality(Points(u)) \in Nat
    BY <1>13, FS_EmptySet, FS_CardinalityType
  <2> QED BY <1>0, <1>10, <2>1, <2>2
<1> QED BY <1>7, <1>14 DEF Earned

ExpEarned == PointsAreFinite /\ ExpIsEarned /\ SnapIsBacked

\* EXP comes into a row only with the points of the record it is written for;
\* a row read earlier is worth no more, since totals only grow.
LEMMA ExpStep == TypeOK /\ Identity /\ ExpEarned /\ [Next]_vars => ExpEarned'
<1> USE IngestAssumption
<1> SUFFICES ASSUME TypeOK, Identity, ExpEarned, [Next]_vars PROVE ExpEarned'
  OBVIOUS
<1>task. task \in [Handlers -> Tasks] /\ profile \in [Users -> Profiles]
  BY DEF TypeOK
<1>total. \A u \in Users : Earned(u) \in Nat
  BY FS_CardinalityType DEF Earned, ExpEarned, PointsAreFinite
<1>calm. ASSUME UNCHANGED credits, NEW u \in Users
         PROVE  Points(u)' = Points(u) /\ Earned(u)' = Earned(u)
  BY <1>calm, PointsKept DEF Earned
<1>1. ASSUME UNCHANGED <<profile, credits>>
      PROVE  PointsAreFinite' /\ ExpIsEarned'
  BY <1>1, <1>calm DEF ExpEarned, PointsAreFinite, ExpIsEarned
<1>2. ASSUME Rests PROVE ExpEarned'
  <2>1. ASSUME NEW h \in Handlers, task'[h].step = "write"
        PROVE  task'[h].snap.exp <= Earned(Caller(h))' + Gain[Item(h).play]'
    <3>u. PICK u : u = Caller(h)
      OBVIOUS
    <3>1. task'[h] = task[h] /\ task[h].step = "write"
      BY <1>2, <2>1 DEF Rests
    <3>2. Caller(h)' = u /\ Item(h)' = Item(h) /\ u \in Users
      BY <3>u, <3>1, BusyType DEF Caller, Item
    <3>3. Earned(u)' = Earned(u)
      BY <1>2, <1>calm, <3>2 DEF Rests
    <3>4. Earned(Caller(h))' = Earned(u)
      BY <3>2, <3>3 DEF Earned, Points, PointsOf
    <3> QED BY <3>u, <3>1, <3>2, <3>4 DEF ExpEarned, SnapIsBacked
  <2> QED BY <1>1, <1>2, <2>1 DEF Rests, ExpEarned, SnapIsBacked
<1>3. ASSUME NEW h \in Handlers, Reads(h) PROVE ExpEarned'
  <2>1. /\ task[h].step = "read" /\ UNCHANGED <<profile, credits>>
        /\ \A g \in Handlers : g # h => task'[g] = task[g]
    BY <1>3 DEF Reads, OthersKeepTask
  <2>h. /\ task'[h].req = task[h].req /\ task'[h].pos = task[h].pos
        /\ task'[h].snap.exp = profile[Caller(h)].exp + Gain[Item(h).play]
    <3>1. PICK level :
            task'[h] = [task[h] EXCEPT !.step = "write",
              !.snap = [exp |-> profile[Caller(h)].exp + Gain[Item(h).play],
                        level |-> level]]
      BY <1>3 DEF Reads
    <3>2. task[h] \in Tasks
      BY <1>task
    <3> QED BY <3>1, <3>2 DEF Tasks
  <2>2. ASSUME NEW g \in Handlers, task'[g].step = "write"
        PROVE  task'[g].snap.exp <= Earned(Caller(g))' + Gain[Item(g).play]'
    <3>u. PICK u : u = Caller(g)
      OBVIOUS
    <3>1. /\ task[g].step # "idle"
          /\ task'[g].req = task[g].req /\ task'[g].pos = task[g].pos
      <4>1. CASE g = h
        BY <2>h, <2>1, <4>1
      <4>2. CASE g # h
        BY <2>1, <2>2, <4>2
      <4> QED BY <4>1, <4>2
    <3>2. /\ Caller(g)' = u /\ Item(g)' = Item(g) /\ u \in Users
          /\ Gain[Item(g).play] \in Nat
      BY <3>u, <3>1, BusyType DEF Caller, Item
    <3>3. Earned(Caller(g))' = Earned(u)
      <4>1. Earned(u)' = Earned(u)
        BY <2>1, <3>2, <1>calm
      <4> QED BY <3>2, <4>1 DEF Earned, Points, PointsOf
    <3>4. task'[g].snap.exp <= Earned(u) + Gain[Item(g).play]
      <4>1. CASE g = h
        <5>1. task'[g].snap.exp = profile[u].exp + Gain[Item(g).play]
          BY <2>h, <3>u, <4>1
        <5>2. profile[u].exp <= Earned(u) /\ profile[u].exp \in Nat
          BY <1>task, <3>2 DEF ExpEarned, ExpIsEarned, Profiles
        <5> QED BY <1>total, <3>2, <5>1, <5>2
      <4>2. CASE g # h
        BY <2>1, <2>2, <3>u, <4>2 DEF ExpEarned, SnapIsBacked
      <4> QED BY <4>1, <4>2
    <3> QED BY <3>2, <3>3, <3>4
  <2> QED BY <1>1, <2>1, <2>2 DEF ExpEarned, SnapIsBacked
<1>4. ASSUME NEW h \in Handlers, Writes(h) PROVE ExpEarned'
  <2>p. PICK p : p = Caller(h)
    OBVIOUS
  <2>1. /\ p \in Users /\ Gain[Item(h).play] \in Nat
        /\ task[h] \in Tasks /\ task[h].snap \in Profiles
    BY <1>4, <2>p, BusyType DEF Writes, Tasks
  <2>2. /\ Earned(p)' = Earned(p) + Gain[Item(h).play]
        /\ IsFiniteSet(Points(p)')
        /\ \A u \in Users \ {p} : Points(u)' = Points(u)
    BY <1>4, <2>p, PointsPaid DEF ExpEarned
  <2>3. PointsAreFinite'
    BY <2>2 DEF ExpEarned, PointsAreFinite
  <2>4. \A u \in Users : Earned(u) <= Earned(u)' /\ Earned(u)' \in Nat
    <3>1. \A u \in Users \ {p} : Earned(u)' = Earned(u)
      BY <2>2 DEF Earned
    <3> QED BY <1>total, <2>1, <2>2, <3>1
  <2>5. ExpIsEarned'
    <3> SUFFICES ASSUME NEW u \in Users PROVE profile'[u].exp <= Earned(u)'
      BY DEF ExpIsEarned
    <3>1. profile' = [profile EXCEPT ![p] = task[h].snap]
      BY <1>4, <2>p DEF Writes
    <3>2. CASE u = p
      <4>1. task[h].snap.exp <= Earned(p) + Gain[Item(h).play]
        BY <1>4, <2>p DEF Writes, ExpEarned, SnapIsBacked
      <4> QED BY <1>task, <2>2, <3>1, <3>2, <4>1
    <3>3. CASE u # p
      <4>1. profile'[u] = profile[u]
        BY <1>task, <3>1, <3>3
      <4>2. profile[u].exp \in Nat /\ profile[u].exp <= Earned(u)
        BY <1>task DEF Profiles, ExpEarned, ExpIsEarned
      <4>3. Earned(u) <= Earned(u)' /\ Earned(u)' \in Nat /\ Earned(u) \in Nat
        BY <1>total, <2>4
      <4> QED BY <4>1, <4>2, <4>3
    <3> QED BY <3>2, <3>3
  <2>6. SnapIsBacked'
    <3> SUFFICES ASSUME NEW g \in Handlers, task'[g].step = "write"
                 PROVE  task'[g].snap.exp <= Earned(Caller(g))' + Gain[Item(g).play]'
      BY DEF SnapIsBacked
    <3>u. PICK u : u = Caller(g)
      OBVIOUS
    <3>1. task'[g] = task[g] /\ task[g].step = "write"
      BY <1>4 DEF Writes, OthersKeepTask
    <3>2. /\ Caller(g)' = u /\ Item(g)' = Item(g) /\ u \in Users
          /\ Gain[Item(g).play] \in Nat /\ task[g].snap.exp \in Nat
      BY <3>u, <3>1, BusyType DEF Caller, Item, Tasks, Profiles
    <3>3. task[g].snap.exp <= Earned(u) + Gain[Item(g).play]
      BY <3>u, <3>1 DEF ExpEarned, SnapIsBacked
    <3>4. PICK e : e = Earned(u)'
      OBVIOUS
    <3>5. Earned(Caller(g))' = e
      BY <3>2, <3>4 DEF Earned, Points, PointsOf
    <3>6. Earned(u) <= e /\ e \in Nat /\ Earned(u) \in Nat
      BY <1>total, <2>4, <3>2, <3>4
    <3> QED BY <3>1, <3>2, <3>3, <3>5, <3>6
  <2> QED BY <2>3, <2>5, <2>6 DEF ExpEarned
<1>5. CASE UNCHANGED vars
  <2>1. Rests
    BY <1>5 DEF vars, Rests
  <2> QED BY <2>1, <1>2
<1> QED BY <1>2, <1>3, <1>4, <1>5, ExpShape

LevelsDue == LevelIsDue /\ SnapIsDue

\* A level looked up for some EXP is no lower than any that EXP reaches.
LEMMA LookedUpIsDue ==
  ASSUME NEW level \in Nat, NEW from \in Nat, NEW exp, LevelAfter(level, from, exp)
  PROVE  \A l \in Levels : RequireExp[l] <= exp => l <= level
<1>1. Levels \subseteq Nat
  BY LevelTableAssumption
<1>2. CASE IsHighestLevelFor(level, exp)
  BY <1>2 DEF IsHighestLevelFor, Reached
<1>3. CASE level = from /\ \E k \in Levels : IsHighestLevelFor(k, exp) /\ k <= from
  <2>1. PICK k \in Levels : IsHighestLevelFor(k, exp) /\ k <= level
    BY <1>3
  <2>2. ASSUME NEW l \in Levels, RequireExp[l] <= exp PROVE l <= level
    <3>1. l <= k
      BY <2>1, <2>2 DEF IsHighestLevelFor, Reached
    <3>2. l \in Nat /\ k \in Nat
      BY <1>1
    <3> QED BY <2>1, <3>1, <3>2
  <2> QED BY <2>2
<1>4. CASE Reached(exp) = {}
  BY <1>4 DEF Reached
<1> QED BY <1>2, <1>3, <1>4 DEF LevelAfter

\* A row is written as it was computed, both columns from one lookup.
LEMMA LevelDueStep == TypeOK /\ LevelsDue /\ [Next]_vars => LevelsDue'
<1> USE IngestAssumption
<1> SUFFICES ASSUME TypeOK, LevelsDue, [Next]_vars, faults' = 0
             PROVE  LevelsDue'
  BY DEF LevelsDue, LevelIsDue, SnapIsDue
<1>task. task \in [Handlers -> Tasks] /\ profile \in [Users -> Profiles]
  BY DEF TypeOK
<1>calm. faults = 0 /\ ~Fault
  BY FaultsGrow
<1>old. /\ \A u \in Users : profile[u].exp > 0 =>
             \A l \in Levels : RequireExp[l] <= profile[u].exp => l <= profile[u].level
        /\ \A h \in Handlers : task[h].step = "write" =>
             \A l \in Levels :
               RequireExp[l] <= task[h].snap.exp => l <= task[h].snap.level
  BY <1>calm DEF LevelsDue, LevelIsDue, SnapIsDue
<1>1. ASSUME Rests PROVE LevelsDue'
  BY <1>1, <1>old DEF Rests, LevelsDue, LevelIsDue, SnapIsDue
<1>2. ASSUME NEW h \in Handlers, Reads(h) PROVE LevelsDue'
  <2> DEFINE user == profile[Caller(h)]
             exp == user.exp + Gain[Item(h).play]
  <2>1. PICK level :
          /\ task'[h] = [task[h] EXCEPT !.step = "write",
                                        !.snap = [exp |-> exp, level |-> level]]
          /\ LevelAfter(level, user.level, exp) \/ Fault
    BY <1>2 DEF Reads
  <2>2. task'[h].snap = [exp |-> exp, level |-> level]
    BY <1>task, <2>1 DEF Tasks
  <2>3. user \in Profiles
    BY <1>2, BusyType DEF Reads, TypeOK
  <2>4. level \in Nat /\ user.level \in Nat
    BY <1>calm, <2>1, <2>3, LevelTableAssumption
       DEF LevelAfter, IsHighestLevelFor, Reached, Profiles
  <2>5. \A l \in Levels : RequireExp[l] <= exp => l <= level
    BY <1>calm, <2>1, <2>4, LookedUpIsDue
  <2>6. SnapIsDue'
    <3> SUFFICES ASSUME NEW g \in Handlers, task'[g].step = "write", NEW l \in Levels,
                        RequireExp[l] <= task'[g].snap.exp
                 PROVE  l <= task'[g].snap.level
      BY DEF SnapIsDue
    <3>1. CASE g = h
      BY <2>2, <2>5, <3>1
    <3>2. CASE g # h
      BY <1>2, <1>old, <3>2 DEF Reads, OthersKeepTask
    <3> QED BY <3>1, <3>2
  <2>7. LevelIsDue'
    BY <1>2, <1>old DEF Reads, LevelIsDue
  <2> QED BY <2>6, <2>7 DEF LevelsDue
<1>3. ASSUME NEW h \in Handlers, Writes(h) PROVE LevelsDue'
  <2>1. SnapIsDue'
    BY <1>3, <1>old DEF Writes, OthersKeepTask, SnapIsDue
  <2>2. Caller(h) \in Users
    BY <1>3, BusyType DEF Writes
  <2>3. ASSUME NEW u \in Users
        PROVE  profile'[u] = IF u = Caller(h) THEN task[h].snap ELSE profile[u]
    BY <1>3, <1>task, <2>2 DEF Writes
  <2>4. task[h].step = "write"
    BY <1>3 DEF Writes
  <2>5. LevelIsDue'
    BY <1>old, <2>3, <2>4 DEF LevelIsDue
  <2> QED BY <2>1, <2>5 DEF LevelsDue
<1>4. CASE UNCHANGED vars
  <2>1. Rests
    BY <1>4 DEF vars, Rests
  <2> QED BY <2>1, <1>1
<1> QED BY <1>1, <1>2, <1>3, <1>4, ExpShape

\* The invariant holds at first, as the runs check it on small instances.
LEMMA IInvInit == Init => IInv
<1> SUFFICES ASSUME Init PROVE IInv
  OBVIOUS
<1>1. \A u \in Users : Points(u) = {} /\ Earned(u) = 0 /\ IsFiniteSet(Points(u))
  BY FS_EmptySet DEF Init, Points, Earned
<1>2. /\ \A u \in Users : profile[u] = NewUser
      /\ \A h \in Handlers : task[h] = IdleTask
  BY DEF Init
<1>3. PointsAreFinite /\ ExpIsEarned /\ LevelIsEarned /\ LevelIsDue
  BY <1>1, <1>2
     DEF PointsAreFinite, ExpIsEarned, LevelIsEarned, EarnedLevel, LevelIsDue, NewUser
<1>4. SnapIsBacked /\ SnapIsEarned /\ SnapIsDue
  BY <1>2 DEF SnapIsBacked, SnapIsEarned, SnapIsDue, IdleTask
<1>5. ResultsAreBacked /\ AnswersAreDurable
  BY DEF Init, ResultsAreBacked, AnswersAreDurable, IdleTask
<1> QED BY <1>3, <1>4, <1>5, TypeInit, IdentityInit DEF IInv, Identity

\* Each of its parts survives a step with the help of those before it.
LEMMA IInvStep == IInv /\ [Next]_vars => IInv'
  BY TypeStep, IdentityStep, DurableStep, LevelStep, ExpStep, LevelDueStep
     DEF IInv, Identity, Durable, LevelsEarned, ExpEarned, LevelsDue

LEMMA InductiveInvariant == Spec => []IInv
  BY IInvInit, IInvStep, PTL DEF Spec

\* Interleaved updates never invent EXP: users.exp is at most what the
\* records credited to the user are worth (record.go:applyExpGain reads the
\* row, then writes the sum).
THEOREM ExpEarnedByRecords == Spec => []ExpIsEarned
<1>1. IInv => ExpIsEarned
  BY DEF IInv
<1> QED BY <1>1, InductiveInvariant, PTL

\* Without failed calls no level is left due, even where updates of one user
\* overwrite each other: exp and level are written together.
THEOREM LevelDue == Spec => []LevelIsDue
<1>1. IInv => LevelIsDue
  BY DEF IInv
<1> QED BY <1>1, InductiveInvariant, PTL

\* users.level is always a level that users.exp has reached, or the level new
\* users start with, although record.go computes it from an older row.
THEOREM LevelEarned == Spec => []LevelIsEarned
<1>1. IInv => LevelIsEarned
  BY DEF IInv
<1> QED BY <1>1, InductiveInvariant, PTL

(***************************************************************************)
(* The handlers implement the ledger.                                      *)
(***************************************************************************)

\* A ledger entry only looks at the rows of its id, their credits and debts.
LEMMA FateDepends ==
  ASSUME NEW k \in Ids, Found(k)' = Found(k),
         \A row \in Found(k) : credits'[row.id] = credits[row.id],
         \A row \in Found(k) : Pending(row.id)' <=> Pending(row.id)
  PROVE  FateOf(k)' = FateOf(k) /\ OwnerOf(k)' = OwnerOf(k)
  BY DEF FateOf, OwnerOf

\* Every step of the handlers is a step of the ledger or changes nothing in it.
LEMMA LedgerStep ==
  TypeOK /\ Identity /\ [Next]_vars => [Ledger!LedgerNext]_(Ledger!ledgerVars)
<1> USE IngestAssumption
<1> DEFINE Fate == [k \in Ids |-> FateOf(k)]
           Owner == [k \in Ids |-> OwnerOf(k)]
<1> SUFFICES ASSUME TypeOK, Identity, Next
             PROVE  [Ledger!LedgerNext]_(Ledger!ledgerVars)
  <2>1. CASE UNCHANGED vars
    BY <2>1 DEF vars, Ledger!ledgerVars, FateOf, OwnerOf, Found, Pending
  <2> QED BY <2>1
<1>stutter. ASSUME \A k \in Ids : FateOf(k)' = FateOf(k) /\ OwnerOf(k)' = OwnerOf(k)
            PROVE  [Ledger!LedgerNext]_(Ledger!ledgerVars)
  BY <1>stutter DEF Ledger!ledgerVars
<1>1. ASSUME Quiet PROVE [Ledger!LedgerNext]_(Ledger!ledgerVars)
  <2>1. \A k \in Ids : Found(k)' = Found(k) /\ OwnerOf(k)' = OwnerOf(k)
    BY <1>1 DEF Quiet, Found, OwnerOf
  <2>2. \A id : Pending(id)' => Pending(id)
    BY <1>1 DEF Quiet, Pending, SameWork
  <2>3. \A k \in Ids : \/ FateOf(k)' = FateOf(k)
                       \/ FateOf(k) = "pending" /\ FateOf(k)' = "closed"
    <3> SUFFICES ASSUME NEW k \in Ids
                 PROVE  \/ FateOf(k)' = FateOf(k)
                        \/ FateOf(k) = "pending" /\ FateOf(k)' = "closed"
      OBVIOUS
    <3>1. /\ Found(k)' = Found(k)
          /\ credits' = credits
      BY <1>1, <2>1 DEF Quiet
    <3>2. CASE \/ Found(k) = {}
               \/ \E row \in Found(k) : credits[row.id] > 0
      BY <3>1, <3>2 DEF FateOf
    <3>3. CASE /\ Found(k) # {}
               /\ ~\E row \in Found(k) : credits[row.id] > 0
      BY <2>2, <3>1, <3>3 DEF FateOf
    <3> QED BY <3>2, <3>3
  <2> DEFINE S == {k \in Ids : FateOf(k) = "pending" /\ FateOf(k)' = "closed"}
  <2>4. Fate' = [k \in Ids |-> IF k \in S THEN "closed" ELSE Fate[k]]
    BY <2>3
  <2>5. /\ S \in SUBSET Ids
        /\ \A k \in S : Fate[k] = "pending"
        /\ Owner' = Owner
    BY <2>1
  <2> QED BY <2>4, <2>5 DEF Ledger!LedgerNext, Ledger!Close
<1>2. ASSUME NEW h \in Handlers, NEW id \in RecordIds, task[h].step # "idle", Saves(h, id)
      PROVE  [Ledger!LedgerNext]_(Ledger!ledgerVars)
  <2>new. PICK new, cid : new = NewRow(h, id) /\ cid = Item(h).cid
    OBVIOUS
  <2>1. /\ records' = records \cup {new}
        /\ credits' = credits
        /\ \A row \in records : row.id # id
        /\ new.id = id /\ new.cid = cid /\ new.user = Caller(h)
        /\ cid \in Ids \cup {NoId} /\ Caller(h) \in Users
    BY <1>2, <2>new, BusyType DEF Saves, FreshIds, NewRow
  <2>2. \A x : x # id => (Pending(x)' <=> Pending(x))
    BY <1>2 DEF Saves, OthersKeepTask, Pending
  <2>3. ASSUME NEW k \in Ids, k # cid
        PROVE  FateOf(k)' = FateOf(k) /\ OwnerOf(k)' = OwnerOf(k)
    <3>1. Found(k)' = Found(k)
      BY <2>1, <2>3 DEF Found
    <3>2. \A row \in Found(k) : row.id # id
      BY <2>1 DEF Found
    <3> QED BY <2>1, <2>2, <3>1, <3>2, FateDepends
  <2>4. CASE cid = NoId
    BY <2>3, <2>4, <1>stutter
  <2>5. CASE cid \in Ids
    <3>u. PICK u \in Users : u = Caller(h)
      BY <2>1
    <3>f. PICK f \in {"pending", "closed"} :
            f = IF Pending(id)' THEN "pending" ELSE "closed"
      OBVIOUS
    <3>1. credits'[id] = 0
      BY <2>1 DEF Identity, UnsavedUncredited
    <3>2. ASSUME NEW k \in Ids, k = cid
          PROVE  FateOf(k) = "absent" /\ FateOf(k)' = f /\ OwnerOf(k)' = u
      <4>1. Found(k) = {} /\ Found(k)' = {new}
        BY <1>2, <2>1, <2>5, <2>new, <3>2 DEF Saves, Found
      <4>2. FateOf(k) = "absent" /\ OwnerOf(k)' = u
        BY <2>1, <3>u, <4>1 DEF FateOf, OwnerOf
      <4>3. FateOf(k)' = f
        BY <2>1, <3>1, <3>f, <4>1 DEF FateOf
      <4> QED BY <4>2, <4>3
    <3>3. \A k \in Ids : FateOf(k)' = (IF k = cid THEN f ELSE FateOf(k))
      BY <2>3, <3>2
    <3>4. \A k \in Ids : OwnerOf(k)' = (IF k = cid THEN u ELSE OwnerOf(k))
      BY <2>3, <3>2
    <3>5. Fate' = [k \in Ids |-> IF k = cid THEN f ELSE FateOf(k)]
      BY <3>3
    <3>6. Owner' = [k \in Ids |-> IF k = cid THEN u ELSE OwnerOf(k)]
      BY <3>4
    <3>7. Fate' = [Fate EXCEPT ![cid] = f]
      BY <2>5, <3>5
    <3>8. Owner' = [Owner EXCEPT ![cid] = u]
      BY <2>5, <3>6
    <3>9. Fate[cid] = "absent"
      BY <2>5, <3>2
    <3>10. Ledger!Store(cid, u, f)
      BY <3>7, <3>8, <3>9 DEF Ledger!Store
    <3> QED BY <2>5, <3>10 DEF Ledger!LedgerNext
  <2> QED BY <2>1, <2>4, <2>5
<1>3. ASSUME NEW h \in Handlers, Pays(h) PROVE [Ledger!LedgerNext]_(Ledger!ledgerVars)
  <2> DEFINE id == task[h].rid
  <2>1. PICK paid \in records : paid.id = id
    BY <1>3 DEF Pays, Identity, OwesItsOwn
  <2>2. /\ records' = records /\ id \in RecordIds /\ credits[id] = 0
        /\ credits' = [credits EXCEPT ![id] = 1]
    <3>1. id \in RecordIds /\ credits[id] = 0 /\ credits[id] + 1 = 1
      BY <1>3 DEF Pays, Identity, OwesItsOwn, TypeOK, AtWork
    <3> QED BY <1>3, <3>1 DEF Pays
  <2>3. \A x : x # id => (Pending(x)' <=> Pending(x))
    BY <1>3 DEF Pays, OthersKeepTask, Pending
  <2>4. \A row \in records : row.id = id => row = paid
    BY <2>1 DEF Identity, UniqueRecordIds
  <2>5. \A k \in Ids : Found(k)' = Found(k)
    BY <2>2 DEF Found
  <2>6. ASSUME NEW k \in Ids, k # paid.cid
        PROVE  FateOf(k)' = FateOf(k) /\ OwnerOf(k)' = OwnerOf(k)
    <3>1. \A row \in Found(k) : row.id # id /\ row.id \in RecordIds
      BY <2>4, <2>6 DEF Found, TypeOK, Rows
    <3> QED BY <2>2, <2>3, <2>5, <3>1, FateDepends DEF TypeOK
  <2>7. CASE paid.cid \notin Ids
    BY <2>6, <2>7, <1>stutter
  <2>8. CASE paid.cid \in Ids
    <3>1. ASSUME NEW k \in Ids, k = paid.cid
          PROVE  /\ FateOf(k) = "pending" /\ FateOf(k)' = "credited"
                 /\ OwnerOf(k)' = OwnerOf(k)
      <4>1. Found(k) = {paid} /\ Found(k)' = {paid}
        BY <2>2, <3>1 DEF Found, Identity, UniqueClientIds
      <4>2. Pending(paid.id)
        BY <1>3, <2>1 DEF Pays, Pending
      <4>3. FateOf(k) = "pending"
        BY <2>1, <2>2, <4>1, <4>2 DEF FateOf
      <4>4. credits'[paid.id] = 1
        BY <2>1, <2>2 DEF TypeOK
      <4>5. FateOf(k)' = "credited"
        BY <4>1, <4>4 DEF FateOf
      <4>6. OwnerOf(k)' = OwnerOf(k)
        BY <4>1 DEF OwnerOf
      <4> QED BY <4>3, <4>5, <4>6
    <3>2. \A k \in Ids : FateOf(k)' = (IF k = paid.cid THEN "credited" ELSE FateOf(k))
      BY <2>6, <3>1
    <3>3. \A k \in Ids : OwnerOf(k)' = OwnerOf(k)
      BY <2>6, <3>1
    <3>4. Fate' = [k \in Ids |-> IF k = paid.cid THEN "credited" ELSE FateOf(k)]
      BY <3>2
    <3>5. Owner' = Owner
      BY <3>3
    <3>6. Fate' = [Fate EXCEPT ![paid.cid] = "credited"]
      BY <2>8, <3>4
    <3>7. Fate[paid.cid] = "pending"
      BY <2>8, <3>1
    <3>8. Ledger!Credit(paid.cid)
      BY <3>5, <3>6, <3>7 DEF Ledger!Credit
    <3> QED BY <2>8, <3>8 DEF Ledger!LedgerNext
  <2> QED BY <2>7, <2>8
<1> QED BY <1>1, <1>2, <1>3, StepShape

\* Record ingest implements the ledger: for each client_record_id one store
\* for one user, then one decision about its EXP, whatever happens in between.
THEOREM LedgerRefinement == Spec => ImplementsLedger
<1>1. Init => Ledger!LedgerInit
  BY DEF Init, Ledger!LedgerInit, FateOf, OwnerOf, Found
<1>2. TypeOK /\ Identity /\ [Next]_vars => (TypeOK /\ Identity)'
  BY TypeStep, IdentityStep
<1>3. Init => TypeOK /\ Identity
  BY TypeInit, IdentityInit
<1> QED BY <1>1, <1>2, <1>3, LedgerStep, PTL DEF Spec, ImplementsLedger, Ledger!LedgerSpec

-----------------------------------------------------------------------------
(***************************************************************************)
(* HistoryInv is inductive, with the invariant of RecordIngest beside it:  *)
(* where no two updates of a user were between read and write at once, the *)
(* row read is still the row that the write replaces; and a batch takes    *)
(* for user_after the row it reads first, then the rows it writes itself,  *)
(* each of which its user has at that time.                                *)
(***************************************************************************)
\* A history step is a step of record ingest, and only adds to who raced.
LEMMA HistoryStep ==
  ASSUME HistoryTypeOK, RacedIsKept, [HistoryNext]_historyVars
  PROVE  /\ [Next]_vars
         /\ HistoryTypeOK' /\ RacedIsKept'
         /\ raced \subseteq raced'
<1>1. CASE UNCHANGED historyVars
  <2>1. UNCHANGED <<vars, shown, raced>>
    BY <1>1 DEF historyVars
  <2>2. RacingNow' = RacingNow
    BY <2>1 DEF vars, RacingNow, Crowd, Writing
  <2>3. TypeOK'
    BY <2>1, TypeStep DEF HistoryTypeOK
  <2> QED BY <2>1, <2>2, <2>3 DEF HistoryTypeOK, RacedIsKept
<1>2. CASE HistoryNext
  <2>1. /\ Next /\ shown' = [h \in Handlers |-> ShownNext(h)]
        /\ raced' = raced \cup RacingNow'
    BY <1>2 DEF HistoryNext
  <2>2. TypeOK'
    BY <2>1, TypeStep DEF HistoryTypeOK
  <2>3. RacingNow' \subseteq Users
    BY DEF RacingNow
  <2>4. ASSUME NEW h \in Handlers PROVE ShownNext(h) \in SUBSET Profiles
    <3>1. CASE ~Batching(h)'
      BY <3>1 DEF ShownNext
    <3>2. CASE Batching(h)'
      <4>1. task'[h].req.user \in Users
        BY <2>2, <2>4, <3>2, IngestAssumption DEF Batching, TypeOK, AtWork
      <4>2. profile'[task'[h].req.user] \in Profiles
        BY <2>2, <4>1 DEF TypeOK
      <4>3. shown[h] \in SUBSET Profiles
        BY <2>4 DEF HistoryTypeOK
      <4> QED BY <3>2, <4>2, <4>3 DEF ShownNext
    <3> QED BY <3>1, <3>2
  <2> QED BY <2>1, <2>2, <2>3, <2>4 DEF HistoryTypeOK, RacedIsKept
<1> QED BY <1>1, <1>2

\* Two updates between read and write have users apart, or a user who raced.
LEMMA WritersApart ==
  ASSUME RacedIsKept, NEW g \in Handlers, NEW h \in Handlers, Writing(g), Writing(h),
         Caller(g) = Caller(h), Caller(g) \in Users \ raced
  PROVE  g = h
  BY DEF RacedIsKept, RacingNow, Crowd, Caller

(***************************************************************************)
(* The running total.                                                      *)
(***************************************************************************)
Uncrowded == ExpLostOnlyByRaces /\ SnapIsCurrent

\* The next state's total and gain of a handler whose work stays the same.
LEMMA SameHandler ==
  ASSUME NEW g \in Handlers, SameWork(task'[g], task[g]), NEW u, u = Caller(g)
  PROVE  Caller(g)' = u /\ Item(g)' = Item(g)
  BY DEF SameWork, Caller, Item

\* A write by the only writer of its user makes exp the new total, and leaves
\* nobody with a row of that user read before.
LEMMA UncrowdedStep ==
  ASSUME TypeOK, Identity, PointsAreFinite, RacedIsKept, RacedIsKept',
         raced \subseteq raced', Uncrowded, [Next]_vars
  PROVE  Uncrowded'
<1> USE IngestAssumption
<1>task. task \in [Handlers -> Tasks] /\ profile \in [Users -> Profiles]
  BY DEF TypeOK
<1>old. /\ \A u \in Users \ raced : profile[u].exp = Earned(u)
        /\ \A h \in Handlers : Writing(h) /\ Caller(h) \notin raced =>
             task[h].snap.exp = profile[Caller(h)].exp + Gain[Item(h).play]
  BY DEF Uncrowded, ExpLostOnlyByRaces, SnapIsCurrent
<1>1. ASSUME UNCHANGED <<profile, credits>> PROVE ExpLostOnlyByRaces'
  <2>1. \A u \in Users : Earned(u)' = Earned(u)
    BY <1>1, PointsKept DEF Earned
  <2> QED BY <1>1, <1>old, <2>1 DEF ExpLostOnlyByRaces
<1>2. ASSUME Rests PROVE Uncrowded'
  <2>1. ASSUME NEW g \in Handlers, Writing(g)', Caller(g)' \notin raced'
        PROVE  task'[g].snap.exp = profile'[Caller(g)'].exp + Gain[Item(g)'.play]
    <3>u. PICK u : u = Caller(g)
      OBVIOUS
    <3>1. task'[g] = task[g] /\ Writing(g)
      BY <1>2, <2>1 DEF Rests, Writing
    <3>2. Caller(g)' = u /\ Item(g)' = Item(g)
      BY <3>u, <3>1, SameHandler DEF SameWork
    <3>3. profile' = profile /\ u \notin raced
      BY <1>2, <2>1, <3>2 DEF Rests
    <3> QED BY <1>old, <3>u, <3>1, <3>2, <3>3
  <2> QED BY <1>1, <1>2, <2>1 DEF Rests, Uncrowded, SnapIsCurrent
<1>3. ASSUME NEW h \in Handlers, Reads(h) PROVE Uncrowded'
  <2>1. /\ task[h].step = "read" /\ UNCHANGED <<profile, credits>>
        /\ \A g \in Handlers : g # h => task'[g] = task[g]
    BY <1>3 DEF Reads, OthersKeepTask
  <2>2. /\ SameWork(task'[h], task[h])
        /\ task'[h].snap.exp = profile[Caller(h)].exp + Gain[Item(h).play]
    <3>1. PICK level :
            task'[h] = [task[h] EXCEPT !.step = "write",
              !.snap = [exp |-> profile[Caller(h)].exp + Gain[Item(h).play],
                        level |-> level]]
      BY <1>3 DEF Reads
    <3>2. task[h] \in Tasks
      BY <1>task
    <3> QED BY <3>1, <3>2 DEF Tasks, SameWork
  <2>3. ASSUME NEW g \in Handlers, Writing(g)', Caller(g)' \notin raced'
        PROVE  task'[g].snap.exp = profile'[Caller(g)'].exp + Gain[Item(g)'.play]
    <3>u. PICK u : u = Caller(g)
      OBVIOUS
    <3>1. SameWork(task'[g], task[g])
      BY <2>1, <2>2 DEF SameWork
    <3>2. Caller(g)' = u /\ Item(g)' = Item(g)
      BY <3>u, <3>1, SameHandler
    <3>3. profile' = profile /\ u \notin raced
      BY <2>1, <2>3, <3>2
    <3>4. task'[g].snap.exp = profile[u].exp + Gain[Item(g).play]
      BY <1>old, <2>1, <2>2, <2>3, <3>u, <3>3 DEF Writing
    <3> QED BY <3>2, <3>3, <3>4
  <2> QED BY <1>1, <2>1, <2>3 DEF Uncrowded, SnapIsCurrent
<1>4. ASSUME NEW h \in Handlers, Writes(h) PROVE Uncrowded'
  <2>p. PICK p : p = Caller(h)
    OBVIOUS
  <2>1. /\ p \in Users /\ Writing(h)
        /\ profile' = [profile EXCEPT ![p] = task[h].snap]
        /\ \A g \in Handlers : g # h => task'[g] = task[g]
        /\ task'[h].step # "write"
    BY <1>4, <2>p, BusyType DEF Writes, Writing, OthersKeepTask
  <2>2. /\ Earned(p)' = Earned(p) + Gain[Item(h).play]
        /\ \A u \in Users \ {p} : Points(u)' = Points(u)
    BY <1>4, <2>p, PointsPaid
  <2>3. ExpLostOnlyByRaces'
    <3> SUFFICES ASSUME NEW u \in Users, u \notin raced
                 PROVE  profile'[u].exp = Earned(u)'
      BY DEF ExpLostOnlyByRaces
    <3>1. CASE u = p
      <4>1. profile'[u] = task[h].snap
        BY <1>task, <2>1, <3>1
      <4>2. task[h].snap.exp = profile[p].exp + Gain[Item(h).play]
        BY <1>old, <2>p, <2>1, <3>1
      <4>3. profile[p].exp = Earned(p)
        BY <1>old, <3>1
      <4> QED BY <2>2, <3>1, <4>1, <4>2, <4>3
    <3>2. CASE u # p
      <4>1. profile'[u] = profile[u]
        BY <1>task, <2>1, <3>2
      <4>2. Earned(u)' = Earned(u)
        BY <2>2, <3>2 DEF Earned
      <4> QED BY <1>old, <4>1, <4>2
    <3> QED BY <3>1, <3>2
  <2>4. ASSUME NEW g \in Handlers, Writing(g)', Caller(g)' \notin raced'
        PROVE  task'[g].snap.exp = profile'[Caller(g)'].exp + Gain[Item(g)'.play]
    <3>u. PICK u : u = Caller(g)
      OBVIOUS
    <3>1. g # h /\ task'[g] = task[g] /\ Writing(g)
      BY <2>1, <2>4 DEF Writing
    <3>2. Caller(g)' = u /\ Item(g)' = Item(g)
      BY <3>u, <3>1, SameHandler DEF SameWork
    <3>3. u \in Users \ raced
      BY <2>4, <3>u, <3>1, <3>2, BusyType DEF Writing
    <3>4. u # p
      BY <2>p, <2>1, <3>u, <3>1, <3>3, WritersApart
    <3>5. profile'[u] = profile[u]
      BY <1>task, <2>1, <3>3, <3>4
    <3> QED BY <1>old, <3>u, <3>1, <3>2, <3>3, <3>5
  <2> QED BY <2>3, <2>4 DEF Uncrowded, SnapIsCurrent
<1>5. CASE UNCHANGED vars
  <2>1. Rests
    BY <1>5 DEF vars, Rests
  <2> QED BY <2>1, <1>2
<1> QED BY <1>2, <1>3, <1>4, <1>5, ExpShape

(***************************************************************************)
(* user_after.                                                             *)
(***************************************************************************)
\* Handler h comes to a request, or leaves it, or fails before the first item.
Starts(h) ==
  \/ ~Batching(h)'
  \/ task'[h].step = "begin" /\ task'[h].results = <<>>
  \/ Answers500(task'[h])

\* Handler h goes on with its request, and reports no gain.
GoesOn(h) ==
  /\ Batching(h)
  /\ task'[h].step # "begin"
  /\ task'[h].req = task[h].req
  /\ ~ReportsGain(h)

\* Past its beginning it keeps user_after ...
Stays(h) ==
  /\ GoesOn(h)
  /\ task[h].step \notin {"begin", "reply"}
  /\ task'[h].after = task[h].after

\* ... which it takes from its user's row at the beginning.
Takes(h) == GoesOn(h) /\ task'[h].after = profile[Caller(h)]

\* Handler h writes its user's row and takes it for user_after.
Moves(h) ==
  /\ task'[h].step # "begin"
  /\ task'[h].req = task[h].req
  /\ Caller(h) \in Users
  /\ profile' = [profile EXCEPT ![Caller(h)] = task[h].snap]
  /\ task'[h].after = task[h].snap

Follows(h) == Starts(h) \/ Stays(h) \/ Takes(h) \/ Moves(h)

\* A task that goes on reports no gain if it has the answers it had, or one
\* more without one.
LEMMA NoGain ==
  ASSUME TypeOK, NEW h \in Handlers, NEW t, Become(h, t),
         \/ t.results = task[h].results
         \/ \E a : a.exp = 0 /\ t.results = Append(task[h].results, a)
  PROVE  ~ReportsGain(h)
<1>1. task \in [Handlers -> Tasks] /\ task'[h] = t
  BY DEF TypeOK, Become
<1>2. task[h].results \in Seq(Answers)
  BY <1>1 DEF Tasks
<1>3. CASE t.results = task[h].results
  BY <1>1, <1>2, <1>3 DEF ReportsGain
<1>4. ASSUME NEW a, a.exp = 0, t.results = Append(task[h].results, a)
      PROVE  ~ReportsGain(h)
  <2>1. /\ Len(Append(task[h].results, a)) = Len(task[h].results) + 1
        /\ Append(task[h].results, a)[Len(task[h].results) + 1] = a
        /\ Len(task[h].results) \in Nat
    BY <1>2, AppendProperties, LenProperties
  <2>2. task'[h].results[Len(task'[h].results)].exp = 0
    BY <1>1, <1>4, <2>1
  <2> QED BY <2>2 DEF ReportsGain
<1> QED BY <1>3, <1>4

\* Every handler's step is of one of these kinds.
LEMMA AfterShape ==
  ASSUME TypeOK, ShownFollows, NEW h \in Handlers, Arrival(h) \/ HandlerStep(h)
  PROVE  OthersKeepTask(h) /\ Follows(h)
<1>task. task \in [Handlers -> Tasks]
  BY DEF TypeOK
<1>become. ASSUME NEW t, Become(h, t) PROVE task'[h] = t /\ OthersKeepTask(h)
  BY <1>become, <1>task DEF Become, OthersKeepTask
<1>fields. task[h] \in [step : Steps, req : Requests \cup {NoRequest},
                    pos : Nat \ {0}, seen : SUBSET (Ids \cup {NoId}),
                    rid : RecordIds \cup {NoRecord}, snap : Profiles,
                    results : Seq(Answers), after : Profiles]
  BY <1>task DEF Tasks
<1>past. ASSUME NEW t, Become(h, t), t.step # "begin",
                task[h].step \notin {"idle", "begin", "reply"},
                t.req = task[h].req, t.after = task[h].after,
                \/ t.results = task[h].results
                \/ \E a : a.exp = 0 /\ t.results = Append(task[h].results, a)
         PROVE  OthersKeepTask(h) /\ Follows(h)
  <2>1. ~ReportsGain(h)
    BY <1>past, NoGain
  <2>2. task'[h] = t /\ OthersKeepTask(h)
    BY <1>past, <1>become
  <2>3. Batching(h)' => Batching(h)
    BY <1>past, <2>2 DEF Batching
  <2> QED BY <1>past, <2>1, <2>2, <2>3 DEF Follows, Starts, Stays, GoesOn
<1>finish. ASSUME task[h].step \notin {"idle", "begin", "reply"},
                  \/ Accept(h) \/ Fail(h)
                  \/ \E rid : Duplicate(h, rid)
                  \/ \E reason : Reject(h, reason)
                  \/ \E id : Finish(h, Answer(h, "accepted", Pass, id, 0),
                                    task[h].after)
           PROVE  OthersKeepTask(h) /\ Follows(h)
  <2>1. PICK a : a.exp = 0 /\ Become(h, Finished(h, a, task[h].after))
    BY <1>finish DEF Accept, Fail, Duplicate, Reject, Finish, Answer
  <2> DEFINE t == Finished(h, a, task[h].after)
  <2>2. /\ t.req = task[h].req /\ t.after = task[h].after
        /\ t.step \in {"lookup", "reply"}
        /\ t.results = Append(task[h].results, a)
    BY DEF Finished
  <2> QED BY <1>finish, <1>past, <2>1, <2>2
<1>goto. ASSUME task[h].step \notin {"idle", "begin", "reply"},
                NEW st \in {"screen", "insert", "refind"}, Goto(h, st)
         PROVE  OthersKeepTask(h) /\ Follows(h)
  <2> DEFINE t == [task[h] EXCEPT !.step = st]
  <2>1. /\ t.req = task[h].req /\ t.after = task[h].after
        /\ t.step = st /\ t.results = task[h].results
    BY <1>fields
  <2>2. Become(h, t)
    BY <1>goto DEF Goto
  <2> HIDE DEF t
  <2> QED BY <1>goto, <1>past, <2>1, <2>2
<1>first. FirstStep \in {"screen", "insert"}
  BY DEF FirstStep
<1>1. ASSUME Arrival(h) PROVE OthersKeepTask(h) /\ Follows(h)
  <2>1. PICK r \in Requests : Receive(h, r)
    BY <1>1 DEF Arrival
  <2> DEFINE t == [IdleTask EXCEPT
                     !.step = IF r.kind = "single" THEN FirstStep ELSE "begin",
                     !.req = r]
  <2>2. /\ t.step = (IF r.kind = "single" THEN FirstStep ELSE "begin")
        /\ t.req = r /\ t.results = <<>>
    BY DEF IdleTask
  <2>3. task'[h] = t /\ OthersKeepTask(h)
    BY <2>1, <1>become DEF Receive
  <2> HIDE DEF t
  <2> QED BY <2>2, <2>3 DEF Follows, Starts, Batching
<1>2. ASSUME BeginBatch(h) PROVE OthersKeepTask(h) /\ Follows(h)
  <2> DEFINE t == [task[h] EXCEPT !.step = "lookup", !.after = profile[Caller(h)]]
             f == [task[h] EXCEPT !.step = "reply"]
  <2>1. /\ t.req = task[h].req /\ t.after = profile[Caller(h)]
        /\ t.step = "lookup" /\ t.results = task[h].results
        /\ f.req = task[h].req /\ f.step = "reply" /\ f.results = task[h].results
    BY <1>fields
  <2>2. task[h].step = "begin" /\ (Become(h, t) \/ Become(h, f))
    BY <1>2 DEF BeginBatch, Goto
  <2> HIDE DEF t, f
  <2>3. CASE Become(h, t)
    <3>1. ~ReportsGain(h)
      BY <2>1, <2>3, NoGain
    <3>2. task'[h] = t /\ OthersKeepTask(h)
      BY <2>3, <1>become
    <3>3. Batching(h)' => Batching(h)
      BY <2>1, <2>2, <3>2 DEF Batching
    <3> QED BY <2>1, <3>1, <3>2, <3>3 DEF Follows, Starts, Takes, GoesOn
  <2>4. CASE Become(h, f)
    <3>1. task'[h] = f /\ OthersKeepTask(h)
      BY <2>4, <1>become
    <3>2. Batching(h) => task[h].results = <<>>
      BY <2>2 DEF ShownFollows
    <3> QED BY <2>1, <2>2, <3>1, <3>2 DEF Follows, Starts, Batching, Answers500
  <2> QED BY <2>2, <2>3, <2>4
<1>3. ASSUME LookUp(h) PROVE OthersKeepTask(h) /\ Follows(h)
  <2>1. (\E rid : Duplicate(h, rid)) \/ Goto(h, FirstStep)
    BY <1>3 DEF LookUp
  <2> QED BY <1>3, <2>1, <1>finish, <1>goto, <1>first DEF LookUp
<1>4. ASSUME Screen(h) PROVE OthersKeepTask(h) /\ Follows(h)
  <2>1. (\E reason : Reject(h, reason)) \/ Goto(h, "insert")
    BY <1>4 DEF Screen
  <2> QED BY <1>4, <2>1, <1>finish, <1>goto DEF Screen
<1>5. ASSUME InsertSaved(h) PROVE OthersKeepTask(h) /\ Follows(h)
  <2>1. PICK id \in FreshIds :
          \/ Become(h, [task[h] EXCEPT !.step = "read", !.rid = id])
          \/ Finish(h, Answer(h, "accepted", Pass, id, 0), task[h].after)
    BY <1>5 DEF InsertSaved
  <2> DEFINE t == [task[h] EXCEPT !.step = "read", !.rid = id]
  <2>2. /\ t.req = task[h].req /\ t.after = task[h].after
        /\ t.step = "read" /\ t.results = task[h].results
    BY <1>fields
  <2> HIDE DEF t
  <2> QED BY <1>5, <2>1, <2>2, <1>past, <1>finish DEF InsertSaved, t
<1>6. ASSUME InsertError(h) PROVE OthersKeepTask(h) /\ Follows(h)
  BY <1>6, <1>finish, <1>goto DEF InsertError
<1>7. ASSUME ReFind(h) PROVE OthersKeepTask(h) /\ Follows(h)
  <2>1. (\E rid : Duplicate(h, rid)) \/ (\E reason : Reject(h, reason))
    BY <1>7 DEF ReFind
  <2> QED BY <1>7, <2>1, <1>finish DEF ReFind
<1>8. ASSUME ReadProgress(h) PROVE OthersKeepTask(h) /\ Follows(h)
  <2>1. task[h].step = "read"
    BY <1>8 DEF ReadProgress
  <2>2. CASE Accept(h)
    BY <2>1, <2>2, <1>finish
  <2>3. CASE ~Accept(h)
    <3>1. PICK snap : Become(h, [task[h] EXCEPT !.step = "write", !.snap = snap])
      BY <1>8, <2>3 DEF ReadProgress
    <3> DEFINE t == [task[h] EXCEPT !.step = "write", !.snap = snap]
    <3>2. /\ t.req = task[h].req /\ t.after = task[h].after
          /\ t.step = "write" /\ t.results = task[h].results
      BY <1>fields
    <3>3. Become(h, t)
      BY <3>1
    <3> HIDE DEF t
    <3> QED BY <2>1, <3>2, <3>3, <1>past
  <2> QED BY <2>2, <2>3
<1>9. ASSUME WriteProgress(h) PROVE OthersKeepTask(h) /\ Follows(h)
  <2>1. task[h].step = "write"
    BY <1>9 DEF WriteProgress
  <2>2. CASE Accept(h)
    BY <2>1, <2>2, <1>finish
  <2>3. CASE ~Accept(h)
    <3> DEFINE a == Answer(h, "accepted", Pass, task[h].rid, task[h].snap.exp)
    <3>1. /\ profile' = [profile EXCEPT ![Caller(h)] = task[h].snap]
          /\ Become(h, Finished(h, a, task[h].snap))
      BY <1>9, <2>3 DEF WriteProgress, Finish
    <3>2. /\ Finished(h, a, task[h].snap).req = task[h].req
          /\ Finished(h, a, task[h].snap).after = task[h].snap
          /\ Finished(h, a, task[h].snap).step # "begin"
      BY DEF Finished
    <3>3. Caller(h) \in Users
      BY <2>1, BusyType
    <3> QED BY <3>1, <3>2, <3>3, <1>become DEF Follows, Moves
  <2> QED BY <2>2, <2>3
<1>10. ASSUME Reply(h) PROVE OthersKeepTask(h) /\ Follows(h)
  <2>1. IdleTask.step = "idle"
    BY DEF IdleTask
  <2> QED BY <1>10, <2>1, <1>become DEF Reply, Follows, Starts, Batching
<1> QED
  BY <1>1, <1>2, <1>3, <1>4, <1>5, <1>6, <1>7, <1>8, <1>9, <1>10
     DEF HandlerStep

\* user_after stays among the rows shown.
LEMMA AfterStep ==
  ASSUME HistoryTypeOK, ShownFollows, [HistoryNext]_historyVars
  PROVE  ShownFollows'
<1>type. /\ TypeOK /\ task \in [Handlers -> Tasks]
         /\ profile \in [Users -> Profiles]
  BY DEF HistoryTypeOK, TypeOK
<1>1. CASE UNCHANGED historyVars
  BY <1>1 DEF historyVars, vars, ShownFollows, Batching, Caller
<1>2. CASE HistoryNext
  <2> SUFFICES ASSUME NEW g \in Handlers, Batching(g)'
               PROVE  /\ profile'[Caller(g)'] \in shown'[g]
                      /\ task'[g].step = "begin" => task'[g].results = <<>>
                      /\ task'[g].step # "begin" /\ ~Answers500(task'[g])
                           => task'[g].after \in shown'[g]
    BY DEF ShownFollows, Answers500
  <2>u. PICK u : u = Caller(g)
    OBVIOUS
  <2>1. shown'[g] = ShownNext(g) /\ Next
    BY <1>2 DEF HistoryNext
  <2>2. /\ profile'[Caller(g)'] \in shown'[g]
        /\ Batching(g) /\ ~ReportsGain(g) => shown[g] \subseteq shown'[g]
    BY <2>1 DEF ShownNext, Caller
  <2>3. Batching(g) =>
          /\ profile[u] \in shown[g]
          /\ task[g].step = "begin" => task[g].results = <<>>
          /\ task[g].step # "begin" /\ ~Answers500(task[g])
               => task[g].after \in shown[g]
    BY <2>u DEF ShownFollows
  <2>4. ASSUME task'[g] = task[g]
        PROVE  /\ task'[g].step = "begin" => task'[g].results = <<>>
               /\ task'[g].step # "begin" /\ ~Answers500(task'[g])
                    => task'[g].after \in shown'[g]
    <3>1. Batching(g)
      BY <2>4 DEF Batching
    <3>2. Len(task[g].results) \in Nat
      BY <1>type, LenProperties DEF Tasks
    <3>3. ~ReportsGain(g)
      BY <2>4, <3>2 DEF ReportsGain
    <3> QED BY <2>2, <2>3, <2>4, <3>1, <3>3
  <2>5. ASSUME Follows(g)
        PROVE  /\ task'[g].step = "begin" => task'[g].results = <<>>
               /\ task'[g].step # "begin" /\ ~Answers500(task'[g])
                    => task'[g].after \in shown'[g]
    <3>1. CASE Starts(g)
      BY <3>1 DEF Starts, Answers500
    <3>2. CASE Stays(g)
      BY <2>2, <2>3, <3>2 DEF Stays, GoesOn, Answers500
    <3>3. CASE Takes(g)
      BY <2>u, <2>2, <2>3, <3>3 DEF Takes, GoesOn
    <3>4. CASE Moves(g)
      <4>1. u \in Users /\ Caller(g)' = u
        BY <2>u, <3>4 DEF Moves, Caller
      <4>2. profile'[u] = task[g].snap
        BY <1>type, <2>u, <3>4, <4>1 DEF Moves
      <4> QED BY <2>2, <3>4, <4>1, <4>2 DEF Moves
    <3> QED BY <2>5, <3>1, <3>2, <3>3, <3>4 DEF Follows
  <2>6. ~Crash
    <3>1. IdleTask.step = "idle"
      BY DEF IdleTask
    <3> QED BY <3>1 DEF Crash, Batching
  <2>7. PICK h \in Handlers : Arrival(h) \/ HandlerStep(h)
    BY <2>1, <2>6 DEF Next
  <2>8. OthersKeepTask(h) /\ Follows(h)
    BY <1>type, <2>7, AfterShape
  <2>9. task'[g] = task[g] \/ Follows(g)
    BY <2>8 DEF OthersKeepTask
  <2> QED BY <2>2, <2>4, <2>5, <2>9
<1> QED BY <1>1, <1>2

(***************************************************************************)
(* The theorems.                                                           *)
(***************************************************************************)
HistoryIInv == HistoryInv /\ IInv

LEMMA HistoryInductive == HistorySpec => []HistoryIInv
<1>1. HistoryInit => HistoryIInv
  <2> SUFFICES ASSUME HistoryInit PROVE HistoryIInv
    OBVIOUS
  <2>1. Init /\ shown = [h \in Handlers |-> {}] /\ raced = {}
    BY DEF HistoryInit
  <2>2. /\ \A u \in Users : profile[u] = NewUser /\ Earned(u) = 0
        /\ \A h \in Handlers : task[h] = IdleTask
    BY <2>1, FS_EmptySet DEF Init, Points, Earned
  <2>3. RacedIsKept
    BY <2>2 DEF RacedIsKept, RacingNow, Crowd, Writing, IdleTask
  <2>4. ExpLostOnlyByRaces /\ SnapIsCurrent /\ ShownFollows
    BY <2>2 DEF ExpLostOnlyByRaces, SnapIsCurrent, ShownFollows, Batching, Writing,
                IdleTask, NewUser
  <2>5. HistoryTypeOK
    BY <2>1, TypeInit DEF HistoryTypeOK
  <2> QED BY <2>1, <2>3, <2>4, <2>5, IInvInit DEF HistoryIInv, HistoryInv
<1>2. HistoryIInv /\ [HistoryNext]_historyVars => HistoryIInv'
  <2> SUFFICES ASSUME HistoryIInv, [HistoryNext]_historyVars PROVE HistoryIInv'
    OBVIOUS
  <2>1. /\ [Next]_vars
        /\ HistoryTypeOK' /\ RacedIsKept'
        /\ raced \subseteq raced'
    BY HistoryStep DEF HistoryIInv, HistoryInv
  <2>2. IInv'
    BY <2>1, IInvStep DEF HistoryIInv
  <2>3. TypeOK /\ Identity /\ PointsAreFinite
    BY DEF HistoryIInv, IInv, Identity
  <2>4. ExpLostOnlyByRaces' /\ SnapIsCurrent'
    BY <2>1, <2>3, UncrowdedStep DEF HistoryIInv, HistoryInv, Uncrowded
  <2>5. ShownFollows'
    BY AfterStep DEF HistoryIInv, HistoryInv
  <2> QED BY <2>1, <2>2, <2>4, <2>5 DEF HistoryIInv, HistoryInv
<1> QED BY <1>1, <1>2, PTL DEF HistorySpec

\* EXP is lost only where two updates of one user overlap between read and
\* write (record.go:applyExpGain): for every other user, users.exp is exactly
\* what the credited records are worth, over all crashes, failed calls,
\* retries and requests served at the same time.
THEOREM OnlyRacesLoseExp == HistorySpec => []ExpLostOnlyByRaces
<1>1. HistoryIInv => ExpLostOnlyByRaces
  BY DEF HistoryIInv, HistoryInv
<1> QED BY <1>1, HistoryInductive, PTL

\* The user_after of a batch response is a row its user has had since the last
\* gain the response reports, whatever other requests of the user did and
\* whichever calls failed (record_batch.go).
THEOREM UserAfterReal == HistorySpec => []UserAfterWasCurrent
<1>1. HistoryIInv => UserAfterWasCurrent
  BY DEF HistoryIInv, HistoryInv, ShownFollows, UserAfterWasCurrent
<1> QED BY <1>1, HistoryInductive, PTL
-----------------------------------------------------------------------------
(***************************************************************************)
(* The offline queue: no play is dropped.                                  *)
(***************************************************************************)

\* A batch is a request that holds the plays of its segment, in their order.
LEMMA BatchItems ==
  ASSUME NEW u \in Users, NEW i \in DOMAIN Backlog[u], NEW j \in DOMAIN Backlog[u],
         i <= j
  PROVE  /\ Batch(u, i, j) \in Requests
         /\ Batch(u, i, j).user = u
         /\ Batch(u, i, j).kind = "batch"
         /\ Len(Batch(u, i, j).items) = j - i + 1
         /\ \A k \in 1..(j - i + 1) : Batch(u, i, j).items[k] = Backlog[u][i + k - 1]
<1>1. Backlog[u] \in Seq(Items) /\ Batch(u, i, j) \in Requests
  BY QueueAssumption
<1>2. i \in Int /\ j \in Int /\ \A k \in i..j : Backlog[u][k] \in Items
  BY <1>1
<1>3. /\ Len(SubSeq(Backlog[u], i, j)) = j - i + 1
      /\ \A k \in 1..(j - i + 1) : SubSeq(Backlog[u], i, j)[k] = Backlog[u][i + k - 1]
  BY <1>2, SubSeqProperties
<1> QED BY <1>1, <1>3 DEF Batch

\* Whatever a client may send is a batch of plays with ids of their own.
LEMMA RequestShape ==
  ASSUME NEW r \in Requests
  PROVE  /\ r.kind = "batch"
         /\ \A k, l \in 1..Len(r.items) : r.items[k].cid = r.items[l].cid => k = l
<1>0. PICK u \in Users : \E i, j \in DOMAIN Backlog[u] : i <= j /\ r = Batch(u, i, j)
  BY QueueAssumption
<1>1. PICK i \in DOMAIN Backlog[u], j \in DOMAIN Backlog[u] :
        i <= j /\ r = Batch(u, i, j)
  BY <1>0
<1>2. /\ r.kind = "batch"
      /\ Len(r.items) = j - i + 1
      /\ \A k \in 1..(j - i + 1) : r.items[k] = Backlog[u][i + k - 1]
  BY <1>1, BatchItems
<1>3. DOMAIN Backlog[u] = 1..Len(Backlog[u]) /\ Len(Backlog[u]) \in Nat
  BY QueueAssumption
<1>4. ASSUME NEW k \in 1..Len(r.items), NEW l \in 1..Len(r.items),
             r.items[k].cid = r.items[l].cid
      PROVE  k = l
  <2>1. /\ i + k - 1 \in DOMAIN Backlog[u]
        /\ i + l - 1 \in DOMAIN Backlog[u]
    BY <1>1, <1>2, <1>3
  <2>2. Backlog[u][i + k - 1].cid = Backlog[u][i + l - 1].cid
    BY <1>2, <1>4
  <2>3. i + k - 1 = i + l - 1
    BY <2>1, <2>2, QueueAssumption
  <2> QED BY <1>1, <1>2, <1>3, <2>3
<1> QED BY <1>2, <1>4

(***************************************************************************)
(* A handler at work either stays at its item or gives it an answer; it    *)
(* answers "rejected" or the item's id is in the table.                    *)
(***************************************************************************)
StoredThen(cid) == \E row \in records' : row.cid = cid

StaysAtItem(h) ==
  /\ OthersKeepTask(h)
  /\ task'[h].step # "idle"
  /\ task'[h].req = task[h].req
  /\ task'[h].pos = task[h].pos
  /\ task'[h].seen = task[h].seen
  /\ task'[h].results = task[h].results
  /\ Owes(task'[h]) => StoredThen(Item(h).cid)

AnswersItem(h) ==
  \E answer, after :
    /\ Finish(h, answer, after)
    /\ answer.item = Item(h)
    /\ answer.status = "rejected" \/ StoredThen(Item(h).cid)

\* Every step of a handler but the response has one of the two shapes; it
\* deletes no row and sends no answer.
LEMMA WorkShape ==
  ASSUME QueueTypeOK, AnswersInOrder, NEW h \in Handlers, Work(h)
  PROVE  /\ records \subseteq records'
         /\ replies' = replies
         /\ task[h].step \notin {"idle", "reply"}
         /\ StaysAtItem(h) \/ AnswersItem(h)
<1> USE DEF QueueTypeOK
<1> DEFINE Shape == StaysAtItem(h) \/ AnswersItem(h)
<1>1. /\ HandlerStep(h) /\ ~Reply(h) /\ task[h].step # "reply"
      /\ task[h].step # "idle"
  BY DEF Work, HandlerStep, Reply, BeginBatch, LookUp, Screen, InsertSaved,
         InsertError, ReFind, ReadProgress, WriteProgress
<1>2. /\ records \subseteq records'
      /\ replies' = replies
  BY <1>1 DEF HandlerStep, BeginBatch, LookUp, Screen, InsertSaved,
              InsertError, ReFind, ReadProgress, WriteProgress
<1>3. /\ task \in [Handlers -> Tasks]
      /\ task[h].req \in Requests
      /\ task[h].pos \in 1..Len(task[h].req.items)
      /\ task[h].req.kind = "batch"
  BY <1>1, BusyType, RequestShape DEF TypeOK
<1>become. ASSUME NEW t, Become(h, t)
           PROVE  task'[h] = t /\ OthersKeepTask(h)
  BY <1>become, <1>3 DEF Become, OthersKeepTask
<1>goto. ASSUME NEW st \in Steps \ {"idle", "read", "write"}, Goto(h, st)
         PROVE  Shape
  <2>1. task'[h] = [task[h] EXCEPT !.step = st] /\ OthersKeepTask(h)
    BY <1>goto, <1>become DEF Goto
  <2>2. task[h] \in Tasks
    BY <1>3
  <2> QED BY <2>1, <2>2 DEF StaysAtItem, Tasks, Owes
<1>first. FirstStep \in Steps \ {"idle", "read", "write"}
  BY DEF FirstStep, Steps
<1>finish. ASSUME NEW status, NEW reason, NEW rid, NEW exp, NEW after,
                  Finish(h, Answer(h, status, reason, rid, exp), after),
                  status = "rejected" \/ StoredThen(Item(h).cid)
           PROVE  Shape
  <2>1. /\ Answer(h, status, reason, rid, exp).item = Item(h)
        /\ Answer(h, status, reason, rid, exp).status = status
    BY DEF Answer
  <2> QED BY <1>finish, <2>1 DEF AnswersItem
<1>reject. ASSUME NEW reason, Reject(h, reason) PROVE Shape
  BY <1>reject, <1>finish DEF Reject
<1>owes. Owes(task[h]) => StoredThen(Item(h).cid)
  BY <1>1, <1>2 DEF AnswersInOrder, InOrder, Item, Stored, StoredThen
<1>found. ASSUME NEW row \in Found(Item(h).cid) PROVE StoredThen(Item(h).cid)
  BY <1>2 DEF Found, StoredThen
<1>4. ASSUME BeginBatch(h) PROVE Shape
  <2>1. CASE Goto(h, "reply")
    BY <2>1, <1>goto DEF Steps
  <2>2. CASE Become(h, [task[h] EXCEPT !.step = "lookup", !.after = profile[Caller(h)]])
    <3>1. /\ task'[h] = [task[h] EXCEPT !.step = "lookup", !.after = profile[Caller(h)]]
          /\ OthersKeepTask(h)
      BY <2>2, <1>become
    <3>2. task[h] \in Tasks
      BY <1>3
    <3> QED BY <3>1, <3>2 DEF StaysAtItem, Tasks, Owes
  <2> QED BY <1>4, <2>1, <2>2 DEF BeginBatch
<1>5. ASSUME LookUp(h) PROVE Shape
  <2>1. Item(h).cid \notin task[h].seen
    <3>1. /\ Len(task[h].results) = task[h].pos - 1
          /\ task[h].seen = {task[h].req.items[i].cid : i \in 1..Len(task[h].results)}
      BY <1>1, <1>5 DEF AnswersInOrder, InOrder, LookUp
    <3>2. ASSUME NEW i \in 1..(task[h].pos - 1)
          PROVE  task[h].req.items[i].cid # Item(h).cid
      <4>1. /\ Len(task[h].req.items) \in Nat
            /\ task[h].pos \in Nat
        BY <1>1, BusyType DEF Tasks
      <4>2. i \in 1..Len(task[h].req.items) /\ i # task[h].pos
        BY <1>3, <3>2, <4>1
      <4> QED BY <1>3, <4>2, RequestShape DEF Item
    <3> QED BY <3>1, <3>2
  <2>2. CASE Goto(h, FirstStep)
    BY <2>2, <1>goto, <1>first
  <2>3. CASE \E row \in Found(Item(h).cid) : Duplicate(h, row.id)
    BY <2>3, <1>finish, <1>found DEF Duplicate
  <2> QED BY <1>5, <2>1, <2>2, <2>3 DEF LookUp
<1>6. ASSUME Screen(h) PROVE Shape
  <2>1. (\E reason : Reject(h, reason)) \/ Goto(h, "insert")
    BY <1>6 DEF Screen
  <2> QED BY <2>1, <1>reject, <1>goto DEF Steps
<1>7. ASSUME InsertSaved(h) PROVE Shape
  <2>1. PICK id \in FreshIds :
          /\ records' = records \cup {NewRow(h, id)}
          /\ \/ Become(h, [task[h] EXCEPT !.step = "read", !.rid = id])
             \/ Finish(h, Answer(h, "accepted", Pass, id, 0), task[h].after)
    BY <1>7 DEF InsertSaved
  <2>2. NewRow(h, id) \in records' /\ NewRow(h, id).cid = Item(h).cid
    BY <2>1 DEF NewRow
  <2>3. StoredThen(Item(h).cid)
    BY <2>2 DEF StoredThen
  <2>4. CASE Become(h, [task[h] EXCEPT !.step = "read", !.rid = id])
    <3>1. /\ task'[h] = [task[h] EXCEPT !.step = "read", !.rid = id]
          /\ OthersKeepTask(h)
      BY <2>4, <1>become
    <3>2. task[h] \in Tasks
      BY <1>3
    <3> QED BY <2>3, <3>1, <3>2 DEF StaysAtItem, Tasks
  <2>5. CASE Finish(h, Answer(h, "accepted", Pass, id, 0), task[h].after)
    BY <2>3, <2>5, <1>finish
  <2> QED BY <2>1, <2>4, <2>5
<1>8. ASSUME InsertError(h) PROVE Shape
  <2>1. Goto(h, "refind")
    BY <1>3, <1>8 DEF InsertError, IsSingle
  <2> QED BY <2>1, <1>goto DEF Steps
<1>9. ASSUME ReFind(h) PROVE Shape
  <2>1. \/ \E row \in Found(Item(h).cid) : Duplicate(h, row.id)
        \/ Reject(h, "invalid_payload")
    BY <1>9 DEF ReFind
  <2>2. CASE \E row \in Found(Item(h).cid) : Duplicate(h, row.id)
    BY <2>2, <1>finish, <1>found DEF Duplicate
  <2> QED BY <2>1, <2>2, <1>reject
<1>10. ASSUME ReadProgress(h) PROVE Shape
  <2>1. StoredThen(Item(h).cid)
    BY <1>10, <1>owes DEF ReadProgress, Owes
  <2>2. CASE Accept(h)
    BY <2>1, <2>2, <1>finish DEF Accept
  <2>3. CASE ~Accept(h)
    <3>1. PICK snap : Become(h, [task[h] EXCEPT !.step = "write", !.snap = snap])
      BY <1>10, <2>3 DEF ReadProgress
    <3>2. /\ task'[h] = [task[h] EXCEPT !.step = "write", !.snap = snap]
          /\ OthersKeepTask(h)
      BY <3>1, <1>become
    <3>3. task[h] \in Tasks
      BY <1>3
    <3> QED BY <2>1, <3>2, <3>3 DEF StaysAtItem, Tasks
  <2> QED BY <2>2, <2>3
<1>11. ASSUME WriteProgress(h) PROVE Shape
  <2>1. StoredThen(Item(h).cid)
    BY <1>11, <1>owes DEF WriteProgress, Owes
  <2>2. \/ Accept(h)
        \/ Finish(h, Answer(h, "accepted", Pass, task[h].rid, task[h].snap.exp),
                  task[h].snap)
    BY <1>11 DEF WriteProgress
  <2> QED BY <2>1, <2>2, <1>finish DEF Accept
<1> QED
  BY <1>1, <1>2, <1>4, <1>5, <1>6, <1>7, <1>8, <1>9, <1>10, <1>11 DEF HandlerStep

\* The next batch of a queue that holds something starts at its oldest play.
LEMMA NextBatch ==
  ASSUME QueueTypeOK, NEW u \in Users, ~Drained(u)
  PROVE  /\ forgotten[u] + 1 \in DOMAIN Backlog[u]
         /\ LastOfBatch(u) \in DOMAIN Backlog[u]
         /\ LastOfBatch(u) \in (forgotten[u] + 1)..made[u]
         /\ Batch(u, forgotten[u] + 1, LastOfBatch(u)) \in Requests
         /\ Batch(u, forgotten[u] + 1, LastOfBatch(u)).kind = "batch"
<1>1. /\ forgotten[u] \in Nat /\ made[u] \in Nat
      /\ forgotten[u] < made[u] /\ made[u] <= Len(Backlog[u])
  BY DEF QueueTypeOK, Drained
<1>2. LastOfBatch(u) \in (forgotten[u] + 1)..made[u]
  BY <1>1, QueueAssumption DEF LastOfBatch
<1>3. DOMAIN Backlog[u] = 1..Len(Backlog[u]) /\ Len(Backlog[u]) \in Nat
  BY QueueAssumption
<1>4. /\ forgotten[u] + 1 \in DOMAIN Backlog[u]
      /\ LastOfBatch(u) \in DOMAIN Backlog[u]
      /\ forgotten[u] + 1 <= LastOfBatch(u)
  BY <1>1, <1>2, <1>3
<1> QED BY <1>2, <1>4, BatchItems

\* No step of the server or of a client deletes a row or takes an answer back,
\* and the server's variables keep their types.
LEMMA ServerStep ==
  ASSUME QueueTypeOK, AnswersInOrder, [QueueNext]_queueVars
  PROVE  /\ TypeOK'
         /\ records \subseteq records'
         /\ replies \subseteq replies'
<1> DEFINE Goal == TypeOK' /\ records \subseteq records' /\ replies \subseteq replies'
<1>0. TypeOK
  BY DEF QueueTypeOK
<1>1. ASSUME UNCHANGED vars PROVE Goal
  BY <1>0, <1>1, TypeStep DEF vars
<1>2. ASSUME NEW u \in Users, Upload(u) PROVE Goal
  <2>1. PICK h \in Handlers : Receive(h, Batch(u, forgotten[u] + 1, LastOfBatch(u)))
    BY <1>2 DEF Upload
  <2>2. received' \in Nat
    BY <1>0, <1>2 DEF Upload, TypeOK
  <2>3. TypeOK'
    BY <1>0, <1>2, <2>1, <2>2, NextBatch, ReceiveType DEF Upload
  <2> QED BY <2>1, <2>3 DEF Receive
<1>3. ASSUME NEW u \in Users, Timeout(u) PROVE Goal
  BY <1>0, <1>3 DEF Timeout, Fault, TypeOK
<1>4. ASSUME NEW h \in Handlers, Work(h) PROVE Goal
  BY <1>0, <1>4, TypeStep, WorkShape DEF Work, Next
<1>5. ASSUME NEW h \in Handlers, Respond(h) PROVE Goal
  BY <1>0, <1>5, TypeStep DEF Respond, Next, HandlerStep, Reply
<1>6. ASSUME CrashAndReset PROVE Goal
  BY <1>0, <1>6, TypeStep DEF CrashAndReset, Next, Crash
<1> QED
  BY <1>1, <1>2, <1>3, <1>4, <1>5, <1>6 DEF QueueNext, queueVars, Play

\* A handler whose task is left alone keeps its answers in order and backed.
LEMMA OrderStays ==
  ASSUME NEW g \in Handlers, task'[g] = task[g], InOrder(task[g]),
         records \subseteq records'
  PROVE  InOrder(task[g])'
  BY DEF InOrder, Stored, Owes

\* AnswersInOrder survives every step.
LEMMA OrderStep ==
  ASSUME QueueTypeOK, AnswersInOrder, [QueueNext]_queueVars
  PROVE  AnswersInOrder'
<1>0. /\ task \in [Handlers -> Tasks]
      /\ records \subseteq records'
  BY ServerStep DEF QueueTypeOK, TypeOK
<1>keep. ASSUME NEW h \in Handlers, OthersKeepTask(h),
                task'[h].step # "idle" => InOrder(task[h])'
         PROVE  AnswersInOrder'
  BY <1>0, <1>keep, OrderStays DEF AnswersInOrder, OthersKeepTask
<1>become. ASSUME NEW h \in Handlers, NEW t, Become(h, t)
           PROVE  task'[h] = t /\ OthersKeepTask(h)
  BY <1>become, <1>0 DEF Become, OthersKeepTask
<1>1. ASSUME UNCHANGED task PROVE AnswersInOrder'
  BY <1>0, <1>1, OrderStays DEF AnswersInOrder
<1>2. ASSUME NEW u \in Users, Upload(u) PROVE AnswersInOrder'
  <2> DEFINE r == Batch(u, forgotten[u] + 1, LastOfBatch(u))
             t == [IdleTask EXCEPT !.step = "begin", !.req = r]
  <2>1. PICK h \in Handlers : Receive(h, r)
    BY <1>2 DEF Upload
  <2>2. r \in Requests /\ r.kind = "batch"
    BY <1>2, NextBatch DEF Upload
  <2>3. task'[h] = t /\ OthersKeepTask(h)
    BY <2>1, <2>2, <1>become DEF Receive
  <2>4. /\ t.step = "begin" /\ t.req = r /\ t.pos = 1
        /\ t.seen = {} /\ t.results = <<>>
    BY DEF IdleTask
  <2>5. Len(r.items) \in Nat
    BY <2>2, IngestAssumption
  <2>6. InOrder(task[h])'
    BY <2>3, <2>4, <2>5 DEF InOrder, Owes
  <2> QED BY <2>3, <2>6, <1>keep
<1>3. ASSUME NEW h \in Handlers, Work(h) PROVE AnswersInOrder'
  <2> DEFINE t == task[h]
  <2>1. t.step \notin {"idle", "reply"}
    BY <1>3, WorkShape
  <2>2. InOrder(t)
    BY <2>1 DEF AnswersInOrder
  <2>3. /\ t.pos \in Nat /\ Len(t.req.items) \in Nat
        /\ t.pos \in 1..Len(t.req.items)
        /\ t.results \in Seq(Answers) /\ Len(t.results) = t.pos - 1
    BY <2>1, <2>2, BusyType DEF QueueTypeOK, Tasks, InOrder
  <2>4. CASE StaysAtItem(h)
    <3>1. InOrder(task[h])'
      BY <1>0, <2>1, <2>2, <2>3, <2>4
         DEF StaysAtItem, InOrder, Stored, StoredThen, Item
    <3> QED BY <2>4, <3>1, <1>keep DEF StaysAtItem
  <2>5. CASE AnswersItem(h)
    <3>1. PICK answer, after :
            /\ Finish(h, answer, after)
            /\ answer.item = Item(h)
            /\ answer.status = "rejected" \/ StoredThen(Item(h).cid)
      BY <2>5 DEF AnswersItem
    <3>2. task'[h] = Finished(h, answer, after) /\ OthersKeepTask(h)
      BY <3>1, <1>become DEF Finish
    <3> DEFINE s == task'[h]
    <3>3. /\ s.req = t.req /\ s.results = Append(t.results, answer)
          /\ s.seen = t.seen \cup {Item(h).cid}
          /\ s.step # "reply" => s.pos = t.pos + 1
          /\ s.step \in {"lookup", "reply"}
      BY <3>2 DEF Finished
    <3>4. /\ Len(s.results) = t.pos
          /\ \A i \in 1..Len(t.results) : s.results[i] = t.results[i]
          /\ s.results[t.pos] = answer
      BY <2>3, <3>3
    <3>5. 1..Len(s.results) = 1..Len(t.results) \cup {t.pos}
      BY <2>3, <3>4
    <3>6. s.seen = {s.req.items[i].cid : i \in 1..Len(s.results)}
      <4> DEFINE cid(i) == t.req.items[i].cid
      <4>1. t.seen = {cid(i) : i \in 1..Len(t.results)}
        BY <2>2 DEF InOrder
      <4>2. s.seen = t.seen \cup {cid(t.pos)}
        BY <3>3 DEF Item
      <4>3. {cid(i) : i \in 1..Len(s.results)} =
              {cid(i) : i \in 1..Len(t.results)} \cup {cid(t.pos)}
        <5> HIDE DEF cid
        <5>1. ASSUME NEW S, NEW T, NEW k, S = T \cup {k}
              PROVE  {cid(i) : i \in S} = {cid(i) : i \in T} \cup {cid(k)}
          BY <5>1
        <5> QED BY <3>5, <5>1
      <4>4. s.req.items = t.req.items
        BY <3>3
      <4>5. s.seen = {cid(i) : i \in 1..Len(s.results)}
        <5> HIDE DEF cid
        <5> QED BY <4>1, <4>2, <4>3
      <4> QED BY <4>4, <4>5
    <3>7. ASSUME NEW i \in 1..Len(s.results)
          PROVE  /\ s.results[i].item = s.req.items[i]
                 /\ s.results[i].status = "rejected" \/ StoredThen(s.req.items[i].cid)
      <4>1. CASE i = t.pos
        BY <3>1, <3>3, <3>4, <4>1 DEF Item
      <4>2. CASE i \in 1..Len(t.results)
        BY <1>0, <2>2, <3>3, <3>4, <4>2 DEF InOrder, Stored, StoredThen
      <4> QED BY <3>5, <3>7, <4>1, <4>2
    <3>8. InOrder(task[h])'
      <4>1. Len(s.results) <= Len(s.req.items)
        BY <2>3, <3>3, <3>4
      <4>2. s.step # "reply" => Len(s.results) = s.pos - 1
        BY <2>3, <3>3, <3>4
      <4>3. ~Owes(s)
        BY <3>3 DEF Owes
      <4> QED BY <3>6, <3>7, <4>1, <4>2, <4>3 DEF InOrder, Stored, StoredThen
    <3> QED BY <3>2, <3>8, <1>keep
  <2> QED BY <1>3, <2>4, <2>5, WorkShape
<1>4. ASSUME NEW h \in Handlers, Respond(h) PROVE AnswersInOrder'
  <2>1. task'[h] = IdleTask /\ OthersKeepTask(h)
    BY <1>4, <1>become DEF Respond, Reply
  <2> QED BY <2>1, <1>keep DEF IdleTask
<1>5. ASSUME CrashAndReset PROVE AnswersInOrder'
  BY <1>5 DEF CrashAndReset, Crash, IdleTask, AnswersInOrder
<1> QED
  BY <1>1, <1>2, <1>3, <1>4, <1>5
     DEF QueueNext, queueVars, vars, Play, Timeout

\* AwaitedIsOldest survives every step: who waits for a response keeps the
\* handler, its request and what the device has forgotten.
LEMMA AwaitedStep ==
  ASSUME QueueInv, [QueueNext]_queueVars
  PROVE  AwaitedIsOldest'
<1> USE DEF QueueInv
<1>0. /\ task \in [Handlers -> Tasks]
      /\ made \in [Users -> Nat] /\ forgotten \in [Users -> Nat]
      /\ waiting \in [Users -> Handlers \cup {NoHandler}]
      /\ NoHandler \notin Handlers
  BY QueueAssumption DEF QueueTypeOK, TypeOK
<1>keep. ASSUME \A u \in Users : waiting'[u] # NoHandler =>
                  /\ waiting'[u] = waiting[u]
                  /\ forgotten'[u] = forgotten[u] /\ made'[u] >= made[u]
                  /\ made'[u] \in Nat
                  /\ task'[waiting[u]].step # "idle"
                  /\ task'[waiting[u]].req = task[waiting[u]].req
         PROVE  AwaitedIsOldest'
  <2> SUFFICES ASSUME NEW u \in Users, waiting'[u] # NoHandler
               PROVE  /\ task'[waiting'[u]].step # "idle"
                      /\ \E last \in (forgotten'[u] + 1)..made'[u] :
                           task'[waiting'[u]].req = Batch(u, forgotten'[u] + 1, last)
    BY DEF AwaitedIsOldest, Batch
  <2>1. PICK last \in (forgotten[u] + 1)..made[u] :
          task[waiting[u]].req = Batch(u, forgotten[u] + 1, last)
    BY <1>keep DEF AwaitedIsOldest
  <2>2. last \in (forgotten'[u] + 1)..made'[u]
    BY <1>0, <1>keep, <2>1
  <2> QED BY <1>keep, <2>1, <2>2
<1>old. ASSUME NEW u \in Users, waiting[u] # NoHandler
        PROVE  /\ waiting[u] \in Handlers
               /\ task[waiting[u]].step # "idle"
               /\ task[waiting[u]].req.user = u
  <2>1. waiting[u] \in Handlers
    BY <1>0, <1>old
  <2>2. /\ task[waiting[u]].step # "idle"
        /\ \E last : task[waiting[u]].req = Batch(u, forgotten[u] + 1, last)
    BY <1>old DEF AwaitedIsOldest
  <2> QED BY <2>1, <2>2 DEF Batch
<1>1. ASSUME UNCHANGED queueVars PROVE AwaitedIsOldest'
  BY <1>0, <1>1, <1>old, <1>keep DEF queueVars, vars
<1>2. ASSUME NEW u \in Users, Play(u) PROVE AwaitedIsOldest'
  BY <1>0, <1>2, <1>old, <1>keep DEF Play, vars
<1>3. ASSUME NEW u \in Users, Timeout(u) PROVE AwaitedIsOldest'
  BY <1>0, <1>3, <1>old, <1>keep DEF Timeout
<1>4. ASSUME CrashAndReset PROVE AwaitedIsOldest'
  BY <1>4 DEF CrashAndReset, AwaitedIsOldest
<1>5. ASSUME NEW h \in Handlers, Work(h) PROVE AwaitedIsOldest'
  <2>1. OthersKeepTask(h) /\ task'[h].step # "idle" /\ task'[h].req = task[h].req
    <3>1. CASE StaysAtItem(h)
      BY <3>1 DEF StaysAtItem
    <3>2. CASE AnswersItem(h)
      BY <1>0, <3>2 DEF AnswersItem, Finish, Become, Finished, OthersKeepTask
    <3> QED BY <1>5, <3>1, <3>2, WorkShape
  <2> QED BY <1>0, <1>5, <2>1, <1>old, <1>keep DEF Work, OthersKeepTask
<1>6. ASSUME NEW h \in Handlers, Respond(h) PROVE AwaitedIsOldest'
  <2> DEFINE u == Caller(h)
  <2>1. /\ task[h].step # "idle" /\ OthersKeepTask(h) /\ UNCHANGED made
        /\ u \in Users
    BY <1>0, <1>6, BusyType DEF Respond, Reply, Become, OthersKeepTask, QueueTypeOK
  <2>2. ASSUME NEW v \in Users, waiting'[v] # NoHandler
        PROVE  /\ waiting'[v] = waiting[v] /\ forgotten'[v] = forgotten[v]
               /\ waiting[v] \in Handlers /\ waiting[v] # h
    BY <1>0, <1>6, <2>1, <2>2, <1>old DEF Respond, Caller
  <2> QED BY <1>0, <2>1, <2>2, <1>old, <1>keep DEF OthersKeepTask
<1>7. ASSUME NEW u \in Users, Upload(u) PROVE AwaitedIsOldest'
  <2> DEFINE r == Batch(u, forgotten[u] + 1, LastOfBatch(u))
  <2>1. PICK h \in Handlers :
          Receive(h, r) /\ waiting' = [waiting EXCEPT ![u] = h]
    BY <1>7 DEF Upload
  <2>2. /\ LastOfBatch(u) \in (forgotten[u] + 1)..made[u]
        /\ r.kind = "batch"
    BY <1>7, NextBatch DEF Upload
  <2>3. /\ task[h].step = "idle" /\ OthersKeepTask(h)
        /\ task'[h].step = "begin" /\ task'[h].req = r
        /\ UNCHANGED <<made, forgotten>>
    BY <1>0, <1>7, <2>1, <2>2 DEF Receive, Become, OthersKeepTask, IdleTask, Upload
  <2> SUFFICES ASSUME NEW v \in Users, waiting'[v] # NoHandler
               PROVE  /\ task'[waiting'[v]].step # "idle"
                      /\ \E last \in (forgotten[v] + 1)..made[v] :
                           task'[waiting'[v]].req = Batch(v, forgotten[v] + 1, last)
    BY <2>3 DEF AwaitedIsOldest, Batch
  <2>4. CASE v = u
    BY <1>0, <2>1, <2>2, <2>3, <2>4
  <2>5. CASE v # u
    <3>1. waiting'[v] = waiting[v] /\ waiting[v] \in Handlers /\ waiting[v] # h
      BY <1>0, <2>1, <2>3, <2>5, <1>old
    <3>2. task'[waiting'[v]] = task[waiting[v]]
      BY <2>3, <3>1 DEF OthersKeepTask
    <3> QED BY <3>1, <3>2 DEF AwaitedIsOldest
  <2> QED BY <2>4, <2>5
<1> QED
  BY <1>1, <1>2, <1>3, <1>4, <1>5, <1>6, <1>7 DEF QueueNext

\* The answers of a response that is still awaited are about the plays after
\* the forgotten ones: as many as it has answers, each final or in the table.
LEMMA AnswersSettle ==
  ASSUME QueueInv, NEW h \in Handlers, Respond(h),
         NEW u \in Users, u = Caller(h), waiting[u] = h
  PROVE  /\ forgotten'[u] \in Nat /\ forgotten'[u] <= made[u]
         /\ forgotten' = [forgotten EXCEPT ![u] = forgotten'[u]]
         /\ \A i \in (forgotten[u] + 1)..forgotten'[u] : Settled(u, Backlog[u][i])'
<1> USE DEF QueueInv
<1> DEFINE t == task[h]
           n == Len(t.results)
<1>1. /\ t.step # "idle"
      /\ t.results \in Seq(Answers) /\ n \in Nat
      /\ InOrder(t)
  BY BusyType DEF Respond, Reply, QueueTypeOK, Tasks, AnswersInOrder
<1>2. /\ forgotten[u] \in Nat /\ made[u] \in Nat /\ made[u] <= Len(Backlog[u])
      /\ forgotten \in [Users -> Nat]
      /\ DOMAIN Backlog[u] = 1..Len(Backlog[u]) /\ Len(Backlog[u]) \in Nat
      /\ h # NoHandler
  BY <1>1, QueueAssumption DEF QueueTypeOK
<1>3. PICK last \in (forgotten[u] + 1)..made[u] :
        t.req = Batch(u, forgotten[u] + 1, last)
  BY <1>1, <1>2 DEF AwaitedIsOldest
<1>4. /\ Len(t.req.items) = last - forgotten[u]
      /\ \A k \in 1..(last - forgotten[u]) : t.req.items[k] = Backlog[u][forgotten[u] + k]
  <2>1. /\ forgotten[u] + 1 \in DOMAIN Backlog[u] /\ last \in DOMAIN Backlog[u]
        /\ forgotten[u] + 1 <= last
    BY <1>2, <1>3
  <2>2. /\ Len(t.req.items) = last - (forgotten[u] + 1) + 1
        /\ \A k \in 1..(last - (forgotten[u] + 1) + 1) :
             t.req.items[k] = Backlog[u][(forgotten[u] + 1) + k - 1]
    BY <1>1, <1>3, <2>1, BatchItems
  <2> DEFINE f == forgotten[u]
  <2>3. f \in Int /\ last \in Int
    BY <1>2, <1>3
  <2> HIDE DEF f
  <2>4. /\ last - (f + 1) + 1 = last - f
        /\ \A k \in Int : (f + 1) + k - 1 = f + k
    BY <2>3
  <2>5. Len(t.req.items) = last - f
    BY <2>2, <2>4 DEF f
  <2>6. ASSUME NEW k \in 1..(last - f) PROVE t.req.items[k] = Backlog[u][f + k]
    <3>1. k \in 1..(last - (f + 1) + 1) /\ (f + 1) + k - 1 = f + k
      BY <2>4, <2>6
    <3> QED BY <2>2, <3>1 DEF f
  <2> QED BY <2>5, <2>6 DEF f
<1>5. forgotten' = [forgotten EXCEPT ![u] = forgotten[u] + n]
  BY DEF Respond
<1>6. forgotten'[u] = forgotten[u] + n
  BY <1>1, <1>2, <1>5
<1>7. n <= last - forgotten[u]
  BY <1>1, <1>4 DEF InOrder
<1>8. ASSUME NEW i \in (forgotten[u] + 1)..forgotten'[u]
      PROVE  Settled(u, Backlog[u][i])'
  <2> DEFINE k == i - forgotten[u]
  <2>1. /\ k \in 1..n /\ k \in 1..(last - forgotten[u]) /\ forgotten[u] + k = i
    BY <1>1, <1>2, <1>3, <1>6, <1>7
  <2>2. /\ t.results[k].item = Backlog[u][i]
        /\ t.results[k].status = "rejected" \/ Stored(Backlog[u][i].cid)
    BY <1>1, <1>4, <2>1 DEF InOrder
  <2>3. records' = records /\ [user |-> u, answer |-> t.results[k]] \in replies'
    BY <1>1, <2>1 DEF Respond, Reply
  <2>4. \/ \E row \in records' : row.cid = Backlog[u][i].cid
        \/ \E rep \in replies' : /\ rep.user = u
                                 /\ rep.answer.item = Backlog[u][i]
                                 /\ rep.answer.status = "rejected"
    <3> DEFINE rep == [user |-> u, answer |-> t.results[k]]
    <3>1. rep.user = u /\ rep.answer = t.results[k]
      OBVIOUS
    <3>2. CASE t.results[k].status = "rejected"
      BY <2>2, <2>3, <3>1, <3>2
    <3>3. CASE Stored(Backlog[u][i].cid)
      BY <2>3, <3>3 DEF Stored
    <3> QED BY <2>2, <3>2, <3>3
  <2> QED BY <2>4 DEF Settled, Stored
<1>9. forgotten'[u] \in Nat /\ forgotten'[u] <= made[u]
  BY <1>1, <1>2, <1>3, <1>6, <1>7
<1> QED BY <1>1, <1>5, <1>6, <1>8, <1>9

\* Types and settled plays survive every step.
LEMMA SettledStep ==
  ASSUME QueueInv, [QueueNext]_queueVars
  PROVE  QueueTypeOK' /\ ForgottenIsSettled'
<1> USE DEF QueueInv
<1> DEFINE Counts == /\ made' \in [Users -> Nat]
                     /\ forgotten' \in [Users -> Nat]
                     /\ waiting' \in [Users -> Handlers \cup {NoHandler}]
                     /\ \A u \in Users : /\ forgotten'[u] <= made'[u]
                                         /\ made'[u] <= Len(Backlog[u])
           News == \A u \in Users : \A i \in 1..forgotten'[u] :
                     i \in 1..forgotten[u] \/ Settled(u, Backlog[u][i])'
<1>0. /\ TypeOK'
      /\ records \subseteq records'
      /\ replies \subseteq replies'
  BY ServerStep
<1>1. ASSUME UNCHANGED <<made, forgotten, waiting>> PROVE Counts /\ News
  BY <1>1 DEF QueueTypeOK
<1>2. ASSUME NEW u \in Users, Play(u) PROVE Counts /\ News
  <2>1. Len(Backlog[u]) \in Nat
    BY QueueAssumption
  <2> QED BY <1>2, <2>1 DEF Play, QueueTypeOK
<1>3. ASSUME NEW u \in Users, Upload(u) PROVE Counts /\ News
  BY <1>3 DEF Upload, QueueTypeOK
<1>4. ASSUME NEW u \in Users, Timeout(u) PROVE Counts /\ News
  BY <1>4 DEF Timeout, QueueTypeOK
<1>5. ASSUME CrashAndReset PROVE Counts /\ News
  BY <1>5 DEF CrashAndReset, QueueTypeOK
<1>6. ASSUME NEW h \in Handlers, Respond(h) PROVE Counts /\ News
  <2>1. CASE waiting[Caller(h)] = h
    <3>1. Caller(h) \in Users
      BY <1>6, BusyType DEF Respond, Reply, QueueTypeOK
    <3>2. PICK u \in Users : u = Caller(h)
      BY <3>1
    <3>3. /\ forgotten'[u] \in Nat /\ forgotten'[u] <= made[u]
          /\ forgotten' = [forgotten EXCEPT ![u] = forgotten'[u]]
          /\ \A i \in (forgotten[u] + 1)..forgotten'[u] : Settled(u, Backlog[u][i])'
      BY <1>6, <2>1, <3>2, AnswersSettle
    <3>4. made' = made /\ waiting' = [waiting EXCEPT ![u] = NoHandler]
      BY <1>6, <2>1, <3>2 DEF Respond
    <3>5. Counts
      BY <3>3, <3>4 DEF QueueTypeOK
    <3>6. News
      <4> SUFFICES ASSUME NEW v \in Users, NEW i \in 1..forgotten'[v]
                   PROVE  i \in 1..forgotten[v] \/ Settled(v, Backlog[v][i])'
        OBVIOUS
      <4>1. CASE v = u
        BY <3>3, <4>1 DEF QueueTypeOK
      <4>2. CASE v # u
        <5>1. forgotten'[v] = forgotten[v]
          BY <3>3, <4>2 DEF QueueTypeOK
        <5> QED BY <5>1
      <4> QED BY <4>1, <4>2
    <3> QED BY <3>5, <3>6
  <2>2. CASE waiting[Caller(h)] # h
    BY <1>6, <2>2, <1>1 DEF Respond
  <2> QED BY <2>1, <2>2
<1>7. Counts /\ News
  BY <1>1, <1>2, <1>3, <1>4, <1>5, <1>6 DEF QueueNext, queueVars, Work
<1>8. ForgottenIsSettled'
  <2> SUFFICES ASSUME NEW u \in Users, NEW i \in 1..forgotten'[u]
               PROVE  Settled(u, Backlog[u][i])'
    BY DEF ForgottenIsSettled
  <2>1. CASE i \in 1..forgotten[u]
    <3>1. Settled(u, Backlog[u][i])
      BY <2>1 DEF ForgottenIsSettled
    <3> QED BY <1>0, <3>1 DEF Settled, Stored
  <2> QED BY <1>7, <2>1
<1> QED BY <1>0, <1>7, <1>8 DEF QueueTypeOK

\* The invariant holds before anything is played.
LEMMA QueueInvInit == QueueInit => QueueInv
<1> SUFFICES ASSUME QueueInit PROVE QueueInv
  OBVIOUS
<1>1. QueueTypeOK
  BY TypeInit, QueueAssumption DEF QueueInit, QueueTypeOK
<1>2. AnswersInOrder /\ AwaitedIsOldest /\ ForgottenIsSettled
  BY DEF QueueInit, Init, IdleTask, AnswersInOrder, AwaitedIsOldest, ForgottenIsSettled
<1> QED BY <1>1, <1>2 DEF QueueInv

\* And it survives every step of client and server.
LEMMA QueueInvStep == QueueInv /\ [QueueNext]_queueVars => QueueInv'
<1> SUFFICES ASSUME QueueInv, [QueueNext]_queueVars PROVE QueueInv'
  OBVIOUS
<1>1. AnswersInOrder'
  BY OrderStep DEF QueueInv
<1> QED BY <1>1, AwaitedStep, SettledStep DEF QueueInv

\* What a device has deleted from its queue is in the table or was rejected,
\* whatever times out, fails, crashes or is resent (record_batch.go gives one
\* answer per item, after the item's row is committed).
THEOREM NoPlayIsDropped == QueueSpec => []ForgottenIsSettled
<1>1. QueueInv => ForgottenIsSettled
  BY DEF QueueInv
<1> QED BY <1>1, QueueInvInit, QueueInvStep, PTL DEF QueueSpec
=============================================================================
