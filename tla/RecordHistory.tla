---------------------------- MODULE RecordHistory ----------------------------
(***************************************************************************)
(* What record ingest keeps although requests of one user overlap.  Two    *)
(* history variables remember what the others did; they follow the steps   *)
(* of RecordIngest and never hold one back.                                *)
(***************************************************************************)
EXTENDS RecordIngest

VARIABLES
  shown,  \* shown[h]: the rows a batch's user has had since its last gain
  raced   \* users who had two EXP updates between read and write at once

historyVars == <<vars, shown, raced>>

Batching(h) == task[h].step # "idle" /\ task[h].req.kind = "batch"
Writing(h) == task[h].step = "write"

Crowd(u, S) ==
  \E g, h \in S : g # h /\ task[g].req.user = u /\ task[h].req.user = u

RacingNow == {u \in Users : Crowd(u, {h \in Handlers : Writing(h)})}

\* In this step handler h gives an item an answer with an EXP gain.
ReportsGain(h) ==
  /\ Len(task'[h].results) > Len(task[h].results)
  /\ task'[h].results[Len(task'[h].results)].exp > 0

\* A batch starts over with the row of now when it arrives and when it reports
\* a gain, and in between collects what its user's row becomes.
ShownNext(h) ==
  IF ~Batching(h)' THEN {}
  ELSE LET row == profile'[task'[h].req.user] IN
       IF Batching(h) /\ ~ReportsGain(h) THEN shown[h] \cup {row} ELSE {row}

HistoryInit == Init /\ shown = [h \in Handlers |-> {}] /\ raced = {}

HistoryNext ==
  /\ Next
  /\ shown' = [h \in Handlers |-> ShownNext(h)]
  /\ raced' = raced \cup RacingNow'

HistorySpec == HistoryInit /\ [][HistoryNext]_historyVars

-----------------------------------------------------------------------------
HistoryTypeOK ==
  /\ TypeOK
  /\ shown \in [Handlers -> SUBSET Profiles]
  /\ raced \subseteq Users

\* Only overlapping updates lose EXP: for every other user exp is the sum of
\* what the credited records are worth, whatever fails, crashes or is retried
\* around the write, and however requests overlap outside it.
ExpLostOnlyByRaces == \A u \in Users \ raced : profile[u].exp = Earned(u)

Answers500(t) == t.step = "reply" /\ t.results = <<>>

\* user_after, the mirror of the last exp_to, is a row the user has had since
\* the last gain that the answer reports, or since the request came if it
\* reports none: a write of another request, or one of its own that failed on
\* the way back, may make it old, but it never shows a row of before that gain
\* and none that never was.
UserAfterWasCurrent ==
  \A h \in Handlers :
    Batching(h) /\ task[h].step = "reply" /\ ~Answers500(task[h])
      => task[h].after \in shown[h]

(***************************************************************************)
(* The inductive invariant behind the two.                                 *)
(***************************************************************************)
RacedIsKept == RacingNow \subseteq raced

\* A row about to be written is the user's row of now with the gain added.
SnapIsCurrent ==
  \A h \in Handlers : Writing(h) /\ Caller(h) \notin raced =>
    task[h].snap.exp = profile[Caller(h)].exp + Gain[Item(h).play]

\* What a batch has been shown includes its user's row of now and, from the
\* first item on, user_after.
ShownFollows ==
  \A h \in Handlers : Batching(h) =>
    /\ profile[Caller(h)] \in shown[h]
    /\ task[h].step = "begin" => task[h].results = <<>>
    /\ task[h].step # "begin" /\ ~Answers500(task[h]) => task[h].after \in shown[h]

HistoryInv ==
  /\ HistoryTypeOK
  /\ RacedIsKept
  /\ ExpLostOnlyByRaces
  /\ SnapIsCurrent
  /\ ShownFollows
=============================================================================
