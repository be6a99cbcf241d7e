------------------------------- MODULE Sanity -------------------------------
(***************************************************************************)
(* The rules a reported play must pass in SANITY_MODE=enforce.  A report   *)
(* has the counts of judgments, the score, the accuracy and the play time. *)
(*                                                                         *)
(* The accuracy, a float64 in the code, is a quotient [num, den] here; the *)
(* ratios of the duration rule are tenths.                                 *)
(***************************************************************************)
EXTENDS Integers

Kinds == {"perfect", "good", "bad", "miss"}
Points == [perfect |-> 1000, good |-> 500, bad |-> 200, miss |-> 0]
Weight == [perfect |-> 10000, good |-> 6600, bad |-> 3300, miss |-> 0]
Pass == "pass"

Total(weight, c) ==
  c.perfect * weight.perfect + c.good * weight.good + c.bad * weight.bad
    + c.miss * weight.miss
NoteCount(c) == c.perfect + c.good + c.bad + c.miss

\* math.Round of a quotient that is not negative.
Round(q) == (2 * q.num + q.den) \div (2 * q.den)

Distance(x, y) == IF x < y THEN y - x ELSE x - y

DurationOut(length, played) ==
  /\ length > 0
  /\ played > 0
  /\ 10 * played < 5 * length \/ 10 * played > 11 * length

\* Mutant: no tolerance for the accuracy.
EvaluateStrict(r, length) ==
  LET n == NoteCount(r.counts) IN
  IF n <= 0 THEN "invalid_payload"
  ELSE IF r.score # Total(Points, r.counts) THEN "score_out_of_range"
  ELSE IF Round(r.accuracy) # Total(Weight, r.counts) \div n
       THEN "payload_inconsistent"
  ELSE IF DurationOut(length, r.played) THEN "duration_out_of_range" ELSE Pass

\* The rules in their order; the first that fails gives the reason.
Evaluate(r, length) ==
  LET n == NoteCount(r.counts) IN
  IF n <= 0 THEN "invalid_payload"
  ELSE IF r.score # Total(Points, r.counts) THEN "score_out_of_range"
  ELSE IF Distance(Round(r.accuracy), Total(Weight, r.counts) \div n) > 1
       THEN "payload_inconsistent"
  ELSE IF DurationOut(length, r.played) THEN "duration_out_of_range" ELSE Pass
=============================================================================
