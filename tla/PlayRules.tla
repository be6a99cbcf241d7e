----------------------------- MODULE PlayRules -----------------------------
(***************************************************************************)
(* The rules about a single play against the game that produces it.  The   *)
(* game judges note after note, keeps a running score, and reports counts, *)
(* score, accuracy (the exact quotient or a whole number next to it), rank *)
(* (in either spelling) and play time.  The game is not in this            *)
(* repository; it follows the formulas that sanity_validator.go says it    *)
(* mirrors.  The server screens the report and stores it.                  *)
(***************************************************************************)
EXTENDS ExpRule, Sanity

CONSTANTS
  MaxNotes,      \* bound: notes in a play
  Durations,     \* music.duration_seconds, 0 if not filled in
  PlayTimes,     \* play_duration in seconds, 0 if not sent
  Difficulties,  \* stage.difficulty
  Coefficients   \* t_rank.coefficient, in tenths

ASSUME PlayAssumption ==
  /\ MaxNotes \in Nat \ {0}
  /\ Durations \subseteq Nat
  /\ PlayTimes \subseteq Nat
  /\ Difficulties \subseteq Nat
  /\ Coefficients \subseteq Nat

VARIABLES
  counts,   \* judgments so far
  score,    \* the game's running score
  outcome   \* what became of the report of these judgments

playVars == <<counts, score, outcome>>

Unreported ==
  [verdict |-> "none", played |-> 0, length |-> 0, stored |-> "", key |-> ""]

PlayInit ==
  /\ counts = [k \in Kinds |-> 0]
  /\ score = 0
  /\ outcome = Unreported

Judge(k) ==
  /\ NoteCount(counts) < MaxNotes
  /\ outcome = Unreported
  /\ counts' = [counts EXCEPT ![k] = @ + 1]
  /\ score' = score + Points[k]
  /\ UNCHANGED outcome

\* The exact quotient, rounded down or rounded up.
Accuracies ==
  LET num  == Total(Weight, counts)
      den  == NoteCount(counts)
      down == num \div den
  IN  {[num |-> num, den |-> den]}
      \cup {[num |-> n, den |-> 1] :
              n \in {down, IF num % den = 0 THEN down ELSE down + 1}}

\* CreateRecordRequest on its way: the verdict of the sanity rules, the rank
\* as it is stored and the key its coefficient is looked up with.
Report(accuracy, rank, played, length) ==
  LET r == [counts |-> counts, score |-> score, accuracy |-> accuracy,
            played |-> played]
  IN  /\ outcome' = [verdict |-> Evaluate(r, length),
                     played |-> played, length |-> length,
                     stored |-> NormalizeRankForStorage(rank),
                     key |-> NormalizeRankForCoefficient(rank)]
      /\ UNCHANGED <<counts, score>>

ReportPlay ==
  /\ NoteCount(counts) > 0
  /\ outcome = Unreported
  /\ \E accuracy \in Accuracies, rank \in RecordRanks \cup TRankKeys,
        played \in PlayTimes, length \in Durations :
       Report(accuracy, rank, played, length)

\* The next play, once this one is reported.
StartOver ==
  /\ outcome # Unreported
  /\ counts' = [k \in Kinds |-> 0]
  /\ score' = 0
  /\ outcome' = Unreported

PlayNext == (\E k \in Kinds : Judge(k)) \/ ReportPlay \/ StartOver

PlaySpec == PlayInit /\ [][PlayNext]_playVars

-----------------------------------------------------------------------------
Better == {<<"perfect", "good">>, <<"good", "bad">>, <<"bad", "miss">>}

\* The mirror is exact enough: a play reported as the game counted it is not
\* rejected, whichever way its accuracy was rounded, unless its play time is
\* outside the window of a music whose length is known (a play given up early
\* is).
HonestPlaysPass ==
  outcome.verdict \in {"none", Pass}
    \/ /\ outcome.verdict = "duration_out_of_range"
       /\ outcome.length > 0
       /\ \/ 2 * outcome.played < outcome.length
          \/ 10 * outcome.played > 11 * outcome.length

\* Whichever way the client spells a rank, the spelling stored is one of the
\* records enum, the key looked up is one of t_rank, and they mean the same
\* rank: EXP is granted for what the record shows.
RankSpellingsAgree ==
  outcome # Unreported =>
    /\ outcome.stored \in RecordRanks
    /\ outcome.key \in TRankKeys
    /\ NormalizeRankForCoefficient(outcome.stored) = outcome.key
    /\ NormalizeRankForStorage(outcome.key) = outcome.stored

\* A better judgment of the same notes never earns less, for all the rounding
\* of the float product: where the exact product grows, no outcome of the
\* worse play exceeds one of the better; where it does not, the same product
\* is computed.
BetterNeverEarnsLess ==
  \A pair \in Better : counts[pair[2]] > 0 =>
    LET better == [counts EXCEPT ![pair[1]] = @ + 1, ![pair[2]] = @ - 1] IN
    \A d \in Difficulties, c \in Coefficients :
      \/ ExpNumerator(better, d, c) = ExpNumerator(counts, d, c)
      \/ \A less \in ExpGainedOutcomes(counts, d, c),
            more \in ExpGainedOutcomes(better, d, c) : less <= more

(***************************************************************************)
(* The inductive invariant behind them: the game's running score is the    *)
(* sum that the server computes from the counts.                           *)
(***************************************************************************)
PlayTypeOK ==
  /\ counts \in [Kinds -> Nat]
  /\ outcome # Unreported =>
       outcome.played \in PlayTimes /\ outcome.length \in Durations

ScoreIsTotal == score = Total(Points, counts)

PlayInv ==
  /\ PlayTypeOK
  /\ ScoreIsTotal
  /\ HonestPlaysPass
  /\ RankSpellingsAgree
=============================================================================
