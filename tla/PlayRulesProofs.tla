-------------------------- MODULE PlayRulesProofs --------------------------
(***************************************************************************)
(* Theorems about PlayRules, for plays with any number of notes, musics of *)
(* any length, and any difficulties and coefficients.                      *)
(***************************************************************************)
EXTENDS PlayRules, TLAPS

\* Division by a positive number, as the product it undoes.
LEMMA Division ==
  ASSUME NEW a \in Int, NEW d \in Int, d > 0
  PROVE  /\ a \div d \in Int /\ a % d \in Int
         /\ 0 <= a % d /\ a % d < d
         /\ a = d * (a \div d) + (a % d)
  OBVIOUS

\* The quotient is the number whose multiple is the last one not above.
LEMMA Quotient ==
  ASSUME NEW a \in Int, NEW d \in Int, NEW q \in Int, d > 0,
         d * q <= a, a < d * (q + 1)
  PROVE  a \div d = q
  OBVIOUS

\* A quotient rounded to the nearest number is the one below or above.
LEMMA RoundNear ==
  ASSUME NEW a \in Nat, NEW d \in Nat, d > 0
  PROVE  Round([num |-> a, den |-> d]) \in {a \div d, (a \div d) + 1}
<1> DEFINE q == a \div d
           r == a % d
<1>1. /\ q \in Int /\ r \in Int /\ 0 <= r /\ r < d
      /\ a = d * q + r
  BY Division
<1>2. Round([num |-> a, den |-> d]) = (2 * a + d) \div (2 * d)
  BY DEF Round
<1> HIDE DEF q, r
<1>3. /\ d * (q + 1) = d * q + d /\ d * (q + 2) = d * q + 2 * d
      /\ (2 * d) * q = 2 * (d * q) /\ (2 * d) * (q + 1) = 2 * (d * q) + 2 * d
      /\ (2 * d) * (q + 2) = 2 * (d * q) + 4 * d
      /\ d * q \in Int
  BY <1>1
<1>4. CASE 2 * r + d < 2 * d
  <2>1. (2 * d) * q <= 2 * a + d /\ 2 * a + d < (2 * d) * (q + 1)
    BY <1>1, <1>3, <1>4
  <2>2. (2 * a + d) \div (2 * d) = q
    BY <1>1, <2>1, Quotient
  <2> QED
    BY <1>2, <2>2 DEF q
<1>5. CASE ~(2 * r + d < 2 * d)
  <2>1. (2 * d) * (q + 1) <= 2 * a + d /\ 2 * a + d < (2 * d) * ((q + 1) + 1)
    BY <1>1, <1>3, <1>5
  <2>2. (2 * a + d) \div (2 * d) = q + 1
    BY <1>1, <2>1, Quotient
  <2> QED
    BY <1>2, <2>2 DEF q
<1> QED
  BY <1>4, <1>5

\* A whole number is rounded to itself.
LEMMA RoundWhole ==
  ASSUME NEW n \in Int PROVE Round([num |-> n, den |-> 1]) = n
  BY DEF Round

\* Whichever way an accuracy is rounded, it is at most one off the server's.
LEMMA AccuracyNear ==
  ASSUME counts \in [Kinds -> Nat], NoteCount(counts) > 0,
         NEW accuracy \in Accuracies
  PROVE  Distance(Round(accuracy),
                  Total(Weight, counts) \div NoteCount(counts)) \in 0..1
<1> DEFINE num == Total(Weight, counts)
           den == NoteCount(counts)
           q == num \div den
<1>1. num \in Nat /\ den \in Nat /\ den > 0
  BY DEF Total, Weight, NoteCount, Kinds
<1>2. q \in Int
  BY <1>1, Division
<1>3. \/ accuracy = [num |-> num, den |-> den]
      \/ accuracy = [num |-> q, den |-> 1]
      \/ accuracy = [num |-> q + 1, den |-> 1]
  BY DEF Accuracies
<1> HIDE DEF num, den
<1>4. Round(accuracy) \in {q, q + 1}
  BY <1>1, <1>2, <1>3, RoundNear, RoundWhole
<1> QED
  BY <1>2, <1>4 DEF Distance, num, den

\* The two translations of a rank undo each other.
LEMMA SpellingsAgree ==
  ASSUME NEW rank \in RecordRanks \cup TRankKeys
  PROVE  /\ NormalizeRankForStorage(rank) \in RecordRanks
         /\ NormalizeRankForCoefficient(rank) \in TRankKeys
         /\ NormalizeRankForCoefficient(NormalizeRankForStorage(rank))
              = NormalizeRankForCoefficient(rank)
         /\ NormalizeRankForStorage(NormalizeRankForCoefficient(rank))
              = NormalizeRankForStorage(rank)
  BY DEF RecordRanks, TRankKeys, NormalizeRankForStorage,
     NormalizeRankForCoefficient, Translated, PlusToUnderscore,
     UnderscoreToPlus

\* No note is judged yet, and nothing is reported.
LEMMA PlayInitial == PlayInit => PlayInv
<1> SUFFICES ASSUME PlayInit PROVE PlayInv
  OBVIOUS
<1>1. counts \in [Kinds -> Nat] /\ score = Total(Points, counts)
  BY DEF PlayInit, Total, Points, Kinds
<1>2. outcome = Unreported /\ outcome.verdict = "none"
  BY DEF PlayInit, Unreported
<1> QED
  BY <1>1, <1>2
  DEF PlayInv, PlayTypeOK, ScoreIsTotal, HonestPlaysPass, RankSpellingsAgree

\* A judgment counts one note and adds its points; a report changes neither
\* counts nor score.
LEMMA PlayKept == PlayInv /\ [PlayNext]_playVars => PlayInv'
<1> SUFFICES ASSUME PlayInv, [PlayNext]_playVars PROVE PlayInv'
  OBVIOUS
<1>1. ASSUME NEW k \in Kinds, Judge(k) PROVE PlayInv'
  <2>1. counts' \in [Kinds -> Nat]
    BY <1>1 DEF PlayInv, PlayTypeOK, Judge
  <2>2. outcome' = outcome
    BY <1>1 DEF Judge
  <2>3. ScoreIsTotal'
    BY <1>1 DEF PlayInv, PlayTypeOK, Judge, ScoreIsTotal, Total, Points, Kinds
  <2> QED
    BY <2>1, <2>2, <2>3
    DEF PlayInv, PlayTypeOK, HonestPlaysPass, RankSpellingsAgree
<1>2. CASE ReportPlay
  <2>1. PICK accuracy \in Accuracies, rank \in RecordRanks \cup TRankKeys,
             played \in PlayTimes, length \in Durations :
               Report(accuracy, rank, played, length)
    BY <1>2 DEF ReportPlay
  <2> DEFINE r == [counts |-> counts, score |-> score, accuracy |-> accuracy,
                   played |-> played]
  <2>2. /\ outcome'.verdict = Evaluate(r, length)
        /\ outcome'.played = played /\ outcome'.length = length
        /\ outcome'.stored = NormalizeRankForStorage(rank)
        /\ outcome'.key = NormalizeRankForCoefficient(rank)
        /\ counts' = counts /\ score' = score
    BY <2>1 DEF Report
  <2>3. played \in Nat /\ length \in Nat
    BY PlayAssumption
  <2>4. counts \in [Kinds -> Nat] /\ NoteCount(counts) > 0
        /\ NoteCount(counts) \in Nat
    BY <1>2 DEF PlayInv, PlayTypeOK, ReportPlay, NoteCount, Kinds
  <2>5. /\ r.counts = counts /\ r.score = score
        /\ r.accuracy = accuracy /\ r.played = played
    OBVIOUS
  <2> HIDE DEF r
  <2>6. score = Total(Points, counts)
    BY DEF PlayInv, ScoreIsTotal
  <2>7. Distance(Round(accuracy),
                 Total(Weight, counts) \div NoteCount(counts)) \in 0..1
    BY <2>4, AccuracyNear
  <2>8. Evaluate(r, length) =
          IF DurationOut(length, played) THEN "duration_out_of_range" ELSE Pass
    BY <2>4, <2>5, <2>6, <2>7 DEF Evaluate
  <2>9. HonestPlaysPass'
    BY <2>2, <2>3, <2>8 DEF HonestPlaysPass, DurationOut
  <2>10. RankSpellingsAgree'
    BY <2>2, SpellingsAgree DEF RankSpellingsAgree
  <2>11. PlayTypeOK' /\ ScoreIsTotal'
    BY <2>2, <2>4 DEF PlayInv, PlayTypeOK, ScoreIsTotal
  <2> QED
    BY <2>9, <2>10, <2>11 DEF PlayInv
<1>3. CASE StartOver
  <2>1. counts' \in [Kinds -> Nat] /\ score' = Total(Points, counts')
    BY <1>3 DEF StartOver, Total, Points, Kinds
  <2>2. outcome' = Unreported /\ outcome'.verdict = "none"
    BY <1>3 DEF StartOver, Unreported
  <2> QED
    BY <2>1, <2>2
    DEF PlayInv, PlayTypeOK, ScoreIsTotal, HonestPlaysPass, RankSpellingsAgree
<1>4. CASE UNCHANGED playVars
  BY <1>4
  DEF playVars, PlayInv, PlayTypeOK, ScoreIsTotal, HonestPlaysPass,
      RankSpellingsAgree
<1> QED
  BY <1>1, <1>2, <1>3, <1>4 DEF PlayNext

\* The inductive invariant: whatever notes are judged and however the play is
\* reported, the game's running score is the sum that evaluate computes from
\* the counts.
THEOREM PlayInvariance == PlaySpec => []PlayInv
  BY PlayInitial, PlayKept, PTL DEF PlaySpec

\* defaultSanityValidator.evaluate turns no honest play away, of whatever number of
\* notes and whichever way its accuracy was rounded, but for a play time
\* outside the window of a music whose length is known.
THEOREM HonestPass == PlaySpec => []HonestPlaysPass
  BY PlayInvariance, PTL DEF PlayInv

\* NormalizeRankForStorage and NormalizeRankForCoefficient, two maps written
\* apart, agree on the rank of every play.
THEOREM SpellingsMeanOneRank == PlaySpec => []RankSpellingsAgree
  BY PlayInvariance, PTL DEF PlayInv

\* The more notes are judged better, the larger the product; where it grows,
\* it does so by more than both products may be inexact.
LEMMA MoreForBetter ==
  ASSUME NEW c \in [Kinds -> Nat], NEW b \in [Kinds -> Nat],
         NoteCount(b) = NoteCount(c),
         JudgmentTwentieths(c) <= JudgmentTwentieths(b),
         NEW d \in Nat, NEW x \in Nat
  PROVE  LET m == ExpNumerator(c, d, x)
             n == ExpNumerator(b, d, x)
         IN  /\ m \in Nat /\ n \in Nat
             /\ Inexact(m) \in Nat /\ Inexact(n) \in Nat
             /\ m = n \/ m + Inexact(m) <= n - Inexact(n)
<1> DEFINE i == JudgmentTwentieths(c)
           j == JudgmentTwentieths(b)
           p == (10000 + Notes(c)) * (100 + d) * x
           m == ExpNumerator(c, d, x)
           n == ExpNumerator(b, d, x)
<1>1. /\ Notes(c) = Notes(b) /\ Notes(c) \in Nat
      /\ i \in 20..22 /\ j \in 20..22 /\ i <= j
  BY DEF Notes, NoteCount, Kinds, JudgmentTwentieths
<1>2. m = p * i /\ n = p * j
  BY <1>1 DEF ExpNumerator
<1>3. p \in Nat /\ (p = 0 \/ p >= 1000000)
  <2>1. CASE x = 0
    BY <1>1, <2>1
  <2>2. CASE x >= 1
    <3> DEFINE y == 10000 + Notes(c)
               z == 100 + d
    <3>1. y \in Nat /\ z \in Nat /\ y >= 10000 /\ z >= 100
      BY <1>1
    <3> HIDE DEF y, z
    <3>2. y * z \in Nat /\ y * z >= 10000 * 100
      BY <3>1
    <3> DEFINE w == y * z
    <3> HIDE DEF w
    <3>3. w \in Nat /\ w >= 1000000
      BY <3>2 DEF w
    <3>4. w * x \in Nat /\ w * x >= 1000000
      BY <3>3, <2>2
    <3> QED
      BY <3>4 DEF w, y, z
  <2> QED
    BY <2>1, <2>2
<1> HIDE DEF i, j, p, m, n
<1>4. m \in Nat /\ n \in Nat /\ m <= 22 * p /\ n <= 22 * p
  BY <1>1, <1>2, <1>3
<1>5. /\ Inexact(m) \in Nat /\ 8388608 * Inexact(m) <= m + 8388608
      /\ Inexact(n) \in Nat /\ 8388608 * Inexact(n) <= n + 8388608
  BY <1>4 DEF Inexact
<1>6. i = j \/ p = 0 => m = n
  BY <1>1, <1>2, <1>3
<1>7. i < j => m + p <= n
  BY <1>1, <1>2, <1>3
<1>8. i < j /\ p > 0 => m + Inexact(m) <= n - Inexact(n)
  BY <1>3, <1>4, <1>5, <1>7
<1> QED
  BY <1>1, <1>3, <1>4, <1>5, <1>6, <1>8 DEF m, n

\* Whole parts are ordered as the numbers are.
LEMMA DivOrdered ==
  ASSUME NEW a \in Int, NEW b \in Int, a <= b
  PROVE  a \div ExpDenominator <= b \div ExpDenominator
  BY DEF ExpDenominator

\* applyExpGain never gives less for the same notes judged better, for any
\* number of notes, difficulty and coefficient: the products differ by more
\* than float32 and float64 are inexact by.
THEOREM BetterEarnsNoLess == PlaySpec => []BetterNeverEarnsLess
<1>1. PlayInv => BetterNeverEarnsLess
  <2> SUFFICES ASSUME counts \in [Kinds -> Nat],
                      NEW pair \in Better, counts[pair[2]] > 0,
                      NEW d \in Difficulties, NEW x \in Coefficients
               PROVE  LET better == [counts EXCEPT ![pair[1]] = @ + 1,
                                                   ![pair[2]] = @ - 1]
                      IN  \/ ExpNumerator(better, d, x)
                               = ExpNumerator(counts, d, x)
                          \/ \A less \in ExpGainedOutcomes(counts, d, x),
                                more \in ExpGainedOutcomes(better, d, x) :
                               less <= more
    BY DEF PlayInv, PlayTypeOK, BetterNeverEarnsLess
  <2> DEFINE better == [counts EXCEPT ![pair[1]] = @ + 1, ![pair[2]] = @ - 1]
             m == ExpNumerator(counts, d, x)
             n == ExpNumerator(better, d, x)
  <2>1. d \in Nat /\ x \in Nat
    BY PlayAssumption
  <2>2. /\ better \in [Kinds -> Nat]
        /\ NoteCount(better) = NoteCount(counts)
        /\ JudgmentTwentieths(counts) <= JudgmentTwentieths(better)
    <3>1. CASE pair = <<"perfect", "good">>
      BY <3>1 DEF Kinds, NoteCount, JudgmentTwentieths
    <3>2. CASE pair = <<"good", "bad">>
      BY <3>2 DEF Kinds, NoteCount, JudgmentTwentieths
    <3>3. CASE pair = <<"bad", "miss">>
      BY <3>3 DEF Kinds, NoteCount, JudgmentTwentieths
    <3> QED
      BY <3>1, <3>2, <3>3 DEF Better
  <2> HIDE DEF better
  <2>3. /\ m \in Nat /\ n \in Nat
        /\ Inexact(m) \in Nat /\ Inexact(n) \in Nat
        /\ m = n \/ m + Inexact(m) <= n - Inexact(n)
    BY <2>1, <2>2, MoreForBetter
  <2>4. /\ ExpGainedOutcomes(counts, d, x) =
             ((m - Inexact(m)) \div ExpDenominator)
               .. ((m + Inexact(m)) \div ExpDenominator)
        /\ ExpGainedOutcomes(better, d, x) =
             ((n - Inexact(n)) \div ExpDenominator)
               .. ((n + Inexact(n)) \div ExpDenominator)
    BY DEF ExpGainedOutcomes
  <2> HIDE DEF m, n
  <2>5. ASSUME m + Inexact(m) <= n - Inexact(n),
               NEW less \in ExpGainedOutcomes(counts, d, x),
               NEW more \in ExpGainedOutcomes(better, d, x)
        PROVE  less <= more
    <3>1. /\ (m + Inexact(m)) \div ExpDenominator \in Int
          /\ (n - Inexact(n)) \div ExpDenominator \in Int
          /\ (m - Inexact(m)) \div ExpDenominator \in Int
          /\ (n + Inexact(n)) \div ExpDenominator \in Int
      BY <2>3, Division DEF ExpDenominator
    <3>2. (m + Inexact(m)) \div ExpDenominator
             <= (n - Inexact(n)) \div ExpDenominator
      BY <2>3, <2>5, DivOrdered
    <3> QED
      BY <2>4, <2>5, <3>1, <3>2
  <2> QED
    BY <2>3, <2>5 DEF m, n, better
<1> QED
  BY <1>1, PlayInvariance, PTL
=============================================================================
